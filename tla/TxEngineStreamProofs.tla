------------------------ MODULE TxEngineStreamProofs ------------------------
(***************************************************************************)
(* The engine sends the stream of PatternStream, for every word width and  *)
(* every set of configurations that it sends as such.                      *)
(***************************************************************************)
EXTENDS TxEngineRefinement, TxEngineProofs

Sendable ==
  \A c \in Configs :
    /\ c \in [ len : Nat, repeat : Nat, insert : Nat, gap : Nat,
               shift : BOOLEAN, loop : BOOLEAN ]
    /\ Streamable(c)

-----------------------------------------------------------------------------
(* Quotients and remainders *)

LEMMA DivisionIsUnique ==
  ASSUME NEW n \in Nat \ {0}, NEW q \in Nat, NEW r \in 0 .. n - 1
  PROVE  (q * n + r) \div n = q /\ (q * n + r) % n = r
OBVIOUS

LEMMA Division ==
  ASSUME NEW n \in Nat \ {0}, NEW a \in Nat
  PROVE  /\ a \div n \in Nat /\ a % n \in 0 .. n - 1
         /\ a = (a \div n) * n + (a % n)
OBVIOUS

LEMMA RemainderOfSum ==
  ASSUME NEW n \in Nat \ {0}, NEW a \in Nat, NEW b \in Nat
  PROVE  (a + (b % n)) % n = (a + b) % n
<1> DEFINE d == b \div n
           m == b % n
           e == (a + m) \div n
           k == (a + m) % n
<1>1. d \in Nat /\ m \in 0 .. n - 1 /\ b = d * n + m
  BY Division
<1>2. a + m \in Nat
  BY <1>1
<1>3. e \in Nat /\ k \in 0 .. n - 1 /\ a + m = e * n + k
  BY <1>2, Division
<1> HIDE DEF d, m, e, k
<1>4. (d + e) * n = d * n + e * n /\ d * n \in Nat /\ e * n \in Nat /\ d + e \in Nat
  BY <1>1, <1>3
<1>5. a + b = (d + e) * n + k
  BY <1>1, <1>3, <1>4
<1>6. ((d + e) * n + k) % n = k
  BY <1>3, <1>4, DivisionIsUnique, Zenon
<1>7. (a + b) % n = k
  BY <1>5, <1>6
<1> QED  BY <1>7 DEF k, m

LEMMA RemainderOfShift ==
  ASSUME NEW n \in Nat \ {0}, NEW a \in Nat
  PROVE  (n + a) % n = a % n
<1> DEFINE d == a \div n
           m == a % n
<1>1. d \in Nat /\ m \in 0 .. n - 1 /\ a = d * n + m
  BY Division
<1> HIDE DEF d, m
<1>2. n + a = (d + 1) * n + m /\ d + 1 \in Nat
  BY <1>1
<1>3. ((d + 1) * n + m) % n = m
  BY <1>1, <1>2, DivisionIsUnique, Zenon
<1>4. (n + a) % n = m
  BY <1>2, <1>3
<1> QED  BY <1>4 DEF m

\* Part r of item q comes before the end of m items, and no item is cut.
LEMMA ItemsFit ==
  ASSUME NEW t \in Nat, NEW q \in Nat, NEW m \in Nat, q < m
  PROVE  q * t + t <= m * t /\ q * t \in Nat /\ m * t \in Nat
OBVIOUS

-----------------------------------------------------------------------------
(* The gap of a phase, whole and cut to words *)

PhaseGap == [from |-> active.gap_start, to |-> active.gap_end]

\* The pattern bits of a phase before its position p.
PatternBit(p) == p - GapBitsBefore(p, PhaseGap)

GapIsPresent == active.gap_present <=> active.gap_start # active.gap_end

LEMMA PatternBits_Of ==
  ASSUME TypeInv, NEW p \in Nat
  PROVE  /\ PatternBit(p) \in Nat /\ PatternBit(p) <= p
         /\ p <= active.gap_start => PatternBit(p) = p
         /\ p > active.gap_start /\ p < active.gap_end => PatternBit(p) = active.gap_start
         /\ p > active.gap_start /\ p >= active.gap_end =>
              PatternBit(p) = p - (active.gap_end - active.gap_start)
<1> DEFINE gs == active.gap_start
           ge == active.gap_end
<1>1. gs \in Nat /\ ge \in Nat /\ gs <= ge
  BY DEF TypeInv, ActiveOK
<1>2. PatternBit(p) = p - (IF p <= gs THEN 0 ELSE IF p >= ge THEN ge - gs ELSE p - gs)
  BY DEF PatternBit, GapBitsBefore, PhaseGap, Width
<1> HIDE DEF gs, ge
<1>3. /\ PatternBit(p) \in Nat /\ PatternBit(p) <= p
      /\ p <= gs => PatternBit(p) = p
      /\ p > gs /\ p < ge => PatternBit(p) = gs
      /\ p > gs /\ p >= ge => PatternBit(p) = p - (ge - gs)
  BY <1>1, <1>2
<1> QED  BY <1>3 DEF gs, ge

\* What the gap cut to this word says of the positions of the word.
LEMMA CurrentGapIs ==
  ASSUME TypeInv, GapIsPresent, NEW lane \in 0 .. WORD
  PROVE  /\ lane < WORD =>
              (CurrentGap.from <= lane /\ lane < CurrentGap.to
                 <=> active.gap_start <= phase_pos + lane /\ phase_pos + lane < active.gap_end)
         /\ lane < CurrentGap.from =>
              PatternBit(phase_pos + lane) = PatternBit(phase_pos) + lane
         /\ lane >= CurrentGap.to =>
              PatternBit(phase_pos + lane) = PatternBit(phase_pos) + lane - Width(CurrentGap)
<1> DEFINE gs == active.gap_start
           ge == active.gap_end
           p  == phase_pos + lane
           from == CurrentGap.from
           to   == CurrentGap.to
<1>1. gs \in Nat /\ ge \in Nat /\ gs <= ge /\ phase_pos \in Nat
  BY Lengths DEF TypeInv, ActiveOK, PositionOK
<1>2. from = (IF active.gap_present /\ phase_pos < ge
              THEN IF phase_pos >= gs THEN 0 ELSE Least(WORD, gs - phase_pos)
              ELSE WORD)
  BY DEF CurrentGap
<1>3. to = (IF active.gap_present /\ phase_pos < ge THEN Least(WORD, ge - phase_pos) ELSE WORD)
  BY DEF CurrentGap
<1>4. active.gap_present <=> gs # ge
  BY DEF GapIsPresent
<1>5. p \in Nat
  BY <1>1, Lengths
<1>6. /\ PatternBit(p) \in Nat
      /\ p <= gs => PatternBit(p) = p
      /\ p > gs /\ p < ge => PatternBit(p) = gs
      /\ p > gs /\ p >= ge => PatternBit(p) = p - (ge - gs)
  BY <1>5, PatternBits_Of
<1>7. /\ PatternBit(phase_pos) \in Nat
      /\ phase_pos <= gs => PatternBit(phase_pos) = phase_pos
      /\ phase_pos > gs /\ phase_pos < ge => PatternBit(phase_pos) = gs
      /\ phase_pos > gs /\ phase_pos >= ge => PatternBit(phase_pos) = phase_pos - (ge - gs)
  BY <1>1, PatternBits_Of
<1>8. Width(CurrentGap) = to - from
  BY DEF Width
<1> DEFINE present == active.gap_present /\ phase_pos < ge
           bit  == PatternBit(p)
           base == PatternBit(phase_pos)
           width == Width(CurrentGap)
<1> SUFFICES /\ lane < WORD => (from <= lane /\ lane < to <=> gs <= p /\ p < ge)
             /\ lane < from => bit = base + lane
             /\ lane >= to => bit = base + lane - width
  OBVIOUS
<1>9. p = phase_pos + lane
  OBVIOUS
<1> HIDE DEF gs, ge, p, from, to, bit, base, width
<1>10. CASE ~present
  <2>1. from = WORD /\ to = WORD /\ width = 0
    BY <1>2, <1>3, <1>8, <1>10, Lengths DEF width, from, to
  <2>2. gs = ge \/ phase_pos >= ge
    BY <1>4, <1>10, <1>1
  <2> QED  BY <1>1, <1>5, <1>6, <1>7, <1>9, <2>1, <2>2, Lengths DEF bit, base
<1>11. CASE present
  <2>1. /\ from = IF phase_pos >= gs THEN 0 ELSE Least(WORD, gs - phase_pos)
        /\ to = Least(WORD, ge - phase_pos) /\ width = to - from
        /\ gs # ge /\ phase_pos < ge
    BY <1>2, <1>3, <1>4, <1>8, <1>11 DEF width
  <2> QED  BY <1>1, <1>5, <1>6, <1>7, <1>9, <2>1, Lengths DEF bit, base, Least
<1> QED  BY <1>10, <1>11

\* The same of the positions of the next phase that are in this word.
LEMMA NextGapIs ==
  ASSUME TypeInv, GapIsPresent, NEW lane \in 0 .. WORD
  PROVE  /\ lane < WORD =>
              (NextGap.from <= lane /\ lane < NextGap.to
                 <=> active.gap_start <= lane /\ lane < active.gap_end)
         /\ lane < NextGap.from => PatternBit(lane) = lane
         /\ lane >= NextGap.to => PatternBit(lane) = lane - Width(NextGap)
         /\ PatternBit(lane) = lane - GapBitsBefore(lane, NextGap)
<1> DEFINE gs == active.gap_start
           ge == active.gap_end
           from == NextGap.from
           to   == NextGap.to
           width == Width(NextGap)
           bit  == PatternBit(lane)
<1>1. gs \in Nat /\ ge \in Nat /\ gs <= ge /\ lane \in Nat
  BY Lengths DEF TypeInv, ActiveOK
<1>2. from = (IF active.gap_present /\ gs < WORD THEN gs ELSE WORD)
  BY DEF NextGap
<1>3. to = (IF active.gap_present /\ gs < WORD THEN Least(WORD, ge) ELSE WORD)
  BY DEF NextGap
<1>4. active.gap_present <=> gs # ge
  BY DEF GapIsPresent
<1>5. /\ bit \in Nat
      /\ lane <= gs => bit = lane
      /\ lane > gs /\ lane < ge => bit = gs
      /\ lane > gs /\ lane >= ge => bit = lane - (ge - gs)
  BY <1>1, PatternBits_Of
<1>6. width = to - from
  BY DEF Width
<1>7. GapBitsBefore(lane, NextGap)
        = IF lane <= from THEN 0 ELSE IF lane >= to THEN width ELSE lane - from
  BY DEF GapBitsBefore
<1> SUFFICES /\ lane < WORD => (from <= lane /\ lane < to <=> gs <= lane /\ lane < ge)
             /\ lane < from => bit = lane
             /\ lane >= to => bit = lane - width
             /\ bit = lane - GapBitsBefore(lane, NextGap)
  OBVIOUS
<1> HIDE DEF gs, ge, from, to, bit, width
<1>8. CASE active.gap_present /\ gs < WORD
  <2>1. from = gs /\ to = Least(WORD, ge) /\ gs # ge
    BY <1>2, <1>3, <1>4, <1>8
  <2> QED  BY <1>1, <1>5, <1>6, <1>7, <1>8, <2>1, Lengths DEF Least
<1>9. CASE ~(active.gap_present /\ gs < WORD)
  <2>1. from = WORD /\ to = WORD
    BY <1>2, <1>3, <1>9
  <2>2. gs = ge \/ gs >= WORD
    BY <1>1, <1>4, <1>9, Lengths
  <2> QED  BY <1>1, <1>5, <1>6, <1>7, <2>1, <2>2, Lengths
<1> QED  BY <1>8, <1>9

-----------------------------------------------------------------------------
(* What the rotations and the lanes select *)

\* The pattern, from its bit x on.
From(pattern, x) == \A i \in Bits : pattern[i] = (x + i) % active.len

LEMMA LengthType == ASSUME TypeInv
                    PROVE  active.len \in {SHORT_LEN, LONG_LEN} /\ active.len \in Nat \ {0}
BY Lengths DEF TypeInv, ActiveOK

LEMMA RotateFrom ==
  ASSUME TypeInv, NEW s, NEW x \in Nat, From(s, x), NEW count \in 0 .. WORD
  PROVE  From(Rotate(s, count, active.len), x + count)
<1> SUFFICES ASSUME NEW i \in Bits
             PROVE  Rotate(s, count, active.len)[i] = (x + count + i) % active.len
  BY DEF From
<1>1. i \in Nat /\ i \in 0 .. LONG_LEN - 1 /\ count \in Nat /\ LONG_LEN = 2 * WORD - 1 /\ SHORT_LEN = WORD - 1
  BY Lengths DEF Bits
<1>2. CASE active.len = SHORT_LEN
  <2> DEFINE j == i % SHORT_LEN
  <2>1. Rotate(s, count, active.len)[i] = s[count + j]
    BY <1>2 DEF Rotate
  <2>2. SHORT_LEN \in Nat \ {0} /\ j \in 0 .. SHORT_LEN - 1
    BY <1>1, Lengths, RemainderRange
  <2>3. count + j \in Bits
    <3> HIDE DEF j
    <3>1. count + j \in 0 .. LONG_LEN - 1
      BY <1>1, <2>2, Lengths
    <3> QED  BY <3>1 DEF Bits
  <2>4. s[count + j] = (x + (count + j)) % SHORT_LEN
    BY <1>2, <2>3 DEF From
  <2>5. x + (count + j) = (x + count) + j /\ x + count \in Nat
    BY <1>1, <2>2
  <2>6. ((x + count) + j) % SHORT_LEN = ((x + count) + i) % SHORT_LEN
    BY <1>1, <2>2, <2>5, RemainderOfSum, Zenon
  <2> QED  BY <1>2, <2>1, <2>4, <2>5, <2>6
<1>3. CASE active.len = LONG_LEN /\ active.len # SHORT_LEN
  <2> DEFINE j == (count + i) % LONG_LEN
  <2>1. Rotate(s, count, active.len)[i] = s[j]
    BY <1>3 DEF Rotate
  <2>2. LONG_LEN \in Nat \ {0} /\ count + i \in Nat /\ j \in 0 .. LONG_LEN - 1
    BY <1>1, Lengths, RemainderRange
  <2>3. s[j] = (x + j) % LONG_LEN
    BY <1>3, <2>2 DEF From, Bits
  <2>4. (x + j) % LONG_LEN = (x + (count + i)) % LONG_LEN
    BY <2>2, RemainderOfSum, Zenon
  <2>5. x + (count + i) = x + count + i
    BY <1>1
  <2> QED  BY <1>3, <2>1, <2>3, <2>4, <2>5
<1> QED  BY <1>2, <1>3, LengthType

LEMMA SelectFrom ==
  ASSUME TypeInv, NEW s, NEW x \in Nat, From(s, x), NEW pos \in 0 .. WORD - 1,
         NEW gap, GapInWord(gap)
  PROVE  /\ gap.from <= pos /\ pos < gap.to => Select(s, pos, gap) = NoBit
         /\ pos < gap.from => Select(s, pos, gap) = (x + pos) % active.len
         /\ pos >= gap.to => Select(s, pos, gap) = (x + (pos - Width(gap))) % active.len
<1>1. gap.from \in 0 .. WORD /\ gap.to \in 0 .. WORD /\ gap.from <= gap.to
  BY DEF GapInWord
<1>2. CASE gap.from <= pos /\ pos < gap.to
  <2>1. ~(pos < gap.from) /\ ~(pos >= gap.to)
    BY <1>1, <1>2, Lengths
  <2> QED  BY <1>2, <2>1 DEF Select
<1>3. CASE pos < gap.from
  <2>1. pos \in Bits /\ pos < gap.to
    BY <1>1, <1>3, Lengths DEF Bits
  <2>2. ~(gap.from <= pos) /\ ~(pos >= gap.to)
    BY <1>1, <1>3, <2>1, Lengths
  <2> QED  BY <1>3, <2>1, <2>2 DEF Select, From
<1>4. CASE pos >= gap.to
  <2>1. pos - Width(gap) \in 0 .. LONG_LEN - 1
    BY <1>1, <1>4, Lengths DEF Width
  <2>2. ~(pos < gap.from) /\ ~(pos < gap.to)
    BY <1>1, <1>4, Lengths
  <2>3. Select(s, pos, gap) = s[pos - Width(gap)]
    BY <2>2 DEF Select
  <2> QED  BY <2>1, <2>2, <2>3 DEF From, Bits
<1> QED  BY <1>1, <1>2, <1>3, <1>4, Lengths

-----------------------------------------------------------------------------
(* The invariant *)

\* A running engine stands at a position of a configuration's stream: its two
\* patterns are those of the phase and of the next bit to send.
StreamInv ==
  running =>
    /\ \E c \in Configs : active = Captured(c)
    /\ active.shift \/ phase_offset = 0
    /\ phase_start_pending <=> phase_pos = 0
    /\ From(phase_pattern, phase_offset)
    /\ From(pattern_cursor, phase_offset + PatternBit(phase_pos))

Invariant == TypeInv /\ PositionInv /\ StreamInv

LEMMA SendableLoops == ASSUME Sendable PROVE LoopsFillAWord
BY DEF Sendable, Streamable, LoopsFillAWord

\* A configuration as the registers captured from it have it.
LEMMA CapturedConfig ==
  ASSUME Sendable, NEW c \in Configs, NEW a, a = Captured(c)
  PROVE  [ len |-> a.len, repeat |-> (a.phase_total - (a.gap_end - a.gap_start)) \div a.len,
           insert |-> a.gap_start \div a.len, gap |-> a.gap_end - a.gap_start,
           shift |-> a.shift, loop |-> a.loop ] = c
<1>1. /\ c = [ len |-> c.len, repeat |-> c.repeat, insert |-> c.insert, gap |-> c.gap,
               shift |-> c.shift, loop |-> c.loop ]
      /\ c.len \in Nat /\ c.repeat \in Nat /\ c.insert \in Nat /\ c.gap \in Nat
  BY DEF Sendable
<1>2. c.len \in Nat \ {0}
  <2>1. c.len \in {SHORT_LEN, LONG_LEN}
    BY EngineAssumption
  <2> QED  BY <2>1, Lengths
<1> DEFINE bits == c.repeat * c.len
           gap  == c.insert * c.len
<1>3. bits \in Nat /\ gap \in Nat
  BY <1>1
<1>4. /\ a.len = c.len /\ a.shift = c.shift /\ a.loop = c.loop
      /\ a.phase_total = bits + c.gap /\ a.gap_start = gap
      /\ a.gap_end = gap + c.gap
  BY DEF Captured
<1>5. bits \div c.len = c.repeat /\ gap \div c.len = c.insert
  <2>1. 0 \in 0 .. c.len - 1 /\ c.repeat * c.len + 0 = bits /\ c.insert * c.len + 0 = gap
    BY <1>1, <1>2
  <2>2. /\ (c.repeat * c.len + 0) \div c.len = c.repeat
        /\ (c.insert * c.len + 0) \div c.len = c.insert
    BY <1>1, <1>2, <2>1, DivisionIsUnique, Zenon
  <2> HIDE DEF bits, gap
  <2> QED  BY <2>1, <2>2
<1> HIDE DEF bits, gap
<1>6. a.gap_end - a.gap_start = c.gap /\ a.phase_total - (a.gap_end - a.gap_start) = bits
  BY <1>1, <1>3, <1>4
<1>7. /\ (a.phase_total - (a.gap_end - a.gap_start)) \div a.len = c.repeat
      /\ a.gap_start \div a.len = c.insert
  BY <1>4, <1>5, <1>6, Zenon
<1> QED  BY <1>1, <1>4, <1>6, <1>7, Zenon

LEMMA CapturedIs ==
  ASSUME Sendable, NEW c \in Configs, active = Captured(c)
  PROVE  /\ ActiveConfig = c /\ c # NoConf
         /\ c.len = active.len /\ c.shift = active.shift /\ c.loop = active.loop
         /\ c.shift \in BOOLEAN /\ c.loop \in BOOLEAN /\ c.len \in Nat \ {0}
         /\ c.gap \in Nat /\ active.gap_end = active.gap_start + c.gap
         /\ c.insert * c.len = active.gap_start /\ active.gap_start \in Nat
         /\ Stream!Total(c) = active.phase_total
         /\ GapIsPresent
<1>1. /\ c.len \in Nat /\ c.repeat \in Nat /\ c.insert \in Nat /\ c.gap \in Nat
      /\ c.shift \in BOOLEAN /\ c.loop \in BOOLEAN
  BY DEF Sendable
<1>2. c.len \in Nat \ {0}
  <2>1. c.len \in {SHORT_LEN, LONG_LEN}
    BY EngineAssumption
  <2> QED  BY <2>1, Lengths
<1> DEFINE bits == c.repeat * c.len
           gap  == c.insert * c.len
<1>3. gap \in Nat
  BY <1>1
<1>4. /\ active.len = c.len /\ active.shift = c.shift /\ active.loop = c.loop
      /\ active.phase_total = bits + c.gap /\ active.gap_start = gap
      /\ active.gap_end = gap + c.gap /\ (active.gap_present <=> c.gap # 0)
  BY DEF Captured
<1>5. Stream!Total(c) = active.phase_total
  BY <1>4 DEF Stream!Total
<1>6. ActiveConfig = c
  BY CapturedConfig DEF ActiveConfig, GapLength
<1>7. c # NoConf
  <2>1. NoConf.len = 0
    BY DEF NoConf
  <2> QED  BY <1>2, <2>1
<1> HIDE DEF bits, gap
<1>8. GapIsPresent
  BY <1>1, <1>3, <1>4 DEF GapIsPresent
<1> QED  BY <1>1, <1>2, <1>3, <1>4, <1>5, <1>6, <1>7, <1>8 DEF gap

\* Where a running engine stands in the stream of its configuration.
Standing(c) ==
  /\ Sendable /\ Invariant /\ running
  /\ c \in Configs /\ active = Captured(c)

LEMMA Place ==
  ASSUME NEW c, Standing(c)
  PROVE  /\ active.phase_total \in Nat \ {0} /\ phase_pos \in 0 .. active.phase_total - 1
         /\ WORD - 1 <= active.phase_total
         /\ Stream!Phases(c) \in Nat \ {0}
         /\ phase_offset \in 0 .. Stream!Phases(c) - 1
         /\ Stream!Round(c) = Stream!Phases(c) * active.phase_total
         /\ last_phase <=> phase_offset = Stream!Phases(c) - 1
         /\ active.loop => Stream!Phases(c) = active.len
<1>1. /\ c.len = active.len /\ c.shift = active.shift /\ c.loop = active.loop
      /\ c.shift \in BOOLEAN /\ c.loop \in BOOLEAN
      /\ c.len \in Nat \ {0} /\ Stream!Total(c) = active.phase_total
  BY CapturedIs DEF Standing
<1> DEFINE total == active.phase_total
<1>2. total \in WORD - 1 .. POS_MOD - WORD - 1 /\ phase_pos \in 0 .. total - 1
  BY DEF Standing, Invariant, PositionInv
<1>3. Stream!Round(c) = Stream!Phases(c) * total
  BY <1>1 DEF Stream!Round
<1> HIDE DEF total
<1>4. total \in Nat \ {0} /\ WORD - 1 <= total
  BY <1>2, Lengths
<1>5. c.loop => c.shift
  BY DEF Standing, Sendable, Streamable
<1>6. phase_offset \in 0 .. active.len - 1 /\ (active.shift \/ phase_offset = 0)
  BY DEF Standing, Invariant, TypeInv, PositionOK, StreamInv
<1>7. CASE c.shift
  <2>1. Stream!Phases(c) = c.len
    BY <1>7 DEF Stream!Phases
  <2> QED  BY <1>1, <1>2, <1>3, <1>4, <1>6, <1>7, <2>1 DEF last_phase, total
<1>8. CASE ~c.shift
  <2>1. Stream!Phases(c) = 1 /\ phase_offset = 0
    BY <1>1, <1>6, <1>8 DEF Stream!Phases
  <2> QED  BY <1>1, <1>2, <1>3, <1>4, <1>5, <1>8, <2>1 DEF last_phase, total
<1> QED  BY <1>7, <1>8

\* Bit r of phase k of the stream.
LEMMA SymbolIs ==
  ASSUME NEW c, Standing(c), NEW k \in Nat, NEW r \in 0 .. active.phase_total - 1
  PROVE  /\ Stream!Exists(c, k * active.phase_total + r) <=> active.loop \/ k < Stream!Phases(c)
         /\ (k * active.phase_total + r) % active.phase_total = r
         /\ Stream!Symbol(c, k * active.phase_total + r)
              = IF ~(active.loop \/ k < Stream!Phases(c))
                   \/ (active.gap_start <= r /\ r < active.gap_end)
                THEN NoBit
                ELSE ((k % Stream!Phases(c)) + PatternBit(r)) % active.len
<1> DEFINE T == active.phase_total
           P == Stream!Phases(c)
           n == k * T + r
           phase == k % P
<1>1. T \in Nat \ {0} /\ P \in Nat \ {0} /\ Stream!Round(c) = P * T
  BY Place
<1>2. /\ c.len = active.len /\ c.loop = active.loop /\ c.gap \in Nat
      /\ active.gap_end = active.gap_start + c.gap /\ active.gap_start \in Nat
      /\ c.insert * c.len = active.gap_start /\ Stream!Total(c) = T
  BY CapturedIs DEF Standing
<1>3. n \div T = k /\ n % T = r
  BY <1>1, DivisionIsUnique
<1>4. Stream!Exists(c, n) <=> active.loop \/ k < P
  <2>1. Stream!Exists(c, n) <=> active.loop \/ n < P * T
    BY <1>1, <1>2 DEF Stream!Exists
  <2> HIDE DEF T, P
  <2>2. CASE k < P
    <3>1. k * T + T <= P * T /\ k * T \in Nat /\ P * T \in Nat
      BY <1>1, <2>2, ItemsFit
    <3>2. n < P * T
      BY <1>1, <3>1 DEF T
    <3> QED  BY <2>1, <2>2, <3>2
  <2>3. CASE ~(k < P)
    <3>1. P < k \/ P = k
      BY <1>1, <2>3
    <3>2. P * T <= k * T /\ k * T \in Nat /\ P * T \in Nat
      <4>1. CASE P < k
        BY <1>1, <4>1, ItemsFit
      <4>2. CASE P = k
        BY <1>1, <4>2
      <4> QED  BY <3>1, <4>1, <4>2
    <3>3. ~(n < P * T)
      BY <3>2, <1>1 DEF T
    <3> QED  BY <2>1, <2>3, <3>3
  <2> QED  BY <2>2, <2>3
<1>5. phase \in 0 .. P - 1
  <2>1. P > 0 /\ k \in Int
    BY <1>1
  <2> QED  BY <1>1, <2>1, RemainderRange, Zenon
<1>6. Stream!Symbol(c, n)
        = IF ~Stream!Exists(c, n) \/ (active.gap_start <= r /\ r < active.gap_start + c.gap)
          THEN NoBit
          ELSE IF r < active.gap_start THEN (phase + r) % active.len
          ELSE (phase + r - c.gap) % active.len
  BY <1>2, <1>3 DEF Stream!Symbol
<1>7. /\ PatternBit(r) \in Nat
      /\ r <= active.gap_start => PatternBit(r) = r
      /\ r > active.gap_start /\ r >= active.gap_end =>
           PatternBit(r) = r - (active.gap_end - active.gap_start)
  BY PatternBits_Of DEF Standing, Invariant
<1> DEFINE gs == active.gap_start
           bit == PatternBit(r)
           gone == ~Stream!Exists(c, n)
<1>8. /\ r \in Nat /\ gs \in Nat /\ c.gap \in Nat /\ active.gap_end = gs + c.gap
      /\ phase \in Nat /\ bit \in Nat
      /\ r <= gs => bit = r
      /\ r > gs /\ r >= gs + c.gap => bit = r - c.gap
  BY <1>1, <1>2, <1>5, <1>7
<1>9. gone <=> ~(active.loop \/ k < P)
  BY <1>4
<1> DEFINE symbol == Stream!Symbol(c, n)
<1>10. symbol = IF gone \/ (gs <= r /\ r < gs + c.gap) THEN NoBit
                ELSE IF r < gs THEN (phase + r) % active.len
                ELSE (phase + r - c.gap) % active.len
  BY <1>6
<1> HIDE DEF n, phase, P, T, gs, bit, gone, symbol
<1>11. symbol = IF gone \/ (gs <= r /\ r < gs + c.gap) THEN NoBit
                ELSE (phase + bit) % active.len
  <2>1. CASE r < gs
    BY <1>8, <1>10, <2>1
  <2>2. CASE gs <= r /\ r < gs + c.gap
    BY <1>10, <2>2
  <2>3. CASE r >= gs + c.gap
    <3>1. phase + r - c.gap = phase + bit /\ ~(r < gs)
      BY <1>8, <2>3
    <3> QED  BY <1>10, <3>1
  <2> QED  BY <1>8, <2>1, <2>2, <2>3
<1>12. symbol = IF ~(active.loop \/ k < P) \/ (gs <= r /\ r < active.gap_end) THEN NoBit
                ELSE (phase + bit) % active.len
  BY <1>8, <1>9, <1>11
<1> QED  BY <1>3, <1>4, <1>12 DEF n, phase, P, T, gs, bit, symbol

\* The pattern of the next phase, which in a loop is that of offset 0 again.
LEMMA NextPatternFrom ==
  ASSUME NEW c, Standing(c), has_next_phase
  PROVE  /\ From(next_pattern, next_offset)
         /\ next_offset \in 0 .. active.len - 1 /\ active.shift
         /\ (phase_offset + 1) % Stream!Phases(c) = next_offset
         /\ active.loop \/ phase_offset + 1 < Stream!Phases(c)
         /\ ~last_phase => next_offset = phase_offset + 1
         /\ last_phase => next_offset = 0 /\ active.loop
<1> DEFINE P == Stream!Phases(c)
           len == active.len
           k == phase_offset
<1>1. /\ P \in Nat \ {0} /\ k \in 0 .. P - 1
      /\ last_phase <=> k = P - 1
      /\ active.loop => P = len
  BY Place
<1>2. TypeInv /\ len \in Nat \ {0} /\ k \in 0 .. len - 1
  BY LengthType DEF Standing, Invariant, TypeInv, PositionOK
<1>3. From(next_pattern, k + 1)
  <2>1. From(phase_pattern, k) /\ k \in Nat /\ 1 \in 0 .. WORD
    BY <1>2, Lengths DEF Standing, Invariant, StreamInv
  <2> QED  BY <1>2, <2>1, RotateFrom DEF next_pattern
<1>4. active.shift
  BY CapturedIs DEF Standing, Sendable, Streamable, has_next_phase, last_phase
<1>5. next_offset = IF last_phase THEN 0 ELSE k + 1
  BY DEF next_offset
<1>6. CASE ~last_phase
  <2>1. P = len
    BY <1>4, CapturedIs DEF Standing, Stream!Phases
  <2> HIDE DEF P, len, k
  <2>2. k + 1 < P /\ k + 1 \in Nat
    BY <1>1, <1>6
  <2>3. (k + 1) % P = k + 1
    BY <1>1, <2>2, SmallRemainder
  <2>4. k + 1 \in 0 .. len - 1
    BY <1>1, <2>1, <2>2
  <2> QED  BY <1>3, <1>4, <1>5, <1>6, <2>2, <2>3, <2>4 DEF P, len, k
<1>7. CASE last_phase
  <2>1. active.loop
    BY <1>7 DEF has_next_phase
  <2>2. k + 1 = len /\ P = len
    BY <1>1, <1>2, <1>7, <2>1
  <2>3. (k + 1) % P = 0
    BY <1>2, <2>2
  <2>4. From(next_pattern, 0)
    <3> SUFFICES ASSUME NEW i \in Bits PROVE next_pattern[i] = (0 + i) % len
      BY DEF From
    <3>1. i \in Nat
      BY Lengths DEF Bits
    <3>2. next_pattern[i] = (len + i) % len
      BY <1>3, <2>2 DEF From
    <3>3. (len + i) % len = i % len
      BY <1>2, <3>1, RemainderOfShift, Zenon
    <3>4. 0 + i = i
      BY <3>1
    <3> QED  BY <3>2, <3>3, <3>4
  <2>5. 0 \in 0 .. len - 1
    BY <1>2
  <2> QED  BY <1>4, <1>5, <1>7, <2>1, <2>3, <2>4, <2>5
<1> QED  BY <1>6, <1>7

\* The lanes of this phase.
LEMMA CurrentLanes ==
  ASSUME NEW c, Standing(c), NEW lane \in Lanes, lane < remaining_rel
  PROVE  /\ Select(pattern_cursor, lane, CurrentGap)
              = Stream!Symbol(c, phase_offset * active.phase_total + phase_pos + lane)
         /\ Stream!Exists(c, phase_offset * active.phase_total + phase_pos + lane)
         /\ (phase_offset * active.phase_total + phase_pos + lane) % active.phase_total
              = phase_pos + lane
<1> DEFINE T == active.phase_total
           k == phase_offset
           r == phase_pos + lane
           n == k * T + r
<1>1. TypeInv /\ PositionInv /\ running /\ StreamInv /\ GapIsPresent
  BY CapturedIs DEF Standing, Invariant
<1>2. /\ T \in Nat \ {0} /\ phase_pos \in 0 .. T - 1
      /\ Stream!Phases(c) \in Nat \ {0} /\ k \in 0 .. Stream!Phases(c) - 1
  BY Place
<1>3. lane \in 0 .. WORD - 1 /\ lane \in 0 .. WORD /\ lane < WORD /\ lane \in Nat
  BY Lengths DEF Lanes
<1>4. r \in 0 .. T - 1
  <2>1. phase_remaining = T - phase_pos
    BY <1>1, Remaining
  <2> HIDE DEF T
  <2>2. lane < T - phase_pos
    BY <1>2, <1>3, <2>1, Lengths DEF remaining_rel, Least
  <2> QED  BY <1>2, <1>3, <2>2
<1>5. k \in Nat /\ k % Stream!Phases(c) = k /\ k < Stream!Phases(c)
  BY <1>2, SmallRemainder
<1>6. /\ Stream!Exists(c, n) /\ n % T = r
      /\ Stream!Symbol(c, n) = IF active.gap_start <= r /\ r < active.gap_end
                               THEN NoBit ELSE (k + PatternBit(r)) % active.len
  <2>1. /\ Stream!Exists(c, n) <=> active.loop \/ k < Stream!Phases(c)
        /\ n % T = r
        /\ Stream!Symbol(c, n)
             = IF ~(active.loop \/ k < Stream!Phases(c))
                  \/ (active.gap_start <= r /\ r < active.gap_end)
               THEN NoBit
               ELSE ((k % Stream!Phases(c)) + PatternBit(r)) % active.len
    BY <1>4, <1>5, SymbolIs
  <2> QED  BY <1>5, <2>1
<1>7. n = phase_offset * T + phase_pos + lane
  <2> DEFINE base == k * T
  <2>1. base \in Nat
    BY <1>2, <1>5
  <2> HIDE DEF base, T
  <2>2. base + r = base + phase_pos + lane
    BY <1>2, <1>3, <2>1
  <2> QED  BY <2>2 DEF base
<1> DEFINE pb == PatternBit(phase_pos)
           from == CurrentGap.from
           to == CurrentGap.to
           width == Width(CurrentGap)
<1>8. pb \in Nat /\ k + pb \in Nat
  BY <1>1, <1>2, <1>5, PatternBits_Of
<1>9. From(pattern_cursor, k + pb)
  BY <1>1 DEF StreamInv
<1>10. GapInWord(CurrentGap)
  BY <1>1, CurrentGapInWord
<1>11. /\ from <= lane /\ lane < to => Select(pattern_cursor, lane, CurrentGap) = NoBit
       /\ lane < from => Select(pattern_cursor, lane, CurrentGap) = (k + pb + lane) % active.len
       /\ lane >= to => Select(pattern_cursor, lane, CurrentGap)
                          = (k + pb + (lane - width)) % active.len
  BY <1>1, <1>3, <1>8, <1>9, <1>10, SelectFrom
<1>12. /\ from <= lane /\ lane < to <=> active.gap_start <= r /\ r < active.gap_end
       /\ lane < from => PatternBit(r) = pb + lane
       /\ lane >= to => PatternBit(r) = pb + lane - width
  BY <1>1, <1>3, CurrentGapIs
<1>13. from \in Int /\ to \in Int /\ width \in Int
  BY <1>10, Lengths DEF GapInWord, Width
<1> DEFINE selected == Select(pattern_cursor, lane, CurrentGap)
           bit == PatternBit(r)
<1>14. selected = Stream!Symbol(c, n)
  <2> HIDE DEF n, r, pb, from, to, width, selected, bit, k
  <2>1. CASE from <= lane /\ lane < to
    BY <1>6, <1>11, <1>12, <2>1 DEF selected
  <2>2. CASE lane < from
    <3>1. bit = pb + lane /\ k + bit = k + pb + lane
      BY <1>3, <1>5, <1>8, <1>12, <2>2 DEF bit
    <3>2. ~(from <= lane)
      BY <1>3, <1>13, <2>2
    <3> QED  BY <1>6, <1>11, <1>12, <2>2, <3>1, <3>2 DEF selected, bit
  <2>3. CASE lane >= to
    <3>1. bit = pb + lane - width
      BY <1>12, <2>3 DEF bit
    <3>2. k + bit = k + pb + (lane - width) /\ ~(lane < to)
      BY <1>3, <1>5, <1>8, <1>13, <2>3, <3>1
    <3> QED  BY <1>6, <1>11, <1>12, <2>3, <3>2 DEF selected, bit
  <2> QED  BY <1>3, <1>13, <2>1, <2>2, <2>3
<1>15. Stream!Symbol(c, n) = Stream!Symbol(c, phase_offset * T + phase_pos + lane)
  BY <1>7, Zenon
<1> QED  BY <1>6, <1>7, <1>14, <1>15, Zenon

\* The lanes of the next phase, if there is one.
LEMMA NextLanes ==
  ASSUME NEW c, Standing(c), NEW lane \in Lanes, ~(lane < remaining_rel)
  PROVE  /\ has_next_phase => Select(next_pattern, lane - remaining_rel, NextGap)
              = Stream!Symbol(c, phase_offset * active.phase_total + phase_pos + lane)
         /\ ~has_next_phase =>
              Stream!Symbol(c, phase_offset * active.phase_total + phase_pos + lane) = NoBit
         /\ Stream!Exists(c, phase_offset * active.phase_total + phase_pos + lane)
              <=> has_next_phase
         /\ (phase_offset * active.phase_total + phase_pos + lane) % active.phase_total
              = lane - remaining_rel
         /\ phase_remaining = remaining_rel /\ phase_remaining < WORD
<1> DEFINE T == active.phase_total
           P == Stream!Phases(c)
           k == phase_offset + 1
           r == lane - remaining_rel
           n == k * T + r
<1>1. TypeInv /\ PositionInv /\ running /\ StreamInv /\ GapIsPresent
  BY CapturedIs DEF Standing, Invariant
<1>2. /\ T \in Nat \ {0} /\ phase_pos \in 0 .. T - 1 /\ WORD - 1 <= T
      /\ P \in Nat \ {0} /\ phase_offset \in 0 .. P - 1
      /\ last_phase <=> phase_offset = P - 1
  BY Place
<1>3. lane \in 0 .. WORD - 1 /\ lane \in 0 .. WORD /\ lane < WORD /\ lane \in Nat
  BY Lengths DEF Lanes
<1>4. /\ phase_remaining = T - phase_pos /\ remaining_rel = T - phase_pos
      /\ r \in 0 .. T - 1 /\ r \in 0 .. WORD - 1 /\ phase_remaining < WORD
  <2>1. phase_remaining = T - phase_pos
    BY <1>1, Remaining
  <2>2. remaining_rel = IF WORD <= phase_remaining THEN WORD ELSE phase_remaining
    BY DEF remaining_rel, Least
  <2> HIDE DEF T, r
  <2>3. remaining_rel = T - phase_pos /\ phase_remaining < WORD
    BY <1>2, <1>3, <2>1, <2>2, Lengths
  <2>4. lane - remaining_rel \in 0 .. T - 1 /\ lane - remaining_rel \in 0 .. WORD - 1
    BY <1>2, <1>3, <2>3, Lengths
  <2> QED  BY <2>1, <2>3, <2>4 DEF r
<1>5. k \in Nat
  BY <1>2
<1>6. has_next_phase <=> active.loop \/ k < P
  BY <1>2 DEF has_next_phase
<1>7. /\ Stream!Exists(c, n) <=> has_next_phase
      /\ n % T = r
      /\ Stream!Symbol(c, n)
             = IF ~has_next_phase \/ (active.gap_start <= r /\ r < active.gap_end)
               THEN NoBit
               ELSE ((k % P) + PatternBit(r)) % active.len
  <2>1. /\ Stream!Exists(c, n) <=> active.loop \/ k < P
        /\ n % T = r
        /\ Stream!Symbol(c, n)
             = IF ~(active.loop \/ k < P)
                  \/ (active.gap_start <= r /\ r < active.gap_end)
               THEN NoBit
               ELSE ((k % P) + PatternBit(r)) % active.len
    BY <1>4, <1>5, SymbolIs
  <2> QED  BY <1>6, <2>1
<1>8. n = phase_offset * T + phase_pos + lane
  <2> DEFINE base == phase_offset * T
  <2>1. base \in Nat /\ k * T = base + T
    BY <1>2
  <2> HIDE DEF base, T
  <2>2. base + T + r = base + phase_pos + lane
    BY <1>2, <1>3, <1>4, <2>1
  <2> QED  BY <2>1, <2>2 DEF base
<1> DEFINE from == NextGap.from
           to == NextGap.to
           width == Width(NextGap)
           selected == Select(next_pattern, r, NextGap)
           bit == PatternBit(r)
<1>9. GapInWord(NextGap)
  BY <1>1, NextGapInWord
<1>10. from \in Int /\ to \in Int /\ width \in Int
  BY <1>9, Lengths DEF GapInWord, Width
<1>11. ASSUME has_next_phase PROVE selected = Stream!Symbol(c, n)
  <2>1. From(next_pattern, next_offset) /\ next_offset \in Nat /\ k % P = next_offset
    BY <1>11, NextPatternFrom
  <2>2. /\ from <= r /\ r < to => selected = NoBit
        /\ r < from => selected = (next_offset + r) % active.len
        /\ r >= to => selected = (next_offset + (r - width)) % active.len
    BY <1>1, <1>4, <1>9, <2>1, SelectFrom
  <2>3. r \in 0 .. WORD /\ r < WORD /\ r \in Nat
    BY <1>4, Lengths
  <2>4. /\ from <= r /\ r < to <=> active.gap_start <= r /\ r < active.gap_end
        /\ r < from => bit = r
        /\ r >= to => bit = r - width
    BY <1>1, <2>3, NextGapIs
  <2> HIDE DEF n, r, from, to, width, selected, bit, k, P
  <2>5. Stream!Symbol(c, n) = IF active.gap_start <= r /\ r < active.gap_end
                              THEN NoBit ELSE (next_offset + bit) % active.len
    BY <1>7, <1>11, <2>1 DEF bit
  <2>6. CASE from <= r /\ r < to
    BY <2>2, <2>4, <2>5, <2>6
  <2>7. CASE r < from
    <3>1. ~(from <= r)
      BY <1>10, <2>3, <2>7
    <3> QED  BY <2>2, <2>4, <2>5, <2>7, <3>1
  <2>8. CASE r >= to
    <3>1. ~(r < to)
      BY <1>10, <2>3, <2>8
    <3> QED  BY <2>2, <2>4, <2>5, <2>8, <3>1
  <2> QED  BY <1>10, <2>3, <2>6, <2>7, <2>8
<1>12. Stream!Symbol(c, n) = Stream!Symbol(c, phase_offset * T + phase_pos + lane)
  BY <1>8, Zenon
<1>13. Stream!Exists(c, n) <=> Stream!Exists(c, phase_offset * T + phase_pos + lane)
  BY <1>8, Zenon
<1>14. (phase_offset * T + phase_pos + lane) % T = r
  BY <1>7, <1>8, Zenon
<1> QED  BY <1>4, <1>7, <1>11, <1>12, <1>13, <1>14

LEMMA WordIsNext ==
  ASSUME NEW c, Standing(c)
  PROVE  txdata_calc
           = [lane \in Lanes |->
                Stream!Symbol(c, phase_offset * active.phase_total + phase_pos + lane)]
<1> SUFFICES ASSUME NEW lane \in Lanes
             PROVE  (IF lane < remaining_rel
                     THEN Select(pattern_cursor, lane, CurrentGap)
                     ELSE IF has_next_phase
                     THEN Select(next_pattern, lane - remaining_rel, NextGap)
                     ELSE NoBit)
                    = Stream!Symbol(c, phase_offset * active.phase_total + phase_pos + lane)
  BY DEF txdata_calc
<1>1. CASE lane < remaining_rel
  BY <1>1, CurrentLanes
<1>2. CASE ~(lane < remaining_rel)
  BY <1>2, NextLanes
<1> QED  BY <1>1, <1>2

\* A phase begins in the word.
LEMMA TriggerIsBoundary ==
  ASSUME NEW c, Standing(c)
  PROVE  (phase_start_pending \/ (phase_remaining < WORD /\ has_next_phase))
           <=> \E lane \in Lanes :
                 /\ Stream!Exists(c, phase_offset * active.phase_total + phase_pos + lane)
                 /\ (phase_offset * active.phase_total + phase_pos + lane) % active.phase_total = 0
<1> DEFINE n == phase_offset * active.phase_total + phase_pos
           T == active.phase_total
           boundary(lane) == Stream!Exists(c, n + lane) /\ (n + lane) % T = 0
<1>1. /\ phase_remaining = T - phase_pos /\ phase_remaining \in 1 .. POS_MOD - WORD - 1
      /\ phase_start_pending <=> phase_pos = 0
  BY Remaining DEF Standing, Invariant, StreamInv
<1>2. T \in Nat \ {0} /\ phase_pos \in 0 .. T - 1
  BY Place
<1>3. ASSUME NEW lane \in Lanes, lane < remaining_rel
      PROVE  Stream!Exists(c, n + lane) /\ (n + lane) % T = phase_pos + lane
  BY <1>3, CurrentLanes
<1>4. ASSUME NEW lane \in Lanes, ~(lane < remaining_rel)
      PROVE  /\ Stream!Exists(c, n + lane) <=> has_next_phase
             /\ (n + lane) % T = lane - remaining_rel
             /\ phase_remaining = remaining_rel /\ phase_remaining < WORD
  BY <1>4, NextLanes
<1>5. ASSUME NEW lane \in Lanes, boundary(lane)
      PROVE  phase_start_pending \/ (phase_remaining < WORD /\ has_next_phase)
  <2>1. CASE lane < remaining_rel
    <3>1. phase_pos + lane = 0 /\ lane \in Nat
      BY <1>3, <1>5, <2>1, Lengths DEF Lanes
    <3> QED  BY <1>1, <1>2, <3>1
  <2>2. CASE ~(lane < remaining_rel)
    BY <1>4, <1>5, <2>2
  <2> QED  BY <2>1, <2>2
<1>6. ASSUME phase_start_pending PROVE boundary(0)
  <2>1. 0 \in Lanes /\ 0 < remaining_rel
    BY <1>1, Lengths DEF Lanes, remaining_rel, Least
  <2> QED  BY <1>1, <1>3, <1>6, <2>1
<1>7. ASSUME phase_remaining < WORD, has_next_phase PROVE boundary(phase_remaining)
  <2>1. phase_remaining \in Lanes /\ phase_remaining = remaining_rel
    BY <1>1, <1>7, Lengths DEF Lanes, remaining_rel, Least
  <2>2. ~(phase_remaining < remaining_rel) /\ phase_remaining - remaining_rel = 0
    BY <1>1, <2>1
  <2> QED  BY <1>4, <1>7, <2>1, <2>2
<1>8. 0 \in Lanes /\ (phase_remaining < WORD => phase_remaining \in Lanes)
  BY <1>1, Lengths DEF Lanes
<1> HIDE DEF boundary
<1>9. phase_start_pending \/ (phase_remaining < WORD /\ has_next_phase)
        <=> \E lane \in Lanes : boundary(lane)
  BY <1>5, <1>6, <1>7, <1>8
<1> QED  BY <1>9 DEF boundary

-----------------------------------------------------------------------------
(* The steps *)

\* Where the next word starts, within the phase.
LEMMA AfterStay ==
  ASSUME NEW c, Standing(c), StayInPhase
  PROVE  LET n == phase_offset * active.phase_total + phase_pos
         IN  /\ n + WORD < Stream!Round(c) /\ Stream!Round(c) \in Nat \ {0}
             /\ phase_offset * active.phase_total + phase_pos' = (n + WORD) % Stream!Round(c)
<1> DEFINE T == active.phase_total
           P == Stream!Phases(c)
           k == phase_offset
           base == k * T
           round == P * T
<1>1. /\ T \in Nat \ {0} /\ P \in Nat \ {0} /\ k \in 0 .. P - 1
      /\ phase_pos \in 0 .. T - 1 /\ Stream!Round(c) = P * T
  BY Place
<1>2. phase_pos' = phase_pos + WORD /\ phase_pos' \in 0 .. T - 1
  BY StayPosition DEF Standing, Invariant
<1>3. base + T <= round /\ base \in Nat /\ round \in Nat
  BY <1>1, ItemsFit
<1> HIDE DEF T, P, k, base, round
<1>4. /\ base + phase_pos + WORD \in Nat /\ base + phase_pos + WORD < round
      /\ base + phase_pos' = base + phase_pos + WORD
  BY <1>1, <1>2, <1>3, Lengths
<1>5. (base + phase_pos + WORD) % round = base + phase_pos + WORD
  BY <1>3, <1>4, SmallRemainder
<1>6. round # 0
  BY <1>3, <1>4
<1> QED  BY <1>1, <1>3, <1>4, <1>5, <1>6 DEF base, round, k, T

\* In the next phase, which after the last of a loop is the first of a round.
LEMMA AfterNext ==
  ASSUME NEW c, Standing(c), EnterNextPhase
  PROVE  LET n == phase_offset * active.phase_total + phase_pos
         IN  /\ n + WORD >= Stream!Round(c) <=> RoundEnds
             /\ Stream!Exists(c, n + WORD)
             /\ next_offset * active.phase_total + phase_pos' = (n + WORD) % Stream!Round(c)
<1> DEFINE T == active.phase_total
           P == Stream!Phases(c)
           k == phase_offset
           base == k * T
           next == (k + 1) * T
           round == P * T
<1>1. /\ T \in Nat \ {0} /\ P \in Nat \ {0} /\ k \in 0 .. P - 1
      /\ phase_pos \in 0 .. T - 1 /\ Stream!Round(c) = P * T
      /\ last_phase <=> k = P - 1
  BY Place
<1>2. phase_pos' = phase_pos + WORD - T /\ phase_pos' \in 0 .. T - 1
  BY NextPosition DEF Standing, Invariant
<1>3. base \in Nat /\ next = base + T /\ round \in Nat /\ round >= T
  <2>1. 0 * T + T <= P * T
    BY <1>1, ItemsFit
  <2> QED  BY <1>1, <2>1
<1>4. has_next_phase
  BY DEF EnterNextPhase
<1>5. c.loop = active.loop
  BY CapturedIs DEF Standing
<1>6. RoundEnds <=> last_phase
  BY <1>4, NextPatternFrom DEF RoundEnds
<1>7. base + phase_pos + WORD = next + phase_pos'
  <2> HIDE DEF base, next, T
  <2> QED  BY <1>1, <1>2, <1>3, Lengths
<1>8. Stream!Exists(c, next + phase_pos') <=> active.loop \/ next + phase_pos' < round
  BY <1>1, <1>5 DEF Stream!Exists
<1>9. CASE ~last_phase
  <2>1. next_offset = k + 1
    BY <1>4, <1>9, NextPatternFrom
  <2>2. next + T <= round
    <3>1. k + 1 \in Nat /\ k + 1 < P
      BY <1>1, <1>9
    <3> QED  BY <1>1, <3>1, ItemsFit
  <2> HIDE DEF base, next, round, T, P, k
  <2>3. next + phase_pos' \in Nat /\ next + phase_pos' < round
    BY <1>1, <1>2, <1>3, <2>2
  <2>4. (next + phase_pos') % round = next + phase_pos'
    BY <1>3, <2>3, SmallRemainder
  <2>5. next_offset * T + phase_pos' = next + phase_pos'
    BY <2>1 DEF next
  <2>6. ~(next + phase_pos' >= round)
    BY <1>3, <2>3
  <2> QED  BY <1>1, <1>6, <1>7, <1>8, <1>9, <2>3, <2>4, <2>5, <2>6 DEF base, round, k, T, P
<1>10. CASE last_phase
  <2>1. next_offset = 0 /\ active.loop
    BY <1>4, <1>10, NextPatternFrom
  <2>2. next = round
    BY <1>1, <1>10
  <2>3. next_offset * T + phase_pos' = phase_pos'
    BY <1>1, <1>2, <2>1
  <2> HIDE DEF base, next, round, T, P, k
  <2>4. phase_pos' \in Nat /\ phase_pos' < round /\ round \in Nat \ {0}
    BY <1>1, <1>2, <1>3
  <2>5. (round + phase_pos') % round = phase_pos' % round
    BY <2>4, RemainderOfShift, Zenon
  <2>6. phase_pos' % round = phase_pos'
    BY <2>4, SmallRemainder
  <2>7. next + phase_pos' >= round
    <3>1. \A a \in Nat : \A b \in Nat : a + b >= a
      OBVIOUS
    <3>2. round + phase_pos' >= round
      BY <2>4, <3>1, Zenon
    <3> QED  BY <2>2, <3>2
  <2>8. (next + phase_pos') % round = phase_pos'
    BY <2>2, <2>5, <2>6
  <2> QED  BY <1>1, <1>6, <1>7, <1>8, <1>10, <2>1, <2>3, <2>7, <2>8 DEF base, round, k, T, P
<1> QED  BY <1>9, <1>10

\* Nowhere, when the last phase of a sequence that ends is sent.
LEMMA AfterEnd ==
  ASSUME NEW c, Standing(c), EndSequence
  PROVE  LET n == phase_offset * active.phase_total + phase_pos
         IN  n + WORD >= Stream!Round(c) /\ ~Stream!Exists(c, n + WORD)
<1> DEFINE T == active.phase_total
           P == Stream!Phases(c)
           k == phase_offset
           base == k * T
           round == P * T
<1>1. /\ T \in Nat \ {0} /\ P \in Nat \ {0} /\ k \in 0 .. P - 1
      /\ phase_pos \in 0 .. T - 1 /\ Stream!Round(c) = P * T
      /\ last_phase <=> k = P - 1
  BY Place
<1>2. phase_remaining = T - phase_pos /\ phase_remaining <= WORD
  BY Remaining DEF Standing, Invariant, EndSequence
<1>3. last_phase /\ ~active.loop /\ c.loop = active.loop
  BY CapturedIs DEF Standing, EndSequence, has_next_phase
<1>4. base \in Nat /\ round = base + T
  BY <1>1, <1>3
<1> HIDE DEF base, round, T, P, k
<1>5. base + phase_pos + WORD >= round /\ ~(base + phase_pos + WORD < round)
  BY <1>1, <1>2, <1>4, Lengths
<1>6. ~Stream!Exists(c, base + phase_pos + WORD)
  BY <1>1, <1>3, <1>5 DEF Stream!Exists, round
<1> QED  BY <1>1, <1>5, <1>6 DEF base, round, k, T, P

\* The cursor follows the position, within the phase and into the next one.
LEMMA StayCursor ==
  ASSUME NEW c, Standing(c), StayInPhase
  PROVE  From(pattern_cursor', phase_offset + PatternBit(phase_pos'))
<1> DEFINE count == WORD - Width(CurrentGap)
           x == phase_offset + PatternBit(phase_pos)
<1>1. TypeInv /\ GapIsPresent /\ phase_pos' = phase_pos + WORD
  BY StayPosition, CapturedIs DEF Standing, Invariant
<1>2. phase_pos \in Nat /\ phase_offset \in Nat /\ PatternBit(phase_pos) \in Nat /\ x \in Nat
  <2>1. phase_pos \in Nat /\ phase_offset \in Nat
    BY Place
  <2> QED  BY <1>1, <2>1, PatternBits_Of
<1>3. From(pattern_cursor, x)
  BY DEF Standing, Invariant, StreamInv
<1>4. GapInWord(CurrentGap)
  BY <1>1, CurrentGapInWord
<1>5. count \in 0 .. WORD /\ Width(CurrentGap) \in Int /\ WORD >= CurrentGap.to
  BY <1>4, Lengths DEF GapInWord, Width
<1>6. From(Rotate(pattern_cursor, count, active.len), x + count)
  BY <1>1, <1>2, <1>3, <1>5, RotateFrom
<1>7. WORD \in 0 .. WORD
  BY Lengths
<1>8. PatternBit(phase_pos + WORD) = PatternBit(phase_pos) + WORD - Width(CurrentGap)
  BY <1>1, <1>5, <1>7, CurrentGapIs
<1>9. x + count = phase_offset + PatternBit(phase_pos')
  BY <1>1, <1>2, <1>5, <1>8, Lengths
<1>10. pattern_cursor' = Rotate(pattern_cursor, count, active.len)
  BY DEF StayInPhase
<1> QED  BY <1>6, <1>9, <1>10

LEMMA NextCursor ==
  ASSUME NEW c, Standing(c), EnterNextPhase
  PROVE  From(pattern_cursor', next_offset + PatternBit(phase_pos'))
<1> DEFINE consumed == WORD - remaining_rel
           valid == consumed - GapBitsBefore(consumed, NextGap)
<1>1. TypeInv /\ GapIsPresent /\ remaining_rel = active.phase_total - phase_pos
  BY NextPosition, CapturedIs DEF Standing, Invariant
<1>2. /\ phase_pos' = consumed
      /\ pattern_cursor' = Rotate(next_pattern, valid, active.len)
  BY DEF EnterNextPhase
<1>3. consumed \in 0 .. WORD
  <2>1. active.phase_total \in Nat /\ phase_pos \in 0 .. active.phase_total - 1
    BY Place
  <2>2. phase_remaining = active.phase_total - phase_pos /\ phase_remaining <= WORD
    BY Remaining DEF Standing, Invariant, EnterNextPhase
  <2> QED  BY <1>1, <2>1, <2>2, Lengths
<1>4. valid = PatternBit(consumed)
  BY <1>1, <1>3, NextGapIs
<1>5. PatternBit(consumed) \in 0 .. WORD
  <2>1. PatternBit(consumed) \in Nat /\ PatternBit(consumed) <= consumed
    <3>1. consumed \in Nat
      BY <1>3, Lengths
    <3> QED  BY <1>1, <3>1, PatternBits_Of
  <2> HIDE DEF consumed
  <2> QED  BY <1>3, <2>1, Lengths
<1>6. From(next_pattern, next_offset) /\ next_offset \in Nat
  BY NextPatternFrom DEF EnterNextPhase
<1> HIDE DEF consumed, valid
<1>7. From(Rotate(next_pattern, valid, active.len), next_offset + valid)
  BY <1>1, <1>4, <1>5, <1>6, RotateFrom
<1> QED  BY <1>2, <1>4, <1>7

LEMMA StandingSomewhere ==
  ASSUME Sendable, Invariant, running
  PROVE  \E c \in Configs : Standing(c)
BY DEF Invariant, StreamInv, Standing

LEMMA RunWordStream ==
  ASSUME NEW c, Standing(c), RunWord, running'
  PROVE  StreamInv'
<1>1. active' = active
  BY DEF RunWord
<1>2. \E e \in Configs : active' = Captured(e)
  BY <1>1 DEF Standing
<1> SUFFICES /\ active.shift \/ phase_offset' = 0
             /\ phase_start_pending' <=> phase_pos' = 0
             /\ From(phase_pattern', phase_offset')
             /\ From(pattern_cursor', phase_offset' + PatternBit(phase_pos'))
  BY <1>1, <1>2 DEF StreamInv, From, PatternBit, GapBitsBefore, PhaseGap, Width
<1>3. CASE StayInPhase
  <2>1. phase_offset' = phase_offset /\ phase_pattern' = phase_pattern /\ ~phase_start_pending'
    BY <1>3 DEF StayInPhase
  <2>2. (active.shift \/ phase_offset = 0) /\ From(phase_pattern, phase_offset)
    BY DEF Standing, Invariant, StreamInv
  <2>3. phase_pos' = phase_pos + WORD /\ phase_pos \in Nat
    BY <1>3, StayPosition, Place DEF Standing, Invariant
  <2>4. phase_pos' # 0
    BY <2>3, Lengths
  <2>5. From(pattern_cursor', phase_offset + PatternBit(phase_pos'))
    BY <1>3, StayCursor
  <2> QED  BY <2>1, <2>2, <2>4, <2>5
<1>4. CASE EnterNextPhase
  <2>1. /\ phase_offset' = next_offset /\ phase_pattern' = next_pattern
        /\ phase_start_pending' <=> phase_remaining = WORD
        /\ phase_pos' = WORD - remaining_rel /\ has_next_phase /\ phase_remaining <= WORD
    BY <1>4 DEF EnterNextPhase
  <2>2. active.shift /\ From(next_pattern, next_offset)
    BY <2>1, NextPatternFrom
  <2>3. phase_remaining \in Nat /\ phase_remaining = remaining_rel
    <3>1. phase_remaining \in 1 .. POS_MOD - WORD - 1
      BY Remaining DEF Standing, Invariant
    <3> QED  BY <2>1, <3>1, Lengths DEF remaining_rel, Least
  <2>4. phase_start_pending' <=> phase_pos' = 0
    BY <2>1, <2>3, Lengths
  <2>5. From(pattern_cursor', next_offset + PatternBit(phase_pos'))
    BY <1>4, NextCursor
  <2> QED  BY <2>1, <2>2, <2>4, <2>5
<1>5. CASE EndSequence
  BY <1>5 DEF EndSequence
<1> QED  BY <1>3, <1>4, <1>5 DEF RunWord

LEMMA StartStream ==
  ASSUME NEW c \in Configs, Start(c), TypeInv'
  PROVE  StreamInv'
<1>1. /\ active' = Captured(c) /\ phase_offset' = 0 /\ phase_pos' = 0
      /\ phase_start_pending' = TRUE
      /\ phase_pattern' = Expanded(c.len) /\ pattern_cursor' = Expanded(c.len)
  BY DEF Start
<1>2. active'.len = c.len
  BY <1>1 DEF Captured
<1>3. PatternBit(phase_pos)' = 0
  <2>1. 0 <= active'.gap_start
    BY DEF TypeInv, ActiveOK
  <2> QED  BY <1>1, <2>1 DEF PatternBit, GapBitsBefore, PhaseGap
<1>4. From(Expanded(c.len), 0)'
  <2> SUFFICES ASSUME NEW i \in Bits PROVE Expanded(c.len)[i] = (0 + i) % c.len
    BY <1>2 DEF From
  <2>1. i \in Nat
    BY Lengths DEF Bits
  <2> QED  BY <2>1 DEF Expanded
<1>5. From(phase_pattern, phase_offset)' /\ From(pattern_cursor, phase_offset + PatternBit(phase_pos))'
  BY <1>1, <1>3, <1>4 DEF From
<1> QED  BY <1>1, <1>5 DEF StreamInv

LEMMA StreamStep ==
  ASSUME Sendable, Invariant, [Next]_vars
  PROVE  Invariant'
<1>1. TypeInv' /\ PositionInv'
  BY TypeStep, PositionStep, SendableLoops DEF Invariant
<1>2. StreamInv'
  <2>1. CASE Rst  BY <2>1 DEF Rst, StreamInv
  <2>2. ASSUME NEW c \in Configs, Start(c) PROVE StreamInv'
    BY <1>1, <2>2, StartStream
  <2>3. CASE Disabled  BY <2>3 DEF Disabled, StreamInv
  <2>4. CASE RunWord
    <3>1. CASE running'
      <4>1. running
        BY <2>4 DEF RunWord
      <4> QED  BY <2>4, <3>1, <4>1, StandingSomewhere, RunWordStream
    <3>2. CASE ~running'
      BY <3>2 DEF StreamInv
    <3> QED  BY <3>1, <3>2
  <2>5. CASE Idle
    <3>1. ~running'
      BY <2>5 DEF Idle, engineState
    <3> QED  BY <3>1 DEF StreamInv
  <2>6. CASE UNCHANGED vars
    BY <2>6 DEF vars, engineState, Invariant, StreamInv, From, PatternBit,
                GapBitsBefore, PhaseGap, Width
  <2> QED  BY <2>1, <2>2, <2>3, <2>4, <2>5, <2>6 DEF Next
<1> QED  BY <1>1, <1>2 DEF Invariant

LEMMA InvariantInit == Init => Invariant
<1>1. Init => TypeInv
  BY TypeInit
<1>2. Init => PositionInv /\ StreamInv
  BY DEF Init, PositionInv, StreamInv
<1> QED  BY <1>1, <1>2 DEF Invariant

-----------------------------------------------------------------------------
(* The refinement *)

\* The word of a running engine is the next word of the stream, and the
\* registers are left where the stream goes on.
LEMMA RunWordEmits ==
  ASSUME NEW c, Standing(c), RunWord
  PROVE  Stream!Emit
<1> DEFINE T == active.phase_total
           n == phase_offset * T + phase_pos
           conf == IF running THEN ActiveConfig ELSE NoConf
           sent == IF running THEN phase_offset * active.phase_total + phase_pos ELSE 0
<1>1. conf = c /\ c # NoConf /\ Stream!Total(c) = T
  BY CapturedIs DEF Standing
<1>2. sent = n
  BY DEF Standing
<1>3. word' = [lane \in Stream!Lanes |-> Stream!Symbol(c, n + lane)]
  BY WordIsNext DEF RunWord, Stream!Lanes, Lanes
<1>4. phase_start_pulse' = \E lane \in Stream!Lanes :
                             Stream!Exists(c, n + lane) /\ (n + lane) % Stream!Total(c) = 0
  <2>1. phase_start_pulse' = (phase_start_pending \/ (phase_remaining < WORD /\ has_next_phase))
    BY DEF RunWord
  <2>2. (phase_start_pending \/ (phase_remaining < WORD /\ has_next_phase))
          <=> \E lane \in Lanes : Stream!Exists(c, n + lane) /\ (n + lane) % T = 0
    BY TriggerIsBoundary
  <2> QED  BY <1>1, <2>1, <2>2 DEF Stream!Lanes, Lanes
<1>5. phase_active' = TRUE /\ busy' = TRUE /\ active' = active
  BY DEF RunWord
<1>6. done \in BOOLEAN
  BY DEF Standing, Invariant, TypeInv, FlagsOK
<1>7. /\ done' = (done \/ n + WORD >= Stream!Round(c))
      /\ \/ /\ Stream!Exists(c, n + WORD)
            /\ running' /\ phase_offset' * T + phase_pos' = (n + WORD) % Stream!Round(c)
         \/ ~Stream!Exists(c, n + WORD) /\ ~running'
  <2>1. CASE StayInPhase
    <3>1. phase_offset' = phase_offset /\ running' = running /\ done' = done /\ running
      BY <2>1 DEF StayInPhase, Standing
    <3>2. /\ n + WORD < Stream!Round(c) /\ Stream!Round(c) \in Nat \ {0}
          /\ phase_offset * T + phase_pos' = (n + WORD) % Stream!Round(c)
      BY <2>1, AfterStay
    <3>3. n \in Int
      BY Place
    <3>4. ~(n + WORD >= Stream!Round(c))
      <4> HIDE DEF n
      <4> QED  BY <3>2, <3>3, Lengths
    <3>5. Stream!Exists(c, n + WORD)
      BY <3>2 DEF Stream!Exists
    <3> QED  BY <1>6, <3>1, <3>2, <3>4, <3>5
  <2>2. CASE EnterNextPhase
    <3>1. phase_offset' = next_offset /\ running' = running /\ done' = (done \/ RoundEnds) /\ running
      BY <2>2 DEF EnterNextPhase, Standing
    <3> QED  BY <2>2, <3>1, AfterNext
  <2>3. CASE EndSequence
    <3>1. ~running' /\ done' = TRUE
      BY <2>3 DEF EndSequence
    <3> QED  BY <1>6, <2>3, <3>1, AfterEnd
  <2> QED  BY <2>1, <2>2, <2>3 DEF RunWord
<1>8. ActiveConfig' = ActiveConfig
  BY <1>5 DEF ActiveConfig, GapLength
<1> DEFINE confNext == IF running' THEN ActiveConfig' ELSE NoConf
           sentNext == IF running' THEN phase_offset' * active'.phase_total + phase_pos' ELSE 0
<1>9. CASE running'
  <2>1. confNext = c /\ sentNext = phase_offset' * T + phase_pos'
    BY <1>1, <1>5, <1>8, <1>9 DEF Standing
  <2> HIDE DEF confNext, sentNext
  <2>2. /\ Stream!Exists(c, n + WORD)
        /\ sentNext = (n + WORD) % Stream!Round(c) /\ confNext = c
    BY <1>7, <1>9, <2>1
  <2> HIDE DEF n, conf, sent
  <2>3. /\ conf # NoConf
        /\ word' = [lane \in Stream!Lanes |-> Stream!Symbol(conf, sent + lane)]
        /\ phase_start_pulse' = (\E lane \in Stream!Lanes : Stream!Exists(conf, sent + lane)
                                                   /\ (sent + lane) % Stream!Total(conf) = 0)
        /\ phase_active' = TRUE /\ busy' = TRUE
        /\ done' = (done \/ sent + WORD >= Stream!Round(conf))
        /\ Stream!Exists(conf, sent + WORD)
        /\ sentNext = (sent + WORD) % Stream!Round(conf) /\ confNext = conf
    BY <1>1, <1>2, <1>3, <1>4, <1>5, <1>7, <2>2, Zenon
  <2> QED  BY <2>3 DEF Stream!Emit, conf, sent, confNext, sentNext
<1>10. CASE ~running'
  <2>1. confNext = NoConf /\ sentNext = 0
    BY <1>10
  <2>2. ~Stream!Exists(c, n + WORD)
    BY <1>7, <1>10
  <2> HIDE DEF n, conf, sent, confNext, sentNext
  <2>3. /\ conf # NoConf
        /\ word' = [lane \in Stream!Lanes |-> Stream!Symbol(conf, sent + lane)]
        /\ phase_start_pulse' = (\E lane \in Stream!Lanes : Stream!Exists(conf, sent + lane)
                                                   /\ (sent + lane) % Stream!Total(conf) = 0)
        /\ phase_active' = TRUE /\ busy' = TRUE
        /\ done' = (done \/ sent + WORD >= Stream!Round(conf))
        /\ ~Stream!Exists(conf, sent + WORD)
        /\ sentNext = 0 /\ confNext = NoConf
    BY <1>1, <1>2, <1>3, <1>4, <1>5, <1>7, <2>1, <2>2, Zenon
  <2> QED  BY <2>3 DEF Stream!Emit, conf, sent, confNext, sentNext
<1> QED  BY <1>9, <1>10

LEMMA QuietIsSilent == ASSUME Quiet PROVE Stream!Silent
BY DEF Quiet, Stream!Silent, Stream!Blank, Stream!Lanes, Blank, Lanes

\* Every step of the engine is a step of the stream, or none.
LEMMA StreamNext ==
  ASSUME Sendable, Invariant, [Next]_vars
  PROVE  [Stream!Next]_(Stream!vars)
<1>1. done \in BOOLEAN
  BY DEF Invariant, TypeInv, FlagsOK
<1>2. CASE Rst
  <2>1. Stream!Rest
    BY <1>2, QuietIsSilent DEF Rst, Stream!Rest
  <2> QED  BY <2>1 DEF Stream!Next
<1>3. ASSUME NEW c \in Configs, Start(c)
      PROVE  Stream!Next
  <2>1. /\ active' = Captured(c) /\ running' = TRUE /\ phase_pos' = 0 /\ phase_offset' = 0
        /\ busy' = TRUE /\ done' = FALSE /\ Quiet
    BY <1>3 DEF Start
  <2>2. ActiveConfig' = c
    BY <2>1, CapturedConfig DEF ActiveConfig, GapLength
  <2>3. phase_offset' * active'.phase_total + phase_pos' = 0
    <3>1. active'.phase_total \in Nat
      BY <2>1, CapturedOK
    <3> QED  BY <2>1, <3>1
  <2>4. Stream!Begin(c)
    BY <2>1, <2>2, <2>3, QuietIsSilent DEF Stream!Begin
  <2> QED  BY <2>4 DEF Stream!Next
<1>4. CASE Disabled
  <2>1. Stream!Rest
    BY <1>1, <1>4, QuietIsSilent DEF Disabled, Stream!Rest
  <2> QED  BY <2>1 DEF Stream!Next
<1>5. CASE RunWord
  <2>1. running
    BY <1>5 DEF RunWord
  <2>2. Stream!Emit
    BY <1>5, <2>1, StandingSomewhere, RunWordEmits
  <2> QED  BY <2>2 DEF Stream!Next
<1>6. CASE Idle
  <2>1. Stream!Rest
    BY <1>1, <1>6, QuietIsSilent DEF Idle, engineState, Stream!Rest
  <2> QED  BY <2>1 DEF Stream!Next
<1>7. CASE UNCHANGED vars
  BY <1>7 DEF vars, engineState, engineOut, Stream!vars, ActiveConfig, GapLength
<1> QED  BY <1>2, <1>3, <1>4, <1>5, <1>6, <1>7 DEF Next

LEMMA StreamInit == Init => Stream!Init
BY DEF Init, Stream!Init, Stream!Blank, Stream!Lanes, Blank, Lanes

\* The safety of ImplementsStream: whatever the engine puts out in a word, its
\* trigger, busy and done is what the stream has next.
THEOREM StreamImplemented ==
  Sendable /\ Spec => Stream!Init /\ [][Stream!Next]_(Stream!vars)
<1>1. ASSUME Sendable PROVE Spec => Stream!Init /\ [][Stream!Next]_(Stream!vars)
  <2>1. Invariant /\ [Next]_vars => Invariant' /\ [Stream!Next]_(Stream!vars)
    BY <1>1, StreamStep, StreamNext
  <2> QED  BY <2>1, InvariantInit, StreamInit, PTL DEF Spec
<1> QED  BY <1>1

\* Within a phase of a sequence that is sent as a stream the pattern is the base
\* pattern rotated by the offset of the phase.
THEOREM PatternAtOffset == Sendable /\ Spec => []PhasePatternAtOffset
<1>1. Invariant => PhasePatternAtOffset
  BY DEF Invariant, StreamInv, PhasePatternAtOffset, From
<1>2. ASSUME Sendable PROVE Spec => []PhasePatternAtOffset
  <2>1. Invariant /\ [Next]_vars => Invariant'
    BY <1>2, StreamStep
  <2> QED  BY <1>1, <2>1, InvariantInit, PTL DEF Spec
<1> QED  BY <1>2
=============================================================================
