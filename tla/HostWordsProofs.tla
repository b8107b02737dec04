--------------------------- MODULE HostWordsProofs ---------------------------
(***************************************************************************)
(* What firmware and FPGA put into a word, the other side takes out of it. *)
(***************************************************************************)
EXTENDS HostWords, TLAPS

\* The ranges that WRITE_CONFIG checks.
Fits(c) ==
  /\ c.gap_len_bits <= 255 /\ c.insert_after <= 65535 /\ c.prbs_order <= 255
  /\ c.phase_shift_en <= 1 /\ c.loop_en <= 1

-----------------------------------------------------------------------------
(* Configuration records *)

LEMMA CastsAreNumbers ==
  ASSUME NEW n \in Nat
  PROVE  Byte(n) \in Nat /\ Byte(n) <= 255 /\ Half(n) \in Nat /\ Half(n) <= 65535
BY DEF Byte, Half

LEMMA CastsKeep ==
  ASSUME NEW n \in Nat
  PROVE  (n <= 255 => Byte(n) = n) /\ (n <= 65535 => Half(n) = n)
BY DEF Byte, Half

LEMMA ConfigFields ==
  ASSUME NEW c \in Configs
  PROVE  /\ c.seed \in Nat /\ c.repeat_cycles \in Nat /\ c.gap_len_bits \in Nat
         /\ c.insert_after \in Nat /\ c.prbs_order \in Nat /\ c.phase_shift_en \in Nat
         /\ c.loop_en \in Nat /\ c.pattern \in [1 .. 4 -> Nat]
         /\ c = [ seed |-> c.seed, repeat_cycles |-> c.repeat_cycles,
                  gap_len_bits |-> c.gap_len_bits, insert_after |-> c.insert_after,
                  prbs_order |-> c.prbs_order, phase_shift_en |-> c.phase_shift_en,
                  loop_en |-> c.loop_en, pattern |-> c.pattern ]
BY DEF Configs

LEMMA NarrowType == ASSUME NEW c \in Configs PROVE Narrow(c) \in Configs
<1>1. /\ Byte(c.gap_len_bits) \in Nat /\ Half(c.insert_after) \in Nat
      /\ Byte(c.prbs_order) \in Nat /\ Byte(c.phase_shift_en) \in Nat
      /\ Byte(c.loop_en) \in Nat
  BY ConfigFields, CastsAreNumbers
<1> QED  BY <1>1, ConfigFields DEF Narrow, Config, Configs

LEMMA WordsType ==
  ASSUME NEW c \in Configs
  PROVE  ToWords(c) \in [0 .. 7 -> Nat]
<1>1. /\ c.pattern[1] \in Nat /\ c.pattern[2] \in Nat
      /\ c.pattern[3] \in Nat /\ c.pattern[4] \in Nat
  BY ConfigFields
<1>2. Flag(c.phase_shift_en # 0) \in Nat /\ Flag(c.loop_en # 0) \in Nat
  BY DEF Flag
<1>3. \A k \in 0 .. 7 : ToWords(c)[k] \in Nat
  BY <1>1, <1>2, ConfigFields DEF ToWords
<1>4. ToWords(c) = [k \in 0 .. 7 |-> ToWords(c)[k]]
  BY DEF ToWords
<1> QED  BY <1>3, <1>4

\* The numbers that a command accepts keep their values through the casts.
LEMMA NarrowKeeps ==
  ASSUME NEW c \in Configs, Fits(c)
  PROVE  Narrow(c) = c
<1>1. /\ Byte(c.gap_len_bits) = c.gap_len_bits /\ Half(c.insert_after) = c.insert_after
      /\ Byte(c.prbs_order) = c.prbs_order /\ Byte(c.phase_shift_en) = c.phase_shift_en
      /\ Byte(c.loop_en) = c.loop_en
  BY ConfigFields, CastsKeep DEF Fits
<1> QED  BY <1>1, ConfigFields DEF Narrow, Config

LEMMA GapWord ==
  ASSUME NEW a \in Nat, a <= 65535, NEW g \in Nat, g <= 255
  PROVE  Byte(a * 256 + g) = g /\ Half((a * 256 + g) \div 256) = a
<1>1. (a * 256 + g) \div 256 = a /\ (a * 256 + g) % 256 = g
  OBVIOUS
<1> QED  BY <1>1, CastsKeep DEF Byte

LEMMA FlagWord ==
  ASSUME NEW o \in Nat, o <= 255, NEW p \in Nat, p <= 1, NEW l \in Nat, l <= 1
  PROVE  /\ Byte(o + 256 * p + 512 * l) = o
         /\ ((o + 256 * p + 512 * l) \div 256) % 2 = p
         /\ ((o + 256 * p + 512 * l) \div 512) % 2 = l
BY DEF Byte

\* The loader reads the numbers the host sent.
THEOREM RoundTrip ==
  ASSUME NEW c \in Configs, Fits(c)
  PROVE  FromWords(ToWords(Narrow(c))) = c
<1> DEFINE W == ToWords(c)
<1>1. Flag(c.phase_shift_en # 0) = c.phase_shift_en /\ Flag(c.loop_en # 0) = c.loop_en
  BY ConfigFields DEF Flag, Fits
<1>2. /\ W[0] = c.seed /\ W[1] = c.repeat_cycles
      /\ W[2] = c.insert_after * 256 + c.gap_len_bits
      /\ W[3] = c.prbs_order + 256 * c.phase_shift_en + 512 * c.loop_en
      /\ W[4] = c.pattern[1] /\ W[5] = c.pattern[2]
      /\ W[6] = c.pattern[3] /\ W[7] = c.pattern[4]
  BY <1>1 DEF ToWords
<1> HIDE DEF W
<1>3. Byte(W[2]) = c.gap_len_bits /\ Half(W[2] \div 256) = c.insert_after
  BY <1>2, GapWord, ConfigFields DEF Fits
<1>4. /\ Byte(W[3]) = c.prbs_order /\ (W[3] \div 256) % 2 = c.phase_shift_en
      /\ (W[3] \div 512) % 2 = c.loop_en
  BY <1>2, FlagWord, ConfigFields DEF Fits
<1>5. [k \in 1 .. 4 |-> W[k + 3]] = c.pattern
  <2>1. \A k \in 1 .. 4 : W[k + 3] = c.pattern[k]
    BY <1>2
  <2> QED  BY <2>1, ConfigFields
<1>6. FromWords(W) = c
  BY <1>2, <1>3, <1>4, <1>5, ConfigFields DEF FromWords, Config
<1> QED  BY <1>6, NarrowKeeps DEF W

-----------------------------------------------------------------------------
(* The control word *)

LEMMA BitsType == ASSUME NEW n PROVE Bits(n) \subseteq INDEX_MASK
BY DEF Bits, INDEX_MASK

LEMMA BitsOfZero == Bits(0) = {}
<1>1. \A k \in 0 .. 7 : (0 \div Powers[k + 1]) % 2 # 1
  BY DEF Powers
<1> QED  BY <1>1 DEF Bits

LEMMA BitsOfRate ==
  ASSUME NEW id \in {1, 2}
  PROVE  {k + 13 : k \in Bits(id) \cap {0, 1}} = IF id = 1 THEN {13} ELSE {14}
<1>1. (1 \div Powers[1]) % 2 = 1 /\ (1 \div Powers[2]) % 2 = 0
  BY DEF Powers
<1>2. (2 \div Powers[1]) % 2 = 0 /\ (2 \div Powers[2]) % 2 = 1
  BY DEF Powers
<1>3. /\ 0 \in Bits(1) /\ 1 \notin Bits(1)
      /\ 0 \notin Bits(2) /\ 1 \in Bits(2)
  BY <1>1, <1>2 DEF Bits
<1>4. Bits(id) \cap {0, 1} = IF id = 1 THEN {0} ELSE {1}
  BY <1>3
<1> QED  BY <1>4

LEMMA NoPorts ==
  ControlPorts({}) =
    [ config_index |-> {}, apply_toggle |-> FALSE, enable |-> FALSE,
      soft_reset |-> FALSE, source_sel |-> FALSE, direct_len_sel |-> FALSE,
      rate_id |-> {}, rate_req_toggle |-> FALSE ]
BY DEF ControlPorts, INDEX_MASK, APPLY_TOGGLE, ENABLE, SOFT_RESET, DIRECT_SOURCE,
   DIRECT_LEN_127, RATE_REQ_TOGGLE

\* Words that agree in the bits of a signal agree in the signal.
LEMMA SamePort ==
  ASSUME NEW w, NEW v
  PROVE  /\ (\A k \in 0 .. 7 : k \in v <=> k \in w) =>
              ControlPorts(v).config_index = ControlPorts(w).config_index
         /\ (8 \in v <=> 8 \in w) => ControlPorts(v).apply_toggle = ControlPorts(w).apply_toggle
         /\ (9 \in v <=> 9 \in w) => ControlPorts(v).enable = ControlPorts(w).enable
         /\ (10 \in v <=> 10 \in w) => ControlPorts(v).soft_reset = ControlPorts(w).soft_reset
         /\ (11 \in v <=> 11 \in w) => ControlPorts(v).source_sel = ControlPorts(w).source_sel
         /\ (12 \in v <=> 12 \in w) =>
              ControlPorts(v).direct_len_sel = ControlPorts(w).direct_len_sel
         /\ (13 \in v <=> 13 \in w) /\ (14 \in v <=> 14 \in w) =>
              ControlPorts(v).rate_id = ControlPorts(w).rate_id
         /\ (15 \in v <=> 15 \in w) =>
              ControlPorts(v).rate_req_toggle = ControlPorts(w).rate_req_toggle
BY DEF ControlPorts, INDEX_MASK, APPLY_TOGGLE, ENABLE, SOFT_RESET, DIRECT_SOURCE,
   DIRECT_LEN_127, RATE_REQ_TOGGLE

\* Which bits an operation on the word leaves alone, and what it makes of the
\* others.
LEMMA EnableBits ==
  ASSUME NEW w
  PROVE  /\ \A k : k # 9 => /\ k \in w \cup ENABLE <=> k \in w
                          /\ k \in w \ ENABLE <=> k \in w
         /\ ControlPorts(w \cup ENABLE).enable = TRUE
         /\ ControlPorts(w \ ENABLE).enable = FALSE
BY DEF ControlPorts, ENABLE

LEMMA ResetBits ==
  ASSUME NEW w
  PROVE  /\ \A k : k # 10 => /\ k \in w \cup SOFT_RESET <=> k \in w
                           /\ k \in w \ SOFT_RESET <=> k \in w
         /\ ControlPorts(w \cup SOFT_RESET).soft_reset = TRUE
         /\ ControlPorts(w \ SOFT_RESET).soft_reset = FALSE
BY DEF ControlPorts, SOFT_RESET

LEMMA ApplyBits ==
  ASSUME NEW w
  PROVE  LET v == Flipped(w, APPLY_TOGGLE)
         IN /\ \A k : k # 8 => (k \in v <=> k \in w)
            /\ ControlPorts(v).apply_toggle = ~ControlPorts(w).apply_toggle
BY DEF ControlPorts, Flipped, APPLY_TOGGLE

LEMMA SelectBits ==
  ASSUME NEW w, NEW index, NEW source, NEW len127
  PROVE  LET v == Selected(w, index, source, len127)
         IN /\ \A k : k \notin 0 .. 7 \cup {11, 12} => (k \in v <=> k \in w)
            /\ v \cap INDEX_MASK = Bits(index)
BY BitsType DEF Selected, INDEX_MASK, DIRECT_SOURCE, DIRECT_LEN_127

LEMMA RateBits ==
  ASSUME NEW w, NEW id \in {1, 2}
  PROVE  LET v == RateRequested(w, id)
         IN /\ \A k : k \notin {13, 14, 15} => (k \in v <=> k \in w)
            /\ ControlPorts(v).rate_id = {id - 1}
            /\ ControlPorts(v).rate_req_toggle = ~ControlPorts(w).rate_req_toggle
<1> DEFINE v == RateRequested(w, id)
<1>1. /\ \A k : k \notin {13, 14, 15} => (k \in v <=> k \in w)
      /\ 13 \in v <=> id = 1
      /\ 14 \in v <=> id = 2
      /\ 15 \in v <=> 15 \notin w
  BY BitsOfRate DEF RateRequested, Flipped, RATE_ID_MASK, RATE_REQ_TOGGLE
<1> HIDE DEF v
<1>2. ControlPorts(v).rate_id = {id - 1}
  <2>1. {k \in {0, 1} : k + 13 \in v} = {id - 1}
    BY <1>1
  <2> QED  BY <2>1 DEF ControlPorts
<1>3. ControlPorts(v).rate_req_toggle = ~ControlPorts(w).rate_req_toggle
  BY <1>1 DEF ControlPorts, RATE_REQ_TOGGLE
<1> QED  BY <1>1, <1>2, <1>3 DEF v

-----------------------------------------------------------------------------
(* The GT status word *)

\* The firmware reads the status that the FPGA shows.
THEOREM StatusRead ==
  ASSUME NEW s \in Statuses
  PROVE  GtStatusRead(GtStatusOut(s)) =
           [ ready |-> s.ready, rate_id |-> s.rate_id, busy |-> s.busy, error |-> s.error,
             gt_written |-> s.gt_written, mmcm_written |-> s.mmcm_written,
             state |-> s.state, error_code |-> s.error_code ]
<1> DEFINE w == GtStatusOut(s)
           a == Flag(s.ready)
           r == s.rate_id
           c == Flag(s.busy)
           d == Flag(s.error)
           e == Flag(s.gt_written)
           f == Flag(s.mmcm_written)
           g == s.state
           h == s.error_code
<1>1. /\ s.ready \in BOOLEAN /\ s.busy \in BOOLEAN /\ s.error \in BOOLEAN
      /\ s.gt_written \in BOOLEAN /\ s.mmcm_written \in BOOLEAN
  BY DEF Statuses
<1>2. /\ a \in 0 .. 1 /\ (a = 1) = s.ready /\ c \in 0 .. 1 /\ (c = 1) = s.busy
      /\ d \in 0 .. 1 /\ (d = 1) = s.error /\ e \in 0 .. 1 /\ (e = 1) = s.gt_written
      /\ f \in 0 .. 1 /\ (f = 1) = s.mmcm_written
  BY <1>1 DEF Flag
<1>3. r \in 0 .. 2 /\ g \in Nat /\ g <= 255 /\ h \in Nat /\ h <= 255
  BY DEF Statuses
<1>4. w = 4 * a + 8 * (1 - a) + 32 * r + 1024 * c + 2048 * d + 16384 * e + 32768 * f
            + 65536 * g + 16777216 * h
  BY SMT, <1>1 DEF GtStatusOut, Flag
<1> HIDE DEF w, a, r, c, d, e, f, g, h
<1>5. (w \div 4) % 2 = a
  <2> DEFINE low == 0
             high == (1 - a) + 4 * r + 128 * c + 256 * d + 2048 * e + 4096 * f + 8192 * g + 2097152 * h
  <2>1. low \in Nat /\ low < 4 /\ high \in Nat /\ w = low + 4 * (a + 2 * high)
    BY SMT, <1>2, <1>3, <1>4
  <2> HIDE DEF low, high
  <2>2. w \div 4 = a + 2 * high
    BY SMT, <1>2, <1>3, <2>1
  <2> QED  BY SMT, <1>2, <1>3, <2>1, <2>2
<1>6. (w \div 32) % 8 = r
  <2> DEFINE low == 4 * a + 8 * (1 - a)
             high == 4 * c + 8 * d + 64 * e + 128 * f + 256 * g + 65536 * h
  <2>1. low \in Nat /\ low < 32 /\ high \in Nat /\ w = low + 32 * (r + 8 * high)
    BY SMT, <1>2, <1>3, <1>4
  <2> HIDE DEF low, high
  <2>2. w \div 32 = r + 8 * high
    BY SMT, <1>2, <1>3, <2>1
  <2> QED  BY SMT, <1>2, <1>3, <2>1, <2>2
<1>7. (w \div 1024) % 2 = c
  <2> DEFINE low == 4 * a + 8 * (1 - a) + 32 * r
             high == d + 8 * e + 16 * f + 32 * g + 8192 * h
  <2>1. low \in Nat /\ low < 1024 /\ high \in Nat /\ w = low + 1024 * (c + 2 * high)
    BY SMT, <1>2, <1>3, <1>4
  <2> HIDE DEF low, high
  <2>2. w \div 1024 = c + 2 * high
    BY SMT, <1>2, <1>3, <2>1
  <2> QED  BY SMT, <1>2, <1>3, <2>1, <2>2
<1>8. (w \div 2048) % 2 = d
  <2> DEFINE low == 4 * a + 8 * (1 - a) + 32 * r + 1024 * c
             high == 4 * e + 8 * f + 16 * g + 4096 * h
  <2>1. low \in Nat /\ low < 2048 /\ high \in Nat /\ w = low + 2048 * (d + 2 * high)
    BY SMT, <1>2, <1>3, <1>4
  <2> HIDE DEF low, high
  <2>2. w \div 2048 = d + 2 * high
    BY SMT, <1>2, <1>3, <2>1
  <2> QED  BY SMT, <1>2, <1>3, <2>1, <2>2
<1>9. (w \div 16384) % 2 = e
  <2> DEFINE low == 4 * a + 8 * (1 - a) + 32 * r + 1024 * c + 2048 * d
             high == f + 2 * g + 512 * h
  <2>1. low \in Nat /\ low < 16384 /\ high \in Nat /\ w = low + 16384 * (e + 2 * high)
    BY SMT, <1>2, <1>3, <1>4
  <2> HIDE DEF low, high
  <2>2. w \div 16384 = e + 2 * high
    BY SMT, <1>2, <1>3, <2>1
  <2> QED  BY SMT, <1>2, <1>3, <2>1, <2>2
<1>10. (w \div 32768) % 2 = f
  <2> DEFINE low == 4 * a + 8 * (1 - a) + 32 * r + 1024 * c + 2048 * d + 16384 * e
             high == g + 256 * h
  <2>1. low \in Nat /\ low < 32768 /\ high \in Nat /\ w = low + 32768 * (f + 2 * high)
    BY SMT, <1>2, <1>3, <1>4
  <2> HIDE DEF low, high
  <2>2. w \div 32768 = f + 2 * high
    BY SMT, <1>2, <1>3, <2>1
  <2> QED  BY SMT, <1>2, <1>3, <2>1, <2>2
<1>11. (w \div 65536) % 256 = g
  <2> DEFINE low == 4 * a + 8 * (1 - a) + 32 * r + 1024 * c + 2048 * d + 16384 * e + 32768 * f
             high == h
  <2>1. low \in Nat /\ low < 65536 /\ high \in Nat /\ w = low + 65536 * (g + 256 * high)
    BY SMT, <1>2, <1>3, <1>4
  <2> HIDE DEF low, high
  <2>2. w \div 65536 = g + 256 * high
    BY SMT, <1>2, <1>3, <2>1
  <2> QED  BY SMT, <1>2, <1>3, <2>1, <2>2
<1>12. (w \div 16777216) % 256 = h
  <2> DEFINE low == 4 * a + 8 * (1 - a) + 32 * r + 1024 * c + 2048 * d + 16384 * e + 32768 * f + 65536 * g
             high == 0
  <2>1. low \in Nat /\ low < 16777216 /\ high \in Nat /\ w = low + 16777216 * (h + 256 * high)
    BY SMT, <1>2, <1>3, <1>4
  <2> HIDE DEF low, high
  <2>2. w \div 16777216 = h + 256 * high
    BY SMT, <1>2, <1>3, <2>1
  <2> QED  BY SMT, <1>2, <1>3, <2>1, <2>2
<1>13. GtStatusRead(w) =
         [ ready |-> s.ready, rate_id |-> r, busy |-> s.busy, error |-> s.error,
           gt_written |-> s.gt_written, mmcm_written |-> s.mmcm_written,
           state |-> g, error_code |-> h ]
  BY SMT, <1>1, <1>2, <1>5, <1>6, <1>7, <1>8, <1>9, <1>10, <1>11, <1>12
     DEF GtStatusRead, Bit, Byte
<1> QED  BY SMT, <1>13 DEF w, r, g, h
=============================================================================
