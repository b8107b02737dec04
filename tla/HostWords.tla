------------------------------ MODULE HostWords ------------------------------
(***************************************************************************)
(* The words firmware and FPGA exchange: how laser_gpio.c, laser_bram.c    *)
(* and laser_gt.c put them together or take them apart, and how the RTL    *)
(* does the opposite.  The rate plan of gt_rate_plan.c is here as well.    *)
(***************************************************************************)
EXTENDS Naturals, Sequences

Flag(b) == IF b THEN 1 ELSE 0
Byte(n) == n % 256            \* (uint8_t)
Half(n) == n % 65536          \* (uint16_t)
Cut(n, max) == IF n > max THEN max ELSE n

-----------------------------------------------------------------------------
(* The control word, as the set of its bits that are 1 *)

INDEX_MASK     == 0 .. 7
APPLY_TOGGLE   == {8}
ENABLE         == {9}
SOFT_RESET     == {10}
DIRECT_SOURCE  == {11}
DIRECT_LEN_127 == {12}
RATE_ID_MASK   == {13, 14}
RATE_REQ_TOGGLE == {15}

Powers        == <<1, 2, 4, 8, 16, 32, 64, 128>>
Bits(n)       == {k \in 0 .. 7 : (n \div Powers[k + 1]) % 2 = 1}
Flipped(w, m) == (w \ m) \cup (m \ w)

Selected(w, index, source, len127) ==
  (w \ (INDEX_MASK \cup DIRECT_SOURCE \cup DIRECT_LEN_127)) \cup Bits(index)
    \cup (IF source THEN DIRECT_SOURCE ELSE {})
    \cup (IF len127 THEN DIRECT_LEN_127 ELSE {})

RateRequested_KeepsId(w, id) ==
  Flipped(w \cup {k + 13 : k \in Bits(id) \cap {0, 1}}, RATE_REQ_TOGGLE)
RateRequested(w, id) ==
  Flipped((w \ RATE_ID_MASK) \cup {k + 13 : k \in Bits(id) \cap {0, 1}},
          RATE_REQ_TOGGLE)

\* What the ports of config_loader, of the engine and of the rate controller
\* see of it; a bus is the set of its lines that are 1.
ControlPorts(w) ==
  [ config_index |-> w \cap INDEX_MASK,  apply_toggle |-> APPLY_TOGGLE \subseteq w,
    enable |-> ENABLE \subseteq w,        soft_reset   |-> SOFT_RESET \subseteq w,
    source_sel |-> DIRECT_SOURCE \subseteq w,
    direct_len_sel |-> DIRECT_LEN_127 \subseteq w,
    rate_id |-> {k \in {0, 1} : k + 13 \in w},
    rate_req_toggle |-> RATE_REQ_TOGGLE \subseteq w ]
Index(bus) ==
  LET Line(k) == IF k \in bus THEN Powers[k + 1] ELSE 0
  IN Line(0) + Line(1) + Line(2) + Line(3) + Line(4) + Line(5) + Line(6) + Line(7)

-----------------------------------------------------------------------------
(* A configuration record: LaserConfig, its eight words, what the PL reads *)

Config(seed, repeat, gap, after, order, phase, loop, pattern) ==
  [ seed |-> seed, repeat_cycles |-> repeat, gap_len_bits |-> gap,
    insert_after |-> after, prbs_order |-> order, phase_shift_en |-> phase,
    loop_en |-> loop, pattern |-> pattern ]

Configs == [ seed : Nat, repeat_cycles : Nat, gap_len_bits : Nat, insert_after : Nat,
             prbs_order : Nat, phase_shift_en : Nat, loop_en : Nat,
             pattern : [1 .. 4 -> Nat] ]

\* The casts of the WRITE_CONFIG command to the fields of LaserConfig.
Narrow(c) ==
  Config(c.seed, c.repeat_cycles, Byte(c.gap_len_bits), Half(c.insert_after),
         Byte(c.prbs_order), Byte(c.phase_shift_en), Byte(c.loop_en), c.pattern)

ToWords_NarrowInsert(c) ==
  [k \in 0 .. 7 |->
    CASE k = 0 -> c.seed
      [] k = 1 -> c.repeat_cycles
      [] k = 2 -> Byte(c.insert_after) * 256 + c.gap_len_bits
      [] k = 3 -> c.prbs_order + 256 * Flag(c.phase_shift_en # 0)
                               + 512 * Flag(c.loop_en # 0)
      [] OTHER -> c.pattern[k - 3]]
ToWords(c) ==
  [k \in 0 .. 7 |->
    CASE k = 0 -> c.seed
      [] k = 1 -> c.repeat_cycles
      [] k = 2 -> c.insert_after * 256 + c.gap_len_bits
      [] k = 3 -> c.prbs_order + 256 * Flag(c.phase_shift_en # 0)
                               + 512 * Flag(c.loop_en # 0)
      [] OTHER -> c.pattern[k - 3]]

\* The loader's slices.  Bit 31 of the last word, which the PL drops, and the
\* replacement of a zero seed are left out: the one is no part of a pattern,
\* the other happens to the copy, not to the record.
FromWords(r) ==
  Config(r[0], r[1], Byte(r[2]), Half(r[2] \div 256), Byte(r[3]),
         (r[3] \div 256) % 2, (r[3] \div 512) % 2, [k \in 1 .. 4 |-> r[k + 3]])

\* Its check: 0 for a valid record, else the error code.  The length that the
\* source and length bits select is 63 or 127 in every case.
LoadError(r) ==
  LET c == FromWords(r)
  IN CASE c.repeat_cycles = 0              -> 1
       [] c.prbs_order \notin {6, 7}       -> 2
       [] c.insert_after > c.repeat_cycles -> 3
       [] OTHER                            -> 0

-----------------------------------------------------------------------------
(* The GT status word *)

\* What it tells of the controller.
Statuses == [ ready : BOOLEAN, rate_id : 0 .. 2, busy : BOOLEAN, error : BOOLEAN,
              gt_written : BOOLEAN, mmcm_written : BOOLEAN,
              state : 0 .. 255, error_code : 0 .. 255 ]

\* gt_status_out, without the bits that the firmware only prints.
GtStatusOut(s) ==
  4 * Flag(s.ready) + 8 * Flag(~s.ready) + 32 * s.rate_id
    + 1024 * Flag(s.busy) + 2048 * Flag(s.error)
    + 16384 * Flag(s.gt_written) + 32768 * Flag(s.mmcm_written)
    + 65536 * s.state + 16777216 * s.error_code

\* The masks and macros of laser_gt.h.
Bit(w, mask) == (w \div mask) % 2 = 1
GtStatusRead_RateShift(w) ==
  [ ready |-> Bit(w, 4), rate_id |-> (w \div 64) % 8,
    busy |-> Bit(w, 1024), error |-> Bit(w, 2048),
    gt_written |-> Bit(w, 16384), mmcm_written |-> Bit(w, 32768),
    state |-> Byte(w \div 65536), error_code |-> Byte(w \div 16777216) ]
GtStatusRead(w) ==
  [ ready |-> Bit(w, 4), rate_id |-> (w \div 32) % 8,
    busy |-> Bit(w, 1024), error |-> Bit(w, 2048),
    gt_written |-> Bit(w, 16384), mmcm_written |-> Bit(w, 32768),
    state |-> Byte(w \div 65536), error_code |-> Byte(w \div 16777216) ]

\* The codes that have a name; any other is printed RATE_UNKNOWN or UNKNOWN.
NamedStates == 0 .. 10 \cup {128}
NamedErrors == 0 .. 10
Named(code, names) == IF code \in names THEN code ELSE 255

-----------------------------------------------------------------------------
(* The rate plan, frequencies in units of 100 Hz *)

IdOfMbps(mbps) == CASE mbps = 500 -> 1 [] mbps = 1000 -> 2 [] OTHER -> 0
MbpsOfId(id)   == CASE id = 1 -> 500 [] id = 2 -> 1000 [] OTHER -> 0

Planned == {500, 1000}
Plan(mbps) ==
  IF mbps = 500
  THEN [ target |-> 500, refclk |-> 1250000, txoutclk |-> 156250, txusrclk |-> 156250,
         txusrclk2 |-> 78125, txout_div |-> 8, cpll_m |-> 1, cpll_n1 |-> 4, cpll_n2 |-> 4 ]
  ELSE [ target |-> 1000, refclk |-> 1250000, txoutclk |-> 312500, txusrclk |-> 312500,
         txusrclk2 |-> 156250, txout_div |-> 4, cpll_m |-> 1, cpll_n1 |-> 4, cpll_n2 |-> 4 ]
=============================================================================
