----------------------------- MODULE MCFirmware -----------------------------
(* The three programs, one restart, one lost write and requests at the       *)
(* limits of their arguments, for TLC.                                       *)
EXTENDS Firmware

MCPattern == [k \in 1 .. 4 |-> IF k = 4 THEN 5 ELSE 0]
WithNumbers(w, s) == <<Word(w)>> \o [k \in DOMAIN s |-> Number(s[k])]
WriteRequest(i, after, order) ==
  WithNumbers("WRITE_CONFIG", <<i, 0, 300, 255, after, order, 1, 0, 0, 0, 0, 7 - order>>)

MCRequests ==
  { <<>>, <<Word("PING")>>, <<Word("READ_STATUS")>>, <<Word("READ_GT_STATUS")>>,
    <<Word("APPLY")>>, <<Word("DISABLE")>>, <<Word("SOFT_RESET")>>, <<Number(7)>>,
    WithNumbers("ENABLE", <<0>>),
    WriteRequest(0, 300, 6), WriteRequest(255, 65535, 7), WriteRequest(0, 65536, 6),
    WriteRequest(256, 300, 7), WithNumbers("WRITE_CONFIG", <<0, 0, 300, 255, 300, 256, 1, 0, 0, 0, 0, 1>>),
    WriteRequest(0, 300, 6) \o <<Number(1), Number(1), Number(1)>>,
    <<Word("WRITE_CONFIG"), Number(0)>>,
    WithNumbers("SELECT_CONFIG", <<0, 1, 0>>), WithNumbers("SELECT_CONFIG", <<255, 0, 1>>),
    WithNumbers("SELECT_CONFIG", <<256, 0, 0>>), WithNumbers("SELECT_CONFIG", <<0, 2, 0>>),
    WithNumbers("SELECT_CONFIG", <<0, 1>>),
    <<Word("RATE")>>, <<Word("RATE"), Word("STATUS")>>,
    <<Word("RATE"), Word("STATUS"), Number(1)>>,
    <<Word("RATE"), Word("PLAN"), Number(1000)>>, <<Word("RATE"), Word("PLAN"), Number(501)>>,
    <<Word("RATE"), Word("PLAN")>>,
    <<Word("RATE"), Word("SET"), Number(500)>>, <<Word("RATE"), Word("SET"), Number(1000)>>,
    <<Word("RATE"), Word("SET"), Number(70500)>>, <<Word("RATE"), Word("SET"), Word("FAST")>> }

GtState(ready, id, state, error_code) ==
  [ ready |-> ready, rate_id |-> id, busy |-> state \in 1 .. 9 \cup {11},
    error |-> state = 128, gt_written |-> state \in 6 .. 11 \cup {128},
    mmcm_written |-> state \in 7 .. 11 \cup {128}, state |-> state, error_code |-> error_code ]
MCGtStates ==
  { GtState(TRUE, 1, 0, 0), GtState(TRUE, 2, 10, 0), GtState(FALSE, 1, 11, 0),
    GtState(FALSE, 1, 5, 0), GtState(FALSE, 2, 128, 10) }

MCUartCases == { "DIRECT63", "DIRECT127", "PRBS6", "PRBS7", "GAP", "INVALID_REPEAT_ZERO",
  "INVALID_PRBS_SEED_ZERO", "INVALID_INSERT_AFTER", "INVALID_PRBS_ORDER",
  "INVALID_DIRECT_MODE_MISMATCH" }
MCCoreCases == {"DIRECT63", "DIRECT63_GAP", "PRBS6", "INVALID"}
=============================================================================
