------------------------------- MODULE Firmware -------------------------------
(***************************************************************************)
(* The programs that run on the processor: the UDP server and the two      *)
(* bring-up tests.  main makes a fixed list of calls, each of which may    *)
(* fail; the server then turns each datagram into a shorter list of the    *)
(* same calls.  A call is one action.  The FPGA takes part as the          *)
(* configuration loader and through the status words.                      *)
(*                                                                         *)
(* A datagram may be lost, doubled or late: the server keeps nothing       *)
(* between two of them, so that any request may come at any time.          *)
(***************************************************************************)
EXTENDS HostWords

CONSTANTS
  Indices,    \* the records that are used
  Requests,   \* the datagrams a host may send, as sequences of tokens
  GtStates,   \* the GT states a status word may tell of
  UartCases,  \* test cases of the present test program
  CoreCases,  \* test cases of the older one
  Pattern,    \* the pattern words of the test cases
  ULONG_MAX,  \* the largest number strtoul returns
  MAX_TOKENS, \* bound: tokens that fit into LASER_UDP_MAX_PAYLOAD characters
  CONFIG_WAIT_ITERATIONS,
  MaxBoots,   \* bound: starts of a program
  MaxLosses   \* bound: writes to the BRAM that do not arrive

Tokens == [word : STRING, numeric : BOOLEAN, value : Nat]

Records == 0 .. 255   \* of the BRAM: config_index has eight bits

ASSUME FirmwareAssumption ==
  /\ Indices \subseteq Records /\ 0 \in Indices
  /\ Requests \subseteq Seq(Tokens)
  /\ \A r \in Requests : Len(r) > 1 /\ r[2].value \in Records => r[2].value \in Indices
  /\ GtStates \subseteq Statuses
  /\ Pattern \in [1 .. 4 -> Nat]
  /\ ULONG_MAX \in Nat /\ ULONG_MAX >= 65536
  /\ MAX_TOKENS \in Nat /\ MAX_TOKENS >= 14
  /\ CONFIG_WAIT_ITERATIONS \in Nat \ {0, 1}
  /\ MaxBoots \in Nat \ {0} /\ MaxLosses \in Nat

\* The controller's codes all have names in the firmware, but for
\* RATE_WAIT_MMCM_RESET_RELEASE.
ASSUME GtStatesAssumption ==
  \A s \in GtStates : s.state \in NamedStates \cup {11} /\ s.error_code \in NamedErrors

VARIABLES
  app, test_case,   \* the program that runs, and its test
  mode,             \* how far it is, or how it ended
  todo,             \* the calls still to make, in order
  job,              \* what they are about
  polls,            \* of wait_for_config_result
  response,         \* of the datagram in hand
  control,          \* the control word: control_shadow and the GPIO's register
  bram,
  apply_seen, cfg,  \* config_loader: the last flip it took, its verdict
  promised,         \* history: the configurations the host was told are stored
  losses, boots

program == <<app, test_case, mode, todo, job, polls, response>>
vars    == <<program, control, bram, apply_seen, cfg, promised, losses, boots>>

NoResponse == [text |-> "NONE", value |-> <<>>]
Answer(text) == [text |-> text, value |-> <<>>]
-----------------------------------------------------------------------------
(* The test cases *)

Test(seed, repeat, gap, after, order, phase) ==
  Config(seed, repeat, gap, after, order, phase, 0, Pattern)
BaseConfig == Test(90, 4, 0, 0, 6, 0)
UartConfig(c) ==
  CASE c = "PRBS7" -> Test(90, 4, 0, 0, 7, 0)
    [] c = "GAP"   -> Test(90, 4, 8, 2, 6, 0)
    [] c = "INVALID_REPEAT_ZERO"    -> Test(90, 0, 0, 0, 6, 0)
    [] c = "INVALID_PRBS_SEED_ZERO" -> Test(0, 4, 0, 0, 6, 0)
    [] c = "INVALID_INSERT_AFTER"   -> Test(90, 4, 0, 5, 6, 0)
    [] c = "INVALID_PRBS_ORDER"     -> Test(90, 4, 0, 0, 8, 0)
    [] OTHER -> BaseConfig  \* DIRECT63, DIRECT127, PRBS6, DIRECT_MODE_MISMATCH
UartDirect(c) == c \in {"DIRECT63", "DIRECT127"}
UartLen127(c) == c \in {"DIRECT127", "INVALID_DIRECT_MODE_MISMATCH"}

\* laser_test_case_expects_config_error
UartExpects(c) ==
  c \in {"INVALID_REPEAT_ZERO", "INVALID_PRBS_SEED_ZERO", "INVALID_INSERT_AFTER",
         "INVALID_PRBS_ORDER", "INVALID_DIRECT_MODE_MISMATCH"}

CoreConfig(c) ==
  CASE c = "DIRECT63_GAP" -> Test(63, 4, 128, 2, 6, 0)
    [] c = "PRBS6"        -> Test(63, 4, 5, 2, 6, 1)
    [] c = "INVALID"      -> Test(63, 0, 0, 0, 6, 0)
    [] OTHER              -> Test(63, 2, 0, 0, 6, 0)  \* DIRECT63
CoreExpects(c) == c = "INVALID"
CoreDirect(c)  == c \in {"DIRECT63", "DIRECT63_GAP"}

Cases == [UDP_SERVER |-> {"NONE"}, UART_TEST |-> UartCases, CORE_TEST |-> CoreCases]
Expects(a, c) == \/ a = "UART_TEST" /\ UartExpects(c)
                 \/ a = "CORE_TEST" /\ CoreExpects(c)

Job(index, asked, source, len127, id) ==
  [index |-> index, asked |-> asked, source |-> source, len127 |-> len127, rate |-> id]
NoJob == Job(0, BaseConfig, FALSE, FALSE, 0)
JobOf(a, c) ==
  CASE a = "UART_TEST" -> Job(0, UartConfig(c), UartDirect(c), UartLen127(c), 0)
    [] a = "CORE_TEST" -> Job(0, CoreConfig(c), CoreDirect(c), FALSE, 0)
    [] OTHER -> NoJob

-----------------------------------------------------------------------------
(* The programs, as the calls they make *)

laser_init_control_hw == <<"gpio_init", "gt_init", "disable", "reset_on", "reset_off">>
laser_udp_init_control_hw == laser_init_control_hw

laser_udp_server_run == laser_udp_init_control_hw \o <<"netif", "pcb", "receive">>

run_uart_test(c) ==
  laser_init_control_hw \o <<"spi_init", "chip_id", "disable", "reset_on", "reset_off",
                             "write", "verify", "select", "apply", "wait">>
    \o (IF UartExpects(c) THEN <<"pass">> ELSE <<"gt_ready", "enable">>)

run_core_test(c) ==
  <<"gpio_init", "disable", "reset_on", "reset_off",
    "write", "verify", "select", "apply", "wait">>
    \o (IF CoreExpects(c) THEN <<"check_code">> ELSE <<"enable">>)

main(a, c) == CASE a = "UART_TEST" -> run_uart_test(c)
                [] a = "CORE_TEST" -> run_core_test(c)
                [] OTHER           -> laser_udp_server_run

Init ==
  /\ app \in DOMAIN Cases /\ test_case \in Cases[app]
  /\ mode = "starting" /\ todo = main(app, test_case) /\ job = JobOf(app, test_case)
  /\ polls = 0 /\ response = NoResponse
  /\ control = {} /\ bram = [i \in Indices |-> [k \in 0 .. 7 |-> 0]]
  /\ apply_seen = FALSE /\ cfg = [valid |-> FALSE, code |-> 0]
  /\ promised = {} /\ losses = 0 /\ boots = 1

-----------------------------------------------------------------------------
(* Calls *)

Call(f)  == todo # <<>> /\ Head(todo) = f
Return   == todo' = Tail(todo) /\ UNCHANGED <<app, test_case, mode, job, polls, response>>
Exit(how) == /\ todo' = <<>> /\ mode' = how
             /\ UNCHANGED <<app, test_case, job, polls, response>>
Reply(a) == /\ todo' = <<"reply">> /\ response' = a
            /\ UNCHANGED <<app, test_case, mode, job, polls>>
NoIO     == UNCHANGED <<control, bram, apply_seen, cfg, promised, losses, boots>>
WriteControl(w) == /\ control' = w
                   /\ UNCHANGED <<bram, apply_seen, cfg, promised, losses, boots>>

Ports == ControlPorts(control)

\* A load is over 17 cycles after the flip; a soft reset sleeps 20 us, a poll
\* 1 ms, and a datagram takes longer too.
LoaderIdle == apply_seen = (APPLY_TOGGLE \subseteq control)

\* XGpio_Initialize finds the device, or main gives up.
GpioInit ==
  /\ Call("gpio_init")
  /\ \/ Return /\ WriteControl({})
     \/ Exit("failed_gpio") /\ NoIO

GtInit == Call("gt_init") /\ (Return \/ Exit("failed_gt_gpio")) /\ NoIO

\* The five steps of laser_ad9528_spi_init; without them no chip id is read.
SpiInit ==
  /\ Call("spi_init") /\ NoIO
  /\ \/ Return
     \/ /\ todo' = Tail(Tail(todo))
        /\ UNCHANGED <<app, test_case, mode, job, polls, response>>

\* laser_ad9528_basic_check: three reads; the result is printed, not used.
ChipId == Call("chip_id") /\ Return /\ NoIO

Disable  == Call("disable")   /\ Return /\ WriteControl(control \ ENABLE)
ResetOn  == Call("reset_on")  /\ Return /\ WriteControl(control \cup SOFT_RESET)
ResetOff == Call("reset_off") /\ Return /\ WriteControl(control \ SOFT_RESET)

Enable ==
  /\ Call("enable") /\ WriteControl(control \cup ENABLE)
  /\ todo' = Tail(todo)
  /\ mode' = IF mode = "starting" THEN "enabled" ELSE mode
  /\ UNCHANGED <<app, test_case, job, polls, response>>

Select == /\ Call("select") /\ LoaderIdle /\ Return
          /\ WriteControl(Selected(control, Byte(job.index), job.source, job.len127))
Apply  == /\ Call("apply") /\ LoaderIdle /\ Return
          /\ WriteControl(Flipped(control, APPLY_TOGGLE))

\* The request and the wait for the end of the switch, which may be an error.
RateRequest ==
  /\ Call("rate_request") /\ WriteControl(RateRequested(control, job.rate))
  /\ \/ Reply(Answer("OK RATE_SET")) \/ Reply(Answer("ERROR RATE_SET_FAILED"))

\* laser_bram_write_config: eight bus writes, one of which may not arrive.
Write ==
  /\ Call("write") /\ LoaderIdle /\ Return
  /\ LET i == Byte(job.index)
     IN /\ \E lost \in 0 .. 8 :   \* 8: none
             /\ losses + Flag(lost < 8) <= MaxLosses
             /\ bram' = [bram EXCEPT ![i] = [k \in 0 .. 7 |->
                           IF k = lost THEN @[k] ELSE ToWords(Narrow(job.asked))[k]]]
             /\ losses' = losses + Flag(lost < 8)
        /\ promised' = {p \in promised : p[1] # i}
  /\ UNCHANGED <<control, apply_seen, cfg, boots>>

\* laser_bram_verify_config reads the record back.
Verified_FirstWords ==
  \A k \in 0 .. 1 : bram[Byte(job.index)][k] = ToWords(Narrow(job.asked))[k]
Verified == bram[Byte(job.index)] = ToWords(Narrow(job.asked))
Verify ==
  /\ Call("verify") /\ NoIO
  /\ \/ Verified /\ Return
     \/ ~Verified /\ mode = "server" /\ Reply(Answer("ERR WRITE_CONFIG_VERIFY"))
     \/ ~Verified /\ mode # "server" /\ Exit("failed_config")

-----------------------------------------------------------------------------
(* The end of the tests *)

\* wait_for_config_result and, in the older program, wait_for_config: what a
\* status word with these bits means to them.
UartResult_NotValid(c) ==
  CASE UartExpects(c) -> IF cfg.valid THEN "contrary" ELSE "awaited"
    [] cfg.valid /\ cfg.code = 0 -> "awaited"
    [] OTHER -> "none"
UartResult(c) ==
  CASE UartExpects(c) /\ cfg.code # 0  -> "awaited"
    [] UartExpects(c) /\ cfg.valid     -> "contrary"
    [] ~UartExpects(c) /\ cfg.valid /\ cfg.code = 0 -> "awaited"
    [] OTHER -> "none"
CoreResult(c) ==
  IF (IF CoreExpects(c) THEN cfg.code # 0 ELSE cfg.valid /\ cfg.code = 0)
  THEN "awaited" ELSE "none"
PollResult == IF app = "UART_TEST" THEN UartResult(test_case) ELSE CoreResult(test_case)

\* The first poll of the present program may overtake the load; a line of text,
\* or 1 ms, lies between the flip and any other.  A loader that never answers,
\* which the last poll is for, is not in the model.
Wait ==
  /\ Call("wait") /\ NoIO
  /\ LoaderIdle \/ (app = "UART_TEST" /\ polls = 0)
  /\ LET last == polls + 1 = CONFIG_WAIT_ITERATIONS
     IN \/ PollResult = "awaited" /\ Return
        \/ (PollResult = "contrary" \/ (PollResult = "none" /\ last)) /\ Exit("failed_result")
        \/ /\ PollResult = "none" /\ ~last
           /\ polls' = polls + 1
           /\ UNCHANGED <<app, test_case, mode, todo, job, response>>

Pass == Call("pass") /\ NoIO /\ Exit("passed")

\* The older program also looks at error_code and at busy, which no engine
\* shows that was never started.
CheckCode ==
  /\ Call("check_code") /\ NoIO
  /\ \/ cfg.code = 1 /\ Exit("passed")
     \/ (cfg.code # 1 \/ boots > 1) /\ Exit("failed_result")

GtReady == Call("gt_ready") /\ NoIO /\ (Return \/ Exit("failed_gt"))

\* xemac_add; udp_new and udp_bind; udp_recv.
Netif   == Call("netif") /\ NoIO /\ (Return \/ Exit("failed_net"))
Pcb     == Call("pcb") /\ NoIO /\ (Return \/ Exit("failed_net"))
Receive == Call("receive") /\ NoIO /\ Exit("server")

-----------------------------------------------------------------------------
(* The UDP server: copy_udp_payload, the tokens, the commands *)

\* A token; a word stands for every spelling that token_equals takes for it.
Word(w)   == [word |-> w, numeric |-> FALSE, value |-> 0]
Number(n) == [word |-> "", numeric |-> TRUE, value |-> n]

\* What copy_udp_payload keeps of a datagram.
Received(datagram) == SubSeq(datagram, 1, Cut(Len(datagram), MAX_TOKENS))

\* parse_u32_arg, n times from token k on, and then command_has_extra_arg.
Arguments(r, k, n) == Len(r) = k + n - 1 /\ \A j \in k .. Len(r) : r[j].numeric
Argument(token)    == Cut(token.value, ULONG_MAX)

Command(r, w)     == r # <<>> /\ r[1].word = w
RateCommand(r, w) == Command(r, "RATE") /\ Len(r) > 1 /\ r[2].word = w

\* A command answers at once, or makes some calls first.
Respond(a) == Reply(a) /\ NoIO
Start(j, calls, text) ==
  /\ todo' = calls \o <<"reply">> /\ job' = j /\ response' = Answer(text)
  /\ UNCHANGED <<app, test_case, mode, polls>> /\ NoIO

Empty(r)  == r = <<>> /\ Respond(Answer("ERR EMPTY_COMMAND"))
Ping(r)   == Command(r, "PING") /\ Respond(Answer("OK PONG"))
ReadStatus(r)   == Command(r, "READ_STATUS") /\ Respond(Answer("OK STATUS"))
ReadGtStatus(r) == Command(r, "READ_GT_STATUS") /\ Respond(Answer("OK GT_STATUS"))

ApplyCommand(r)  == Command(r, "APPLY") /\ Start(NoJob, <<"apply">>, "OK APPLY")
EnableCommand(r) == Command(r, "ENABLE") /\ Start(NoJob, <<"enable">>, "OK ENABLE")
DisableCommand(r) == Command(r, "DISABLE") /\ Start(NoJob, <<"disable">>, "OK DISABLE")
SoftReset(r) == /\ Command(r, "SOFT_RESET")
                /\ Start(NoJob, <<"reset_on", "reset_off">>, "OK SOFT_RESET")

InRange_Index256(index, c) ==
  /\ index <= 256 /\ c.gap_len_bits <= 255 /\ c.insert_after <= 65535
  /\ c.prbs_order <= 255 /\ c.phase_shift_en <= 1 /\ c.loop_en <= 1
InRange(index, c) ==
  /\ index <= 255 /\ c.gap_len_bits <= 255 /\ c.insert_after <= 65535
  /\ c.prbs_order <= 255 /\ c.phase_shift_en <= 1 /\ c.loop_en <= 1

WriteConfig(r) ==
  /\ Command(r, "WRITE_CONFIG")
  /\ LET a == [k \in 1 .. Len(r) |-> Argument(r[k])]
         c == Config(a[3], a[4], a[5], a[6], a[7], a[8], a[9],
                     [k \in 1 .. 4 |-> a[k + 9]])
     IN \/ ~Arguments(r, 2, 12) /\ Respond(Answer("ERR WRITE_CONFIG_ARGS"))
        \/ /\ Arguments(r, 2, 12) /\ ~InRange(a[2], c)
           /\ Respond(Answer("ERR WRITE_CONFIG_RANGE"))
        \/ /\ Arguments(r, 2, 12) /\ InRange(a[2], c)
           /\ Start(Job(a[2], c, FALSE, FALSE, 0),
                    <<"write", "verify">>, "OK WRITE_CONFIG")

SelectConfig(r) ==
  /\ Command(r, "SELECT_CONFIG")
  /\ LET a == [k \in 1 .. Len(r) |-> Argument(r[k])]
         ok == a[2] <= 255 /\ a[3] <= 1 /\ a[4] <= 1
     IN \/ ~Arguments(r, 2, 3) /\ Respond(Answer("ERR SELECT_CONFIG_ARGS"))
        \/ Arguments(r, 2, 3) /\ ~ok /\ Respond(Answer("ERR SELECT_CONFIG_RANGE"))
        \/ /\ Arguments(r, 2, 3) /\ ok
           /\ Start(Job(a[2], BaseConfig, a[3] # 0, a[4] # 0, 0), <<"select">>, "OK SELECT_CONFIG")

\* What the answer to RATE STATUS says of a status word.
StatusText(w) ==
  [ current_rate |-> MbpsOfId(w.rate_id), rate_state |-> Named(w.state, NamedStates),
    error_code |-> Named(w.error_code, NamedErrors), gt_written |-> w.gt_written,
    mmcm_written |-> w.mmcm_written, ready |-> w.ready ]

RateStatus(r) ==
  /\ RateCommand(r, "STATUS")
  /\ \/ Len(r) > 2 /\ Respond(Answer("ERR RATE_STATUS_ARGS"))
     \/ Len(r) = 2 /\ \E s \in GtStates :
          Respond([text |-> "OK RATE_STATUS",
                   value |-> <<StatusText(GtStatusRead(GtStatusOut(s))), s>>])

RatePlan(r) ==
  /\ RateCommand(r, "PLAN")
  /\ \/ ~Arguments(r, 3, 1) /\ Respond(Answer("ERR RATE_PLAN_ARGS"))
     \/ /\ Arguments(r, 3, 1) /\ Argument(r[3]) \notin Planned
        /\ Respond(Answer("ERROR unsupported_rate"))
     \/ /\ Arguments(r, 3, 1) /\ Argument(r[3]) \in Planned
        /\ Respond([text |-> "OK RATE_PLAN", value |-> <<Plan(Argument(r[3]))>>])

\* The wait for an idle engine is its outcome here.
RateSet(r) ==
  /\ RateCommand(r, "SET")
  /\ \/ ~Arguments(r, 3, 1) /\ Respond(Answer("ERR RATE_SET_ARGS"))
     \/ /\ Arguments(r, 3, 1)
        /\ Argument(r[3]) \notin Planned \/ IdOfMbps(Argument(r[3])) = 0
        /\ Respond(Answer("ERROR unsupported_rate"))
     \/ /\ Arguments(r, 3, 1) /\ Argument(r[3]) \in Planned
        /\ \E s \in GtStates, idle \in BOOLEAN :
             LET w  == GtStatusRead(GtStatusOut(s))
                 id == IdOfMbps(Argument(r[3]))
             IN \/ w.rate_id = id /\ Respond(Answer("OK RATE_SET already_current_rate"))
                \/ /\ w.rate_id # id /\ (~idle \/ w.busy \/ ~w.ready)
                   /\ Respond(Answer("ERROR RATE_SET_FAILED"))
                \/ /\ w.rate_id # id /\ idle /\ ~w.busy /\ w.ready
                   /\ Start(Job(0, BaseConfig, FALSE, FALSE, id), <<"rate_request">>, "NONE")

RateOther(r) ==
  /\ Command(r, "RATE") /\ ~\E w \in {"STATUS", "PLAN", "SET"} : RateCommand(r, w)
  /\ Respond(Answer("ERR RATE_COMMAND"))
Unknown(r) ==
  /\ r # <<>>
  /\ r[1].word \notin {"PING", "READ_STATUS", "READ_GT_STATUS", "RATE", "WRITE_CONFIG",
                       "SELECT_CONFIG", "APPLY", "ENABLE", "DISABLE", "SOFT_RESET"}
  /\ Respond(Answer("ERR UNKNOWN_COMMAND"))

handle_udp_command(r) ==
  \/ Empty(r) \/ Ping(r) \/ ReadStatus(r) \/ ReadGtStatus(r) \/ ApplyCommand(r)
  \/ EnableCommand(r) \/ DisableCommand(r) \/ SoftReset(r) \/ WriteConfig(r)
  \/ SelectConfig(r) \/ RateStatus(r) \/ RatePlan(r) \/ RateSet(r) \/ RateOther(r)
  \/ Unknown(r)

\* laser_udp_recv: the callback ends with send_udp_response, which sends
\* nothing if there is no buffer or the stack refuses.
Datagram ==
  /\ mode = "server" /\ todo = <<>> /\ LoaderIdle
  /\ \E datagram \in Requests : handle_udp_command(Received(datagram))
SendResponse ==
  /\ Call("reply") /\ todo' = <<>> /\ job' = NoJob /\ response' = NoResponse
  /\ promised' = IF response.text = "OK WRITE_CONFIG"
                 THEN promised \cup {<<job.index, job.asked>>} ELSE promised
  /\ UNCHANGED <<app, test_case, mode, polls, control, bram, apply_seen, cfg, losses, boots>>

-----------------------------------------------------------------------------
(* The FPGA, a restart, the specification *)

\* config_loader takes a flip: reads the record that is selected, judges it.
Load ==
  /\ ~LoaderIdle
  /\ apply_seen' = ~apply_seen
  /\ LET code == LoadError(bram[Index(Ports.config_index)])
     IN cfg' = [valid |-> code = 0, code |-> code]
  /\ UNCHANGED <<program, control, bram, promised, losses, boots>>

\* The processor starts over, with this program or another, at any point; the
\* FPGA keeps its state.
Restart ==
  /\ boots < MaxBoots /\ boots' = boots + 1
  /\ \E a \in DOMAIN Cases : \E c \in Cases[a] :
       /\ app' = a /\ test_case' = c /\ todo' = main(a, c) /\ job' = JobOf(a, c)
  /\ mode' = "starting" /\ polls' = 0 /\ response' = NoResponse
  /\ UNCHANGED <<control, bram, apply_seen, cfg, promised, losses>>

Next ==
  \/ GpioInit \/ GtInit \/ SpiInit \/ ChipId \/ Disable \/ ResetOn \/ ResetOff
  \/ Enable \/ Select \/ Apply \/ RateRequest \/ Write \/ Verify \/ Wait \/ Pass
  \/ CheckCode \/ GtReady \/ Netif \/ Pcb \/ Receive \/ Datagram \/ SendResponse
  \/ Load \/ Restart

Spec == Init /\ [][Next]_vars

-----------------------------------------------------------------------------
(* Properties *)

Calls == {"gpio_init", "gt_init", "disable", "reset_on", "reset_off", "spi_init",
          "chip_id", "write", "verify", "select", "apply", "wait", "pass", "check_code",
          "gt_ready", "enable", "netif", "pcb", "receive", "rate_request", "reply"}

\* Every variable has its type; every promise is about a record that exists.
TypeOK ==
  /\ app \in DOMAIN Cases /\ test_case \in Cases[app]
  /\ mode \in {"starting", "enabled", "passed", "server", "failed_gpio", "failed_gt_gpio",
              "failed_config", "failed_result", "failed_gt", "failed_net"}
  /\ todo \in Seq(Calls)
  /\ job \in [index : Records, asked : Configs, source : BOOLEAN, len127 : BOOLEAN, rate : 0 .. 2]
  /\ polls \in 0 .. CONFIG_WAIT_ITERATIONS - 1
  /\ control \subseteq 0 .. 15
  /\ bram \in [Indices -> [0 .. 7 -> Nat]]
  /\ apply_seen \in BOOLEAN /\ cfg \in [valid : BOOLEAN, code : 0 .. 3]
  /\ promised \subseteq Records \X Configs
  /\ losses \in 0 .. MaxLosses /\ boots \in 1 .. MaxBoots

\* The control word is one register behind eight signals, and every call reads,
\* changes and writes all of it: yet to the FPGA the calls are operations on
\* single signals, none of them within a soft reset.
Port == INSTANCE ControlPort WITH
  config_index <- Ports.config_index, source_sel <- Ports.source_sel,
  direct_len_sel <- Ports.direct_len_sel, apply_toggle <- Ports.apply_toggle,
  enable <- Ports.enable, soft_reset <- Ports.soft_reset, rate_id <- Ports.rate_id,
  rate_req_toggle <- Ports.rate_req_toggle,
  store <- [i \in Indices |-> FromWords(bram[i])]
ImplementsPort == Port!Spec

\* What WRITE_CONFIG said it stored is what the loader would read, number for
\* number as the host sent them: no cast, packing or lost write may come
\* between, and no other request may touch the record.
OkMeansStored ==
  \A p \in promised : p[1] \in Indices /\ FromWords(bram[p[1]]) = p[2]

\* A test enables the transmitter only as its last step, with its record in the
\* BRAM and accepted; every way it can end without that leaves it disabled.
\* A GPIO that cannot be opened is the exception: nothing can be disabled then.
Initialised == todo = <<>> \/ Head(todo) # "gpio_init"
EnabledIsChecked ==
  /\ app # "UDP_SERVER" /\ mode # "failed_gpio" /\ Initialised
  /\ ENABLE \subseteq control
  => /\ mode = "enabled"
     /\ bram[0] = ToWords(JobOf(app, test_case).asked)
     /\ cfg.valid /\ cfg.code = 0 /\ ~Expects(app, test_case)

\* On a board that has just been configured a test passes only if the loader
\* refuses its record, and reports an unexpected result exactly when the loader
\* and the test's expectation disagree.
ColdVerdict ==
  boots = 1 =>
    /\ mode = "passed" => LoadError(bram[0]) # 0
    /\ mode = "failed_result" => (LoadError(bram[0]) = 0) = Expects(app, test_case)

\* What the host reads is so.  A status tells the state the GT was in, but for
\* the one state that has no name; the figures of a plan multiply out from the
\* reference clock to the line rate and to the clocks of the core.
StatusTrue(t, s) ==
  /\ t.current_rate = 500 * s.rate_id /\ t.ready = s.ready
  /\ t.rate_state = IF s.state = 11 THEN 255 ELSE s.state
  /\ t.error_code = s.error_code
  /\ t.gt_written = s.gt_written /\ t.mmcm_written = s.mmcm_written
PlanTrue(p) ==
  /\ (2 * p.refclk * p.cpll_n1 * p.cpll_n2) \div (p.cpll_m * p.txout_div) = 10000 * p.target
  /\ 32 * p.txusrclk = 10000 * p.target /\ p.txoutclk = p.txusrclk
  /\ p.txusrclk = 2 * p.txusrclk2
AnswersAreTrue ==
  /\ response.text = "OK RATE_STATUS" => StatusTrue(response.value[1], response.value[2])
  /\ response.text = "OK RATE_PLAN" => PlanTrue(response.value[1])
=============================================================================
