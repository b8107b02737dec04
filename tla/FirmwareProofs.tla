---------------------------- MODULE FirmwareProofs ----------------------------
(***************************************************************************)
(* What holds of the programs of Firmware for every set of requests, of    *)
(* test cases and of GT states, and for any number of restarts and of      *)
(* writes that do not arrive.                                              *)
(***************************************************************************)
EXTENDS Firmware, HostWordsProofs, SequenceTheorems

Jobs == [index : Records, asked : Configs, source : BOOLEAN, len127 : BOOLEAN, rate : 0 .. 2]

-----------------------------------------------------------------------------
(* The lists of calls *)

\* What comes in pairs stays together, and a program is initialised once.
Orderly(s) ==
  \A k \in 1 .. Len(s) :
    /\ s[k] = "reset_on" => k < Len(s) /\ s[k + 1] = "reset_off"
    /\ s[k] = "spi_init" => k < Len(s) /\ s[k + 1] = "chip_id"
    /\ s[k] = "write" => k < Len(s) /\ s[k + 1] = "verify"
    /\ s[k] = "gpio_init" => k = 1

\* A test loads the record it has verified, and enables the transmitter last.
Testing(s, expects) ==
  \A k \in 1 .. Len(s) :
    /\ s[k] = "verify" => /\ k + 3 <= Len(s)
                          /\ s[k + 1] = "select" /\ s[k + 2] = "apply" /\ s[k + 3] = "wait"
    /\ s[k] = "enable" => k = Len(s) /\ ~expects
    /\ s[k] \notin {"rate_request", "reply", "receive"}

\* The server neither waits for the loader's verdict nor judges it.
Serving(s) == \A k \in 1 .. Len(s) : s[k] \notin {"wait", "pass", "check_code"}

LEMMA TailOfList ==
  ASSUME NEW s \in Seq(Calls), s # <<>>
  PROVE  /\ Tail(s) \in Seq(Calls) /\ Len(Tail(s)) = Len(s) - 1 /\ Len(s) \in Nat \ {0}
         /\ \A k \in 1 .. Len(Tail(s)) : Tail(s)[k] = s[k + 1]
         /\ Head(s) = s[1] /\ Head(s) \in Calls
OBVIOUS

LEMMA TailOrder ==
  ASSUME NEW s \in Seq(Calls), s # <<>>, NEW expects
  PROVE  /\ Orderly(s) => Orderly(Tail(s))
         /\ Testing(s, expects) => Testing(Tail(s), expects)
         /\ Serving(s) => Serving(Tail(s))
<1>1. Orderly(s) => Orderly(Tail(s))
  BY TailOfList DEF Orderly
<1>2. Testing(s, expects) => Testing(Tail(s), expects)
  BY TailOfList DEF Testing
<1>3. Serving(s) => Serving(Tail(s))
  BY TailOfList DEF Serving
<1> QED  BY <1>1, <1>2, <1>3

LEMMA ServerList ==
  /\ laser_udp_server_run \in Seq(Calls) /\ laser_udp_server_run # <<>>
  /\ Head(laser_udp_server_run) = "gpio_init" /\ Orderly(laser_udp_server_run)
  /\ \A k \in 1 .. Len(laser_udp_server_run) : laser_udp_server_run[k] \notin {"rate_request", "reply"}
  /\ Serving(laser_udp_server_run)
BY DEF laser_udp_server_run, laser_udp_init_control_hw, laser_init_control_hw, Calls, Orderly, Serving

LEMMA UartList ==
  ASSUME NEW c
  PROVE  /\ run_uart_test(c) \in Seq(Calls) /\ run_uart_test(c) # <<>>
         /\ Head(run_uart_test(c)) = "gpio_init" /\ Orderly(run_uart_test(c))
         /\ Testing(run_uart_test(c), UartExpects(c))
<1>1. CASE UartExpects(c)
  BY <1>1 DEF run_uart_test, laser_init_control_hw, Calls, Orderly, Testing
<1>2. CASE ~UartExpects(c)
  BY <1>2 DEF run_uart_test, laser_init_control_hw, Calls, Orderly, Testing
<1> QED  BY <1>1, <1>2

LEMMA CoreList ==
  ASSUME NEW c
  PROVE  /\ run_core_test(c) \in Seq(Calls) /\ run_core_test(c) # <<>>
         /\ Head(run_core_test(c)) = "gpio_init" /\ Orderly(run_core_test(c))
         /\ Testing(run_core_test(c), CoreExpects(c))
<1>1. CASE CoreExpects(c)
  BY <1>1 DEF run_core_test, Calls, Orderly, Testing
<1>2. CASE ~CoreExpects(c)
  BY <1>2 DEF run_core_test, Calls, Orderly, Testing
<1> QED  BY <1>1, <1>2

-----------------------------------------------------------------------------
(* What the programs are asked for *)

\* The configurations of the test cases: those that the loader takes, and all.
SoundTests ==
  { BaseConfig, Test(90, 4, 0, 0, 7, 0), Test(90, 4, 8, 2, 6, 0), Test(63, 2, 0, 0, 6, 0),
    Test(63, 4, 128, 2, 6, 0), Test(63, 4, 5, 2, 6, 1) }
AllTests ==
  SoundTests \cup { Test(90, 0, 0, 0, 6, 0), Test(0, 4, 0, 0, 6, 0), Test(90, 4, 0, 5, 6, 0),
                    Test(90, 4, 0, 0, 8, 0), Test(63, 0, 0, 0, 6, 0) }

LEMMA TestConfigs ==
  /\ \A c \in AllTests : c \in Configs /\ Narrow(c) = c
  /\ \A c \in SoundTests : LoadError(ToWords(c)) = 0
<1>1. \A c \in AllTests : c \in Configs
  BY FirmwareAssumption DEF AllTests, SoundTests, BaseConfig, Test, Config, Configs
<1>2. \A c \in AllTests : Fits(c)
  BY DEF AllTests, SoundTests, BaseConfig, Test, Config, Fits
<1>3. \A c \in AllTests : Narrow(c) = c /\ FromWords(ToWords(c)) = c
  BY <1>1, <1>2, NarrowKeeps, RoundTrip
<1>4. \A c \in SoundTests :
        c.repeat_cycles # 0 /\ c.prbs_order \in {6, 7} /\ ~(c.insert_after > c.repeat_cycles)
  BY DEF SoundTests, BaseConfig, Test, Config
<1>5. \A c \in SoundTests : c \in AllTests
  BY DEF AllTests
<1>6. ASSUME NEW c \in SoundTests PROVE LoadError(ToWords(c)) = 0
  BY <1>3, <1>4, <1>5 DEF LoadError
<1> QED  BY <1>1, <1>3, <1>6

\* A record that a test does not expect to be refused is one that the loader
\* takes.
LEMMA TestRecords ==
  ASSUME NEW a, NEW c
  PROVE  /\ JobOf(a, c) \in Jobs /\ JobOf(a, c).index = 0
         /\ Narrow(JobOf(a, c).asked) = JobOf(a, c).asked
         /\ a \in {"UART_TEST", "CORE_TEST"} /\ ~Expects(a, c) =>
              LoadError(ToWords(JobOf(a, c).asked)) = 0
<1>1. /\ JobOf(a, c).asked \in AllTests
      /\ a \in {"UART_TEST", "CORE_TEST"} /\ ~Expects(a, c) => JobOf(a, c).asked \in SoundTests
  <2>1. CASE a = "UART_TEST"
    BY <2>1 DEF JobOf, Job, UartConfig, AllTests, SoundTests, Expects, UartExpects
  <2>2. CASE a = "CORE_TEST"
    BY <2>2 DEF JobOf, Job, CoreConfig, AllTests, SoundTests, Expects, CoreExpects
  <2>3. CASE a \notin {"UART_TEST", "CORE_TEST"}
    BY <2>3 DEF JobOf, NoJob, Job, AllTests, SoundTests
  <2> QED  BY <2>1, <2>2, <2>3
<1>2. JobOf(a, c).asked \in Configs
  BY <1>1, TestConfigs
<1>3. JobOf(a, c) \in Jobs /\ JobOf(a, c).index = 0
  BY <1>2 DEF JobOf, NoJob, Job, Jobs, Records, UartDirect, UartLen127, CoreDirect
<1> QED  BY <1>1, <1>3, TestConfigs

LEMMA NoJobType == NoJob \in Jobs /\ NoJob.index = 0 /\ BaseConfig \in Configs
BY TestConfigs DEF AllTests, SoundTests, NoJob, Job, Jobs, Records

LEMMA ReceivedType ==
  ASSUME NEW d \in Requests
  PROVE  /\ Received(d) \in Seq(Tokens)
         /\ Len(Received(d)) > 1 /\ Received(d)[2].value \in Records =>
              Received(d)[2].value \in Indices
<1> DEFINE m == Cut(Len(d), MAX_TOKENS)
<1>1. d \in Seq(Tokens) /\ Len(d) \in Nat /\ MAX_TOKENS \in Nat /\ MAX_TOKENS >= 14
  BY FirmwareAssumption
<1>2. m \in Nat /\ m <= Len(d)
  BY <1>1 DEF Cut
<1>3. \A k \in 1 .. m : d[k] \in Tokens
  BY <1>1, <1>2
<1> HIDE DEF m
<1>4. /\ SubSeq(d, 1, m) \in Seq(Tokens)
      /\ Len(SubSeq(d, 1, m)) = IF 1 <= m THEN m - 1 + 1 ELSE 0
      /\ \A k \in 1 .. m - 1 + 1 : SubSeq(d, 1, m)[k] = d[1 + k - 1]
  BY <1>2, <1>3, SubSeqProperties
<1>5. Len(SubSeq(d, 1, m)) > 1 => Len(d) > 1 /\ SubSeq(d, 1, m)[2] = d[2]
  BY <1>1, <1>2, <1>4
<1> QED  BY <1>4, <1>5, FirmwareAssumption DEF Received, m

-----------------------------------------------------------------------------
(* The commands of the server *)

\* What the lists that the commands leave to be done have in common.
Proper(s) ==
  s \in Seq(Calls) /\ s # <<>> /\ Head(s) # "gpio_init" /\ Orderly(s) /\ Serving(s)

\* What every command does in its first step: it only decides which calls
\* follow, and with which arguments.
CommandDecides ==
  /\ NoIO /\ UNCHANGED <<app, test_case, mode, polls>>
  /\ Proper(todo')
  /\ job \in Jobs => job' \in Jobs
  /\ \A k \in 1 .. Len(todo') : todo'[k] = "rate_request" => job'.rate \in {1, 2}
  /\ response'.text = "OK WRITE_CONFIG" =>
       /\ Len(todo') = 3 /\ todo'[1] = "write" /\ todo'[2] = "verify" /\ todo'[3] = "reply"
       /\ job'.index \in Indices /\ job'.asked \in Configs /\ Fits(job'.asked)

LEMMA ArgumentType ==
  ASSUME NEW token \in Tokens
  PROVE  /\ Argument(token) \in Nat
         /\ Argument(token) <= 255 => Argument(token) = token.value
BY FirmwareAssumption DEF Argument, Cut, Tokens

\* Lists of one, two and three elements, as the prover needs them.
LEMMA List1 ==
  ASSUME NEW C, NEW a \in C
  PROVE  LET s == <<a>>
         IN s \in Seq(C) /\ s # <<>> /\ Len(s) = 1 /\ s[1] = a /\ Head(s) = a
OBVIOUS

LEMMA List2 ==
  ASSUME NEW C, NEW a \in C, NEW b \in C
  PROVE  LET s == <<a>> \o <<b>>
         IN s \in Seq(C) /\ s # <<>> /\ Len(s) = 2 /\ s[1] = a /\ s[2] = b /\ Head(s) = a
OBVIOUS

LEMMA List3 ==
  ASSUME NEW C, NEW a \in C, NEW b \in C, NEW c \in C
  PROVE  LET s == <<a, b>> \o <<c>>
         IN /\ s \in Seq(C) /\ s # <<>> /\ Len(s) = 3
            /\ s[1] = a /\ s[2] = b /\ s[3] = c /\ Head(s) = a
OBVIOUS

LEMMA ReplyList ==
  LET s == <<"reply">>
  IN Proper(s) /\ \A k \in 1 .. Len(s) : s[k] # "rate_request"
<1> DEFINE s == <<"reply">>
<1>1. "reply" \in Calls
  BY DEF Calls
<1>2. s \in Seq(Calls) /\ s # <<>> /\ Len(s) = 1 /\ s[1] = "reply" /\ Head(s) = "reply"
  BY <1>1, List1
<1> HIDE DEF s
<1>3. Orderly(s) /\ Serving(s) /\ \A k \in 1 .. Len(s) : s[k] # "rate_request"
  BY <1>2 DEF Orderly, Serving
<1>4. Proper(s)
  BY <1>2, <1>3 DEF Proper
<1> QED  BY <1>3, <1>4 DEF s

LEMMA OneList ==
  ASSUME NEW f \in {"apply", "enable", "disable", "select", "rate_request"}
  PROVE  LET s == <<f>> \o <<"reply">>
         IN Proper(s) /\ \A k \in 1 .. Len(s) : s[k] = "rate_request" => f = "rate_request"
<1> DEFINE s == <<f>> \o <<"reply">>
<1>1. f \in Calls /\ "reply" \in Calls
  BY DEF Calls
<1>2. f \notin {"gpio_init", "reset_on", "spi_init", "write", "wait", "pass", "check_code"}
  OBVIOUS
<1>3. s \in Seq(Calls) /\ s # <<>> /\ Len(s) = 2 /\ s[1] = f /\ s[2] = "reply" /\ Head(s) = f
  BY <1>1, List2
<1> HIDE DEF s
<1>4. Orderly(s) /\ Serving(s)
  BY <1>2, <1>3 DEF Orderly, Serving
<1>5. \A k \in 1 .. Len(s) : s[k] = "rate_request" => f = "rate_request"
  BY <1>3
<1>6. Proper(s)
  BY <1>2, <1>3, <1>4 DEF Proper
<1> QED  BY <1>5, <1>6 DEF s

LEMMA TwoList ==
  ASSUME NEW f, NEW g, (f = "reset_on" /\ g = "reset_off") \/ (f = "write" /\ g = "verify")
  PROVE  LET s == <<f, g>> \o <<"reply">>
         IN /\ Proper(s) /\ \A k \in 1 .. Len(s) : s[k] # "rate_request"
            /\ Len(s) = 3 /\ s[1] = f /\ s[2] = g /\ s[3] = "reply"
<1> DEFINE s == <<f, g>> \o <<"reply">>
<1>1. f \in Calls /\ g \in Calls /\ "reply" \in Calls
  BY DEF Calls
<1>3. /\ s \in Seq(Calls) /\ s # <<>> /\ Len(s) = 3 /\ Head(s) = f
      /\ s[1] = f /\ s[2] = g /\ s[3] = "reply"
  BY <1>1, List3
<1> HIDE DEF s
<1>4. Orderly(s) /\ Serving(s)
  BY <1>3 DEF Orderly, Serving
<1>5. \A k \in 1 .. Len(s) : s[k] # "rate_request"
  BY <1>3
<1>6. Proper(s)
  BY <1>3, <1>4 DEF Proper
<1> QED  BY <1>3, <1>5, <1>6 DEF s

LEMMA RespondStep ==
  ASSUME NEW a, Respond(a), a.text # "OK WRITE_CONFIG"
  PROVE  CommandDecides
<1>1. todo' = <<"reply">> /\ response' = a /\ job' = job
  BY DEF Respond, Reply
<1>2. Proper(todo') /\ \A k \in 1 .. Len(todo') : todo'[k] # "rate_request"
  BY ONLY <1>1, ReplyList
<1> QED  BY <1>1, <1>2 DEF Respond, Reply, CommandDecides

LEMMA AnswerStep ==
  ASSUME NEW text, Respond(Answer(text)), text # "OK WRITE_CONFIG"
  PROVE  CommandDecides
BY RespondStep DEF Answer

LEMMA StartStep ==
  ASSUME NEW j \in Jobs, NEW text, text # "OK WRITE_CONFIG",
         NEW f \in {"apply", "enable", "disable", "select", "rate_request"},
         f = "rate_request" => j.rate \in {1, 2},
         Start(j, <<f>>, text)
  PROVE  CommandDecides
<1>1. todo' = <<f>> \o <<"reply">> /\ job' = j /\ response'.text = text
  BY DEF Start, Answer
<1>2. Proper(todo') /\ \A k \in 1 .. Len(todo') : todo'[k] = "rate_request" => f = "rate_request"
  BY <1>1, OneList
<1> QED  BY <1>1, <1>2 DEF Start, CommandDecides

LEMMA ResetStep ==
  ASSUME NEW text, text # "OK WRITE_CONFIG", Start(NoJob, <<"reset_on", "reset_off">>, text)
  PROVE  CommandDecides
<1>1. /\ todo' = <<"reset_on", "reset_off">> \o <<"reply">>
      /\ job' = NoJob /\ response'.text = text
  BY DEF Start, Answer
<1>2. Proper(todo') /\ \A k \in 1 .. Len(todo') : todo'[k] # "rate_request"
  BY ONLY <1>1, TwoList
<1> QED  BY <1>1, <1>2, NoJobType DEF Start, CommandDecides

LEMMA WriteStep ==
  ASSUME NEW i \in Indices, NEW c \in Configs, Fits(c),
         Start(Job(i, c, FALSE, FALSE, 0), <<"write", "verify">>, "OK WRITE_CONFIG")
  PROVE  CommandDecides
<1>1. /\ todo' = <<"write", "verify">> \o <<"reply">>
      /\ job' = Job(i, c, FALSE, FALSE, 0)
  BY DEF Start
<1>2. /\ Proper(todo') /\ \A k \in 1 .. Len(todo') : todo'[k] # "rate_request"
      /\ Len(todo') = 3 /\ todo'[1] = "write" /\ todo'[2] = "verify" /\ todo'[3] = "reply"
  BY ONLY <1>1, TwoList
<1>0. i \in Records
  BY ONLY FirmwareAssumption, i \in Indices
<1>3. Job(i, c, FALSE, FALSE, 0) \in Jobs
  BY ONLY <1>0, c \in Configs DEF Job, Jobs
<1>4. job' \in Jobs /\ job'.index = i /\ job'.asked = c
  BY <1>1, <1>3 DEF Job
<1> QED  BY <1>2, <1>4 DEF Start, CommandDecides

\* The arguments of a command with n of them from token k on.
LEMMA ArgumentsType ==
  ASSUME NEW d \in Requests, NEW n \in Nat, Arguments(Received(d), 2, n)
  PROVE  /\ Len(Received(d)) = n + 1
         /\ \A k \in 1 .. n + 1 : Received(d)[k] \in Tokens /\ Argument(Received(d)[k]) \in Nat
         /\ n > 0 /\ Argument(Received(d)[2]) <= 255 =>
              Argument(Received(d)[2]) \in Indices
<1> DEFINE r == Received(d)
<1>1. /\ r \in Seq(Tokens) /\ Len(r) = n + 1
      /\ Len(r) > 1 /\ r[2].value \in Records => r[2].value \in Indices
  BY ReceivedType DEF Arguments
<1>2. \A k \in 1 .. n + 1 : r[k] \in Tokens
  BY <1>1
<1> HIDE DEF r
<1>3. \A k \in 1 .. n + 1 : Argument(r[k]) \in Nat
  BY <1>2, ArgumentType
<1>4. ASSUME n > 0, Argument(r[2]) <= 255 PROVE Argument(r[2]) \in Indices
  <2>1. r[2] \in Tokens
    BY <1>2, <1>4
  <2>2. Argument(r[2]) = r[2].value /\ Argument(r[2]) \in Nat
    BY <1>4, <2>1, ArgumentType
  <2>3. r[2].value \in Records
    BY <1>4, <2>2 DEF Records
  <2> QED  BY <1>1, <1>4, <2>2, <2>3
<1> QED  BY <1>1, <1>2, <1>3, <1>4 DEF r

LEMMA InRangeFits ==
  ASSUME NEW i, NEW c, InRange(i, c)
  PROVE  i <= 255 /\ Fits(c)
BY DEF InRange, Fits

LEMMA WriteConfigStep ==
  ASSUME NEW d \in Requests, WriteConfig(Received(d))
  PROVE  CommandDecides
<1> DEFINE r == Received(d)
           a == [k \in 1 .. Len(r) |-> Argument(r[k])]
           c == Config(a[3], a[4], a[5], a[6], a[7], a[8], a[9], [k \in 1 .. 4 |-> a[k + 9]])
<1>1. \/ Respond(Answer("ERR WRITE_CONFIG_ARGS"))
      \/ Respond(Answer("ERR WRITE_CONFIG_RANGE"))
      \/ /\ Arguments(r, 2, 12) /\ InRange(a[2], c)
         /\ Start(Job(a[2], c, FALSE, FALSE, 0), <<"write", "verify">>, "OK WRITE_CONFIG")
  BY DEF WriteConfig
<1>2. ASSUME Arguments(r, 2, 12), InRange(a[2], c),
             Start(Job(a[2], c, FALSE, FALSE, 0), <<"write", "verify">>, "OK WRITE_CONFIG")
      PROVE  CommandDecides
  <2>1. Arguments(Received(d), 2, 12)
    BY <1>2
  <2>2. /\ Len(r) = 13 /\ \A k \in 1 .. 13 : Argument(r[k]) \in Nat
        /\ Argument(r[2]) <= 255 => Argument(r[2]) \in Indices
    BY ONLY <2>1, d \in Requests, 12 \in Nat, 12 > 0, 12 + 1 = 13, ArgumentsType DEF r
  <2> HIDE DEF r
  <2>3. \A k \in 1 .. 13 : a[k] = Argument(r[k])
    BY <2>2
  <2>4. \A k \in 1 .. 13 : a[k] \in Nat
    BY <2>2, <2>3
  <2> HIDE DEF a
  <2>5. c \in Configs
    BY <2>4 DEF Config, Configs
  <2> HIDE DEF c
  <2>6. a[2] <= 255 /\ Fits(c)
    BY <1>2, InRangeFits
  <2>7. a[2] \in Indices
    BY <2>2, <2>3, <2>6
  <2> QED  BY <1>2, <2>5, <2>6, <2>7, WriteStep
<1> QED  BY <1>1, <1>2, AnswerStep

LEMMA SelectConfigStep ==
  ASSUME NEW d \in Requests, SelectConfig(Received(d))
  PROVE  CommandDecides
<1> DEFINE r == Received(d)
           a == [k \in 1 .. Len(r) |-> Argument(r[k])]
           j == Job(a[2], BaseConfig, a[3] # 0, a[4] # 0, 0)
<1>1. \/ Respond(Answer("ERR SELECT_CONFIG_ARGS"))
      \/ Respond(Answer("ERR SELECT_CONFIG_RANGE"))
      \/ /\ Arguments(r, 2, 3) /\ a[2] <= 255
         /\ Start(j, <<"select">>, "OK SELECT_CONFIG")
  BY DEF SelectConfig
<1>2. ASSUME Arguments(r, 2, 3), a[2] <= 255, Start(j, <<"select">>, "OK SELECT_CONFIG")
      PROVE  CommandDecides
  <2>1. Arguments(Received(d), 2, 3)
    BY <1>2
  <2>2. /\ Len(r) = 4 /\ \A k \in 1 .. 4 : Argument(r[k]) \in Nat
        /\ Argument(r[2]) <= 255 => Argument(r[2]) \in Indices
    BY ONLY <2>1, d \in Requests, 3 \in Nat, 3 > 0, 3 + 1 = 4, ArgumentsType DEF r
  <2> HIDE DEF r
  <2>3. a[2] = Argument(r[2])
    BY <2>2
  <2> HIDE DEF a
  <2>4. a[2] \in Indices
    BY <1>2, <2>2, <2>3
  <2>5. a[2] \in Records
    BY <2>4, FirmwareAssumption
  <2>6. j \in Jobs
    BY <2>5, NoJobType DEF Job, Jobs
  <2> HIDE DEF j
  <2> QED  BY <1>2, <2>6, StartStep
<1> QED  BY <1>1, <1>2, AnswerStep

LEMMA RateSetStep ==
  ASSUME NEW r, RateSet(r)
  PROVE  CommandDecides
<1> DEFINE id == IdOfMbps(Argument(r[3]))
           j == Job(0, BaseConfig, FALSE, FALSE, id)
<1>1. CASE Argument(r[3]) \in Planned /\ Start(j, <<"rate_request">>, "NONE")
  <2>1. id \in {1, 2}
    BY <1>1 DEF Planned, IdOfMbps
  <2>2. j \in Jobs /\ j.rate \in {1, 2}
    BY <2>1, NoJobType DEF Job, Jobs, Records
  <2> HIDE DEF j
  <2> QED  BY <1>1, <2>2, StartStep
<1> QED  BY <1>1, AnswerStep DEF RateSet

LEMMA RateStatusStep ==
  ASSUME NEW r, RateStatus(r)
  PROVE  CommandDecides
<1>1. CASE Respond(Answer("ERR RATE_STATUS_ARGS"))
  BY <1>1, AnswerStep
<1>2. ASSUME NEW v, Respond([text |-> "OK RATE_STATUS", value |-> v]) PROVE CommandDecides
  BY <1>2, RespondStep
<1> QED  BY <1>1, <1>2 DEF RateStatus

LEMMA RatePlanStep ==
  ASSUME NEW r, RatePlan(r)
  PROVE  CommandDecides
<1>1. ASSUME NEW v, Respond([text |-> "OK RATE_PLAN", value |-> v]) PROVE CommandDecides
  BY <1>1, RespondStep
<1> QED  BY <1>1, AnswerStep DEF RatePlan

LEMMA CommandStep ==
  ASSUME NEW d \in Requests, handle_udp_command(Received(d))
  PROVE  CommandDecides
<1> DEFINE r == Received(d)
<1>1. CASE Empty(r) \/ Ping(r) \/ ReadStatus(r) \/ ReadGtStatus(r) \/ RateOther(r) \/ Unknown(r)
  BY <1>1, AnswerStep DEF Empty, Ping, ReadStatus, ReadGtStatus, RateOther, Unknown
<1>2. CASE ApplyCommand(r) \/ EnableCommand(r) \/ DisableCommand(r)
  BY <1>2, StartStep, NoJobType DEF ApplyCommand, EnableCommand, DisableCommand
<1>3. CASE SoftReset(r)
  BY <1>3, ResetStep DEF SoftReset
<1>4. CASE RateStatus(r) \/ RatePlan(r) \/ RateSet(r)
  BY <1>4, RateStatusStep, RatePlanStep, RateSetStep
<1> QED  BY <1>1, <1>2, <1>3, <1>4, WriteConfigStep, SelectConfigStep DEF handle_udp_command

-----------------------------------------------------------------------------
(* The programs keep to their lists *)

LEMMA Programs == DOMAIN Cases = {"UDP_SERVER", "UART_TEST", "CORE_TEST"}
BY DEF Cases

LEMMA MainList ==
  ASSUME NEW a \in DOMAIN Cases, NEW c
  PROVE  /\ main(a, c) \in Seq(Calls) /\ main(a, c) # <<>>
         /\ Head(main(a, c)) = "gpio_init" /\ Orderly(main(a, c))
         /\ a # "UDP_SERVER" => Testing(main(a, c), Expects(a, c))
         /\ a = "UDP_SERVER" => Serving(main(a, c))
         /\ \A k \in 1 .. Len(main(a, c)) : main(a, c)[k] \notin {"rate_request", "reply"}
<1>1. CASE a = "UART_TEST"
  <2>1. main(a, c) = run_uart_test(c) /\ (Expects(a, c) <=> UartExpects(c))
    BY <1>1 DEF main, Expects
  <2>2. Testing(run_uart_test(c), UartExpects(c)) => Testing(main(a, c), Expects(a, c))
    BY <2>1 DEF Testing
  <2> QED  BY <1>1, <2>1, <2>2, UartList DEF Testing
<1>2. CASE a = "CORE_TEST"
  <2>1. main(a, c) = run_core_test(c) /\ (Expects(a, c) <=> CoreExpects(c))
    BY <1>2 DEF main, Expects
  <2>2. Testing(run_core_test(c), CoreExpects(c)) => Testing(main(a, c), Expects(a, c))
    BY <2>1 DEF Testing
  <2> QED  BY <1>2, <2>1, <2>2, CoreList DEF Testing
<1>3. CASE a = "UDP_SERVER"
  <2>1. main(a, c) = laser_udp_server_run
    BY <1>3 DEF main
  <2> QED  BY <1>3, <2>1, ServerList
<1> QED  BY <1>1, <1>2, <1>3, Programs

\* What is left to do is the end of a proper list, and only the server is
\* asked for anything but its own test.
ListInv ==
  /\ app \in DOMAIN Cases /\ test_case \in Cases[app] /\ job \in Jobs
  /\ todo \in Seq(Calls) /\ Orderly(todo)
  /\ mode = "server" => app = "UDP_SERVER"
  /\ app # "UDP_SERVER" => /\ Testing(todo, Expects(app, test_case))
                           /\ job = JobOf(app, test_case)
  /\ app = "UDP_SERVER" => Serving(todo)
  /\ \A k \in 1 .. Len(todo) : todo[k] = "rate_request" => job.rate \in {1, 2}

LEMMA ListInit == ASSUME Init PROVE ListInv
<1>1. app \in DOMAIN Cases /\ todo = main(app, test_case) /\ job = JobOf(app, test_case)
  BY DEF Init
<1>2. job \in Jobs
  BY <1>1, TestRecords
<1> QED  BY <1>1, <1>2, MainList DEF Init, ListInv

LEMMA ListRestart == ASSUME Restart PROVE ListInv'
<1>1. PICK a \in DOMAIN Cases : \E c \in Cases[a] :
        app' = a /\ test_case' = c /\ todo' = main(a, c) /\ job' = JobOf(a, c)
  BY DEF Restart
<1>2. PICK c \in Cases[a] :
        app' = a /\ test_case' = c /\ todo' = main(a, c) /\ job' = JobOf(a, c)
  BY <1>1
<1>3. JobOf(a, c) \in Jobs
  BY TestRecords
<1> QED  BY <1>2, <1>3, MainList DEF Restart, ListInv

LEMMA ListTail ==
  ASSUME ListInv, todo # <<>>, todo' = Tail(todo), UNCHANGED <<app, test_case, job>>,
         mode' = "server" => mode = "server"
  PROVE  ListInv'
<1>1. /\ Tail(todo) \in Seq(Calls) /\ Orderly(Tail(todo))
      /\ app # "UDP_SERVER" => Testing(Tail(todo), Expects(app, test_case))
      /\ app = "UDP_SERVER" => Serving(Tail(todo))
  BY TailOfList, TailOrder DEF ListInv
<1>2. \A k \in 1 .. Len(Tail(todo)) : Tail(todo)[k] = "rate_request" => job.rate \in {1, 2}
  BY TailOfList DEF ListInv
<1> QED  BY <1>1, <1>2 DEF ListInv

LEMMA ListStop ==
  ASSUME ListInv, todo' = <<>>, UNCHANGED <<app, test_case>>, job' \in Jobs,
         mode' = "server" => app = "UDP_SERVER", job' = job \/ app = "UDP_SERVER"
  PROVE  ListInv'
<1>1. /\ <<>> \in Seq(Calls) /\ Orderly(<<>>) /\ Testing(<<>>, Expects(app, test_case))
      /\ Len(<<>>) = 0 /\ Serving(<<>>)
  BY DEF Orderly, Testing, Serving
<1> QED  BY <1>1 DEF ListInv

LEMMA ListReply ==
  ASSUME ListInv, app = "UDP_SERVER", UNCHANGED <<app, test_case, job>>, todo' = <<"reply">>
  PROVE  ListInv'
<1>1. Proper(<<"reply">>) /\ \A k \in 1 .. Len(<<"reply">>) : <<"reply">>[k] # "rate_request"
  BY ReplyList
<1> QED  BY <1>1 DEF ListInv, Proper

LEMMA HeadOfList ==
  ASSUME ListInv, todo # <<>>
  PROVE  /\ todo[1] = Head(todo) /\ 1 \in 1 .. Len(todo)
         /\ Head(todo) \in {"rate_request", "reply", "receive"} => app = "UDP_SERVER"
         /\ Head(todo) = "rate_request" => job.rate \in {1, 2}
<1>1. todo[1] = Head(todo) /\ 1 \in 1 .. Len(todo)
  BY TailOfList DEF ListInv
<1> QED  BY <1>1 DEF ListInv, Testing

LEMMA ListSpiInit == ASSUME ListInv, SpiInit PROVE ListInv'
<1>1. todo # <<>> /\ UNCHANGED <<app, test_case, mode, job>>
  BY DEF SpiInit, Call, Return
<1>2. CASE todo' = Tail(todo)
  BY <1>1, <1>2, ListTail
<1>3. CASE todo' = Tail(Tail(todo)) /\ Head(todo) = "spi_init"
  <2>1. Len(todo) > 1
    BY <1>1, <1>3, HeadOfList DEF ListInv, Orderly
  <2>2. Tail(todo) \in Seq(Calls) /\ Len(Tail(todo)) = Len(todo) - 1 /\ Len(todo) \in Nat
    BY <1>1, TailOfList DEF ListInv
  <2>3. Len(Tail(todo)) # 0
    BY <2>2, <2>1
  <2>4. Tail(todo) \in Seq(Calls) /\ Tail(todo) # <<>>
    BY <2>2, <2>3, EmptySeq
  <2>5. /\ Orderly(Tail(todo))
        /\ app # "UDP_SERVER" => Testing(Tail(todo), Expects(app, test_case))
        /\ app = "UDP_SERVER" => Serving(Tail(todo))
    BY <1>1, TailOrder DEF ListInv
  <2>6. /\ Tail(Tail(todo)) \in Seq(Calls) /\ Orderly(Tail(Tail(todo)))
        /\ app # "UDP_SERVER" => Testing(Tail(Tail(todo)), Expects(app, test_case))
        /\ app = "UDP_SERVER" => Serving(Tail(Tail(todo)))
    BY <2>4, <2>5, TailOfList, TailOrder
  <2>7. ASSUME NEW k \in 1 .. Len(Tail(Tail(todo))), Tail(Tail(todo))[k] = "rate_request"
        PROVE  job.rate \in {1, 2}
    <3>1. todo \in Seq(Calls)
      BY DEF ListInv
    <3>2. /\ Len(Tail(todo)) = Len(todo) - 1 /\ Len(todo) \in Nat
          /\ \A n \in 1 .. Len(Tail(todo)) : Tail(todo)[n] = todo[n + 1]
      BY <1>1, TailOfList DEF ListInv
    <3>3. /\ Len(Tail(Tail(todo))) = Len(Tail(todo)) - 1
          /\ \A n \in 1 .. Len(Tail(Tail(todo))) : Tail(Tail(todo))[n] = Tail(todo)[n + 1]
      BY <2>4, TailOfList
    <3>4. k + 1 \in 1 .. Len(Tail(todo)) /\ Tail(todo)[k + 1] = "rate_request"
      BY <2>7, <3>2, <3>3
    <3>5. (k + 1) + 1 \in 1 .. Len(todo) /\ todo[(k + 1) + 1] = "rate_request"
      BY <3>2, <3>4
    <3> QED  BY <3>5 DEF ListInv
  <2> QED  BY <1>1, <1>3, <2>6, <2>7 DEF ListInv
<1> QED  BY <1>2, <1>3 DEF SpiInit, Return, Call

LEMMA ListDatagram == ASSUME ListInv, Datagram PROVE ListInv'
<1>1. PICK d \in Requests : handle_udp_command(Received(d))
  BY DEF Datagram
<1>2. CommandDecides /\ mode = "server"
  BY <1>1, CommandStep DEF Datagram
<1> QED  BY <1>2 DEF CommandDecides, Proper, ListInv

LEMMA ListStep == ASSUME ListInv, [Next]_vars PROVE ListInv'
<1>1. CASE GpioInit \/ GtInit \/ GtReady \/ Netif \/ Pcb
  <2>1. /\ todo # <<>> /\ UNCHANGED <<app, test_case, job>> /\ (mode' = "server" => mode = "server")
        /\ todo' = Tail(todo) \/ todo' = <<>>
    BY <1>1 DEF GpioInit, GtInit, GtReady, Netif, Pcb, Call, Return, Exit
  <2> QED  BY <2>1, ListTail, ListStop DEF ListInv
<1>2. CASE ChipId \/ Disable \/ ResetOn \/ ResetOff \/ Enable \/ Select \/ Apply \/ Write
  <2>1. /\ todo # <<>> /\ UNCHANGED <<app, test_case, job>> /\ (mode' = "server" => mode = "server")
        /\ todo' = Tail(todo)
    BY <1>2 DEF ChipId, Disable, ResetOn, ResetOff, Enable, Select, Apply, Write, Call, Return
  <2> QED  BY <2>1, ListTail
<1>3. CASE Pass \/ CheckCode
  <2>1. /\ todo' = <<>> /\ UNCHANGED <<app, test_case, job>> /\ (mode' = "server" => mode = "server")
    BY <1>3 DEF Pass, CheckCode, Exit
  <2> QED  BY <2>1, ListStop DEF ListInv
<1>4. CASE Receive
  <2>1. todo # <<>> /\ Head(todo) = "receive" /\ todo' = <<>> /\ UNCHANGED <<app, test_case, job>>
    BY <1>4 DEF Receive, Call, Exit
  <2>2. app = "UDP_SERVER"
    BY <2>1, HeadOfList
  <2> QED  BY <2>1, <2>2, ListStop DEF ListInv
<1>5. CASE RateRequest
  <2>1. /\ todo # <<>> /\ Head(todo) = "rate_request" /\ todo' = <<"reply">>
        /\ UNCHANGED <<app, test_case, job>>
    BY <1>5 DEF RateRequest, Call, Reply
  <2> QED  BY <2>1, HeadOfList, ListReply
<1>6. CASE Verify
  <2>1. CASE todo # <<>> /\ todo' = Tail(todo) /\ UNCHANGED <<app, test_case, mode, job>>
    BY <2>1, ListTail
  <2>2. CASE mode = "server" /\ todo' = <<"reply">> /\ UNCHANGED <<app, test_case, mode, job>>
    BY <2>2, ListReply DEF ListInv
  <2>3. CASE todo' = <<>> /\ mode' = "failed_config" /\ UNCHANGED <<app, test_case, job>>
    BY <2>3, ListStop DEF ListInv
  <2> QED  BY <1>6, <2>1, <2>2, <2>3 DEF Verify, Call, Return, Reply, Exit
<1>7. CASE Wait
  <2>1. CASE todo # <<>> /\ todo' = Tail(todo) /\ UNCHANGED <<app, test_case, mode, job>>
    BY <2>1, ListTail
  <2>2. CASE todo' = <<>> /\ mode' = "failed_result" /\ UNCHANGED <<app, test_case, job>>
    BY <2>2, ListStop DEF ListInv
  <2>3. CASE UNCHANGED <<app, test_case, mode, todo, job>>
    BY <2>3 DEF ListInv
  <2> QED  BY <1>7, <2>1, <2>2, <2>3 DEF Wait, Call, Return, Exit
<1>8. CASE SendResponse
  <2>1. todo # <<>> /\ Head(todo) = "reply" /\ todo' = <<>> /\ job' = NoJob
    BY <1>8 DEF SendResponse, Call
  <2>2. app = "UDP_SERVER"
    BY <2>1, HeadOfList
  <2>3. UNCHANGED <<app, test_case>>
    BY <1>8 DEF SendResponse
  <2> QED  BY <2>1, <2>2, <2>3, NoJobType, ListStop DEF ListInv
<1>9. CASE Load \/ UNCHANGED vars
  <2>1. UNCHANGED <<app, test_case, mode, todo, job>>
    BY <1>9 DEF Load, program, vars
  <2> QED  BY <2>1 DEF ListInv
<1> QED  BY <1>1, <1>2, <1>3, <1>4, <1>5, <1>6, <1>7, <1>8, <1>9,
            ListSpiInit, ListDatagram, ListRestart DEF Next

-----------------------------------------------------------------------------
(* Types *)

Modes == {"starting", "enabled", "passed", "server", "failed_gpio", "failed_gt_gpio",
          "failed_config", "failed_result", "failed_gt", "failed_net"}

ProgramType == mode \in Modes /\ polls \in 0 .. CONFIG_WAIT_ITERATIONS - 1

DeviceType ==
  /\ control \subseteq 0 .. 15
  /\ bram \in [Indices -> [0 .. 7 -> Nat]]
  /\ apply_seen \in BOOLEAN /\ cfg \in [valid : BOOLEAN, code : 0 .. 3]
  /\ promised \subseteq Records \X Configs
  /\ losses \in 0 .. MaxLosses /\ boots \in 1 .. MaxBoots

LEMMA TypeParts == ASSUME ListInv, ProgramType, DeviceType PROVE TypeOK
BY DEF ListInv, ProgramType, DeviceType, TypeOK, Modes, Jobs

\* The actions that only the program takes part in.
Internal == GtInit \/ SpiInit \/ ChipId \/ Verify \/ Wait \/ Pass \/ CheckCode
              \/ GtReady \/ Netif \/ Pcb \/ Receive \/ Datagram

LEMMA InternalStep == ASSUME Internal PROVE NoIO
<1>1. CASE Datagram
  <2>1. PICK d \in Requests : handle_udp_command(Received(d))
    BY <1>1 DEF Datagram
  <2> QED  BY <2>1, CommandStep DEF CommandDecides
<1> QED  BY <1>1 DEF Internal, GtInit, SpiInit, ChipId, Verify, Wait, Pass, CheckCode,
            GtReady, Netif, Pcb, Receive

LEMMA ProgramTypeStep == ASSUME ProgramType, [Next]_vars PROVE ProgramType'
<1> USE DEF ProgramType
<1>1. CASE GpioInit \/ GtInit \/ GtReady \/ Netif \/ Pcb \/ Receive \/ Pass \/ CheckCode
  BY <1>1 DEF GpioInit, GtInit, GtReady, Netif, Pcb, Receive, Pass, CheckCode,
     Return, Exit, Modes
<1>2. CASE ChipId \/ Disable \/ ResetOn \/ ResetOff \/ Select \/ Apply \/ Write \/ SpiInit
  BY <1>2 DEF ChipId, Disable, ResetOn, ResetOff, Select, Apply, Write, SpiInit, Return
<1>3. CASE Enable
  BY <1>3 DEF Enable, Modes
<1>4. CASE RateRequest \/ SendResponse \/ Load \/ UNCHANGED vars
  BY <1>4 DEF RateRequest, SendResponse, Load, Reply, vars, program
<1>5. CASE Verify
  BY <1>5 DEF Verify, Return, Reply, Exit, Modes
<1>6. CASE Wait
  BY <1>6, FirmwareAssumption DEF Wait, Return, Exit, Modes
<1>7. CASE Restart
  BY <1>7, FirmwareAssumption DEF Restart, Modes
<1>8. CASE Datagram
  <2>1. PICK d \in Requests : handle_udp_command(Received(d))
    BY <1>8 DEF Datagram
  <2> QED  BY <2>1, CommandStep DEF CommandDecides
<1> QED  BY <1>1, <1>2, <1>3, <1>4, <1>5, <1>6, <1>7, <1>8 DEF Next

LEMMA ControlType ==
  ASSUME NEW w, w \subseteq 0 .. 15
  PROVE  /\ w \ ENABLE \subseteq 0 .. 15 /\ w \cup ENABLE \subseteq 0 .. 15
         /\ w \ SOFT_RESET \subseteq 0 .. 15 /\ w \cup SOFT_RESET \subseteq 0 .. 15
         /\ Flipped(w, APPLY_TOGGLE) \subseteq 0 .. 15
         /\ \A index, source, len127 : Selected(w, index, source, len127) \subseteq 0 .. 15
         /\ \A id : RateRequested(w, id) \subseteq 0 .. 15
<1>1. /\ w \ ENABLE \subseteq 0 .. 15 /\ w \cup ENABLE \subseteq 0 .. 15
      /\ w \ SOFT_RESET \subseteq 0 .. 15 /\ w \cup SOFT_RESET \subseteq 0 .. 15
      /\ Flipped(w, APPLY_TOGGLE) \subseteq 0 .. 15
  BY DEF ENABLE, SOFT_RESET, Flipped, APPLY_TOGGLE
<1>2. ASSUME NEW index, NEW source, NEW len127
      PROVE  Selected(w, index, source, len127) \subseteq 0 .. 15
  <2>1. \A k \in Bits(index) : k \in 0 .. 15
    BY BitsType DEF INDEX_MASK
  <2>2. \A k \in Selected(w, index, source, len127) :
          k \in w \/ k \in Bits(index) \/ k = 11 \/ k = 12
    BY DEF Selected, DIRECT_SOURCE, DIRECT_LEN_127
  <2>3. 11 \in 0 .. 15 /\ 12 \in 0 .. 15
    OBVIOUS
  <2>4. ASSUME NEW k \in Selected(w, index, source, len127) PROVE k \in 0 .. 15
    <3>1. CASE k \in w \/ k \in Bits(index)
      BY <2>1, <3>1
    <3>2. CASE k = 11 \/ k = 12
      BY <2>3, <3>2
    <3> QED  BY <2>2, <3>1, <3>2
  <2> QED  BY <2>4
<1>3. ASSUME NEW id PROVE RateRequested(w, id) \subseteq 0 .. 15
  <2>1. \A k \in RateRequested(w, id) :
          k \in w \/ k \in {j + 13 : j \in Bits(id) \cap {0, 1}} \/ k = 15
    BY DEF RateRequested, Flipped, RATE_REQ_TOGGLE
  <2>2. \A k \in {j + 13 : j \in Bits(id) \cap {0, 1}} : k = 13 \/ k = 14
    OBVIOUS
  <2>3. 13 \in 0 .. 15 /\ 14 \in 0 .. 15 /\ 15 \in 0 .. 15
    OBVIOUS
  <2>4. ASSUME NEW k \in RateRequested(w, id) PROVE k \in 0 .. 15
    <3>1. CASE k \in w
      BY <3>1
    <3>2. CASE k = 13 \/ k = 14 \/ k = 15
      BY <2>3, <3>2
    <3> QED  BY <2>1, <2>2, <3>1, <3>2
  <2> QED  BY <2>4
<1> QED  BY <1>1, <1>2, <1>3

\* Every action that changes the control word changes nothing else outside the
\* program.
LEMMA ControlStep ==
  ASSUME control \subseteq 0 .. 15,
         GpioInit \/ Disable \/ ResetOn \/ ResetOff \/ Enable \/ Select \/ Apply \/ RateRequest
  PROVE  control' \subseteq 0 .. 15 /\ UNCHANGED <<bram, apply_seen, cfg, promised, losses, boots>>
<1>1. CASE GpioInit
  BY <1>1 DEF GpioInit, WriteControl, NoIO
<1>2. CASE Disable \/ ResetOn \/ ResetOff \/ Enable
  BY <1>2, ControlType DEF Disable, ResetOn, ResetOff, Enable, WriteControl
<1>3. CASE Select \/ Apply \/ RateRequest
  BY <1>3, ControlType DEF Select, Apply, RateRequest, WriteControl
<1> QED  BY <1>1, <1>2, <1>3

\* The record that a write leaves behind, and the others.
LEMMA WriteRecord ==
  ASSUME Write, job \in Jobs, bram \in [Indices -> [0 .. 7 -> Nat]]
  PROVE  /\ bram' \in [Indices -> [0 .. 7 -> Nat]]
         /\ \A i \in Indices : i # Byte(job.index) => bram'[i] = bram[i]
<1> DEFINE i == Byte(job.index)
           w == ToWords(Narrow(job.asked))
<1>1. w \in [0 .. 7 -> Nat]
  BY NarrowType, WordsType DEF Jobs
<1>2. PICK lost \in 0 .. 8 :
        bram' = [bram EXCEPT ![i] = [k \in 0 .. 7 |-> IF k = lost THEN @[k] ELSE w[k]]]
  BY DEF Write
<1> HIDE DEF i, w
<1>3. ASSUME i \in Indices
      PROVE  [k \in 0 .. 7 |-> IF k = lost THEN bram[i][k] ELSE w[k]] \in [0 .. 7 -> Nat]
  BY <1>1, <1>3
<1>4. bram' \in [Indices -> [0 .. 7 -> Nat]]
  BY <1>2, <1>3
<1>5. \A j \in Indices : j # i => bram'[j] = bram[j]
  BY <1>2
<1> QED  BY <1>4, <1>5 DEF i, w

LEMMA DeviceTypeStep == ASSUME ListInv, DeviceType, [Next]_vars PROVE DeviceType'
<1>1. CASE Internal \/ UNCHANGED vars
  <2>1. UNCHANGED <<control, bram, apply_seen, cfg, promised, losses, boots>>
    BY <1>1, InternalStep DEF NoIO, vars
  <2> QED  BY <2>1 DEF DeviceType
<1>2. CASE GpioInit \/ Disable \/ ResetOn \/ ResetOff \/ Enable \/ Select \/ Apply \/ RateRequest
  BY <1>2, ControlStep DEF DeviceType
<1>3. CASE Write
  <2>1. PICK lost \in 0 .. 8 :
          losses + Flag(lost < 8) <= MaxLosses /\ losses' = losses + Flag(lost < 8)
    BY <1>3 DEF Write
  <2>2. losses' \in 0 .. MaxLosses
    BY <2>1, FirmwareAssumption DEF DeviceType, Flag
  <2>3. bram' \in [Indices -> [0 .. 7 -> Nat]]
    BY <1>3, WriteRecord DEF ListInv, DeviceType
  <2>4. promised' \subseteq promised /\ UNCHANGED <<control, apply_seen, cfg, boots>>
    BY <1>3 DEF Write
  <2> QED  BY <2>2, <2>3, <2>4 DEF DeviceType
<1>4. CASE SendResponse
  <2>1. <<job.index, job.asked>> \in Records \X Configs
    BY DEF ListInv, Jobs
  <2>2. /\ promised' = promised \/ promised' = promised \cup {<<job.index, job.asked>>}
        /\ UNCHANGED <<control, bram, apply_seen, cfg, losses, boots>>
    BY <1>4 DEF SendResponse
  <2> QED  BY <2>1, <2>2 DEF DeviceType
<1>5. CASE Load
  <2>1. PICK n : LoadError(bram[n]) \in 0 .. 3 /\
          cfg' = [valid |-> LoadError(bram[n]) = 0, code |-> LoadError(bram[n])]
    BY <1>5 DEF Load, LoadError
  <2>2. cfg' \in [valid : BOOLEAN, code : 0 .. 3]
    BY <2>1
  <2>3. apply_seen' \in BOOLEAN /\ UNCHANGED <<control, bram, promised, losses, boots>>
    BY <1>5 DEF Load
  <2> QED  BY <2>2, <2>3 DEF DeviceType
<1>6. CASE Restart
  BY <1>6, FirmwareAssumption DEF Restart, DeviceType
<1> QED  BY <1>1, <1>2, <1>3, <1>4, <1>5, <1>6 DEF Next, Internal

LEMMA TypeInit == ASSUME Init PROVE ProgramType /\ DeviceType
<1>1. ProgramType
  BY FirmwareAssumption DEF Init, ProgramType, Modes
<1>2. bram \in [Indices -> [0 .. 7 -> Nat]]
  BY DEF Init
<1>3. /\ control \subseteq 0 .. 15 /\ apply_seen \in BOOLEAN
      /\ cfg \in [valid : BOOLEAN, code : 0 .. 3]
  <2>1. control = {} /\ apply_seen = FALSE /\ cfg = [valid |-> FALSE, code |-> 0]
    BY DEF Init
  <2>2. [valid |-> FALSE, code |-> 0] \in [valid : BOOLEAN, code : 0 .. 3]
    OBVIOUS
  <2> QED  BY ONLY <2>1, <2>2
<1>4. promised \subseteq Records \X Configs
  BY DEF Init
<1>5. losses \in 0 .. MaxLosses /\ boots \in 1 .. MaxBoots
  BY FirmwareAssumption DEF Init
<1> QED  BY <1>1, <1>2, <1>3, <1>4, <1>5 DEF DeviceType

\* Every variable has its type: the list of calls never runs out of its tails,
\* and no promise is made about a record that does not exist.
THEOREM TypeCorrect == Spec => []TypeOK
<1> DEFINE Inv == ListInv /\ ProgramType /\ DeviceType
<1>1. Init => Inv
  BY ListInit, TypeInit
<1>2. Inv /\ [Next]_vars => Inv'
  BY ListStep, ProgramTypeStep, DeviceTypeStep
<1>3. Inv => TypeOK
  BY TypeParts
<1> QED  BY <1>1, <1>2, <1>3, PTL DEF Spec

-----------------------------------------------------------------------------
(* What WRITE_CONFIG promises *)

Promising == response.text = "OK WRITE_CONFIG"

\* While the answer that promises a record is in hand, the record is still to be
\* verified or is what it should be.
Storing ==
  /\ mode = "server" /\ job.index \in Indices /\ Fits(job.asked)
  /\ \/ Len(todo) = 3 /\ todo[1] = "write" /\ todo[2] = "verify" /\ todo[3] = "reply"
     \/ Len(todo) = 2 /\ todo[1] = "verify" /\ todo[2] = "reply"
     \/ Len(todo) = 1 /\ todo[1] = "reply" /\ Verified
StoredInv == Promising => Storing

LEMMA PromiseHeads ==
  ASSUME ListInv, StoredInv, Promising
  PROVE  /\ todo # <<>> /\ Head(todo) \in {"write", "verify", "reply"} /\ mode = "server"
         /\ Head(todo) = "write" => Len(todo) = 3 /\ todo[2] = "verify" /\ todo[3] = "reply"
         /\ Head(todo) = "verify" => Len(todo) = 2 /\ todo[2] = "reply"
         /\ Head(todo) = "reply" => Verified
<1>1. Storing /\ todo \in Seq(Calls)
  BY DEF StoredInv, ListInv
<1>2. todo # <<>>
  BY <1>1, EmptySeq DEF Storing
<1>3. Head(todo) = todo[1]
  BY <1>1, <1>2, TailOfList
<1> QED  BY <1>1, <1>2, <1>3 DEF Storing

\* Calls that are no part of a WRITE_CONFIG are made while nothing is promised.
LEMMA OtherCalls ==
  ASSUME ListInv, StoredInv,
         \/ GpioInit \/ GtInit \/ SpiInit \/ ChipId \/ Disable \/ ResetOn \/ ResetOff
         \/ Enable \/ Select \/ Apply \/ RateRequest \/ Wait \/ Pass \/ CheckCode
         \/ GtReady \/ Netif \/ Pcb \/ Receive
  PROVE  ~Promising' /\ UNCHANGED <<bram, promised>>
<1>1. todo # <<>> /\ Head(todo) \notin {"write", "verify", "reply"}
  BY DEF GpioInit, GtInit, SpiInit, ChipId, Disable, ResetOn, ResetOff, Enable, Select, Apply,
     RateRequest, Wait, Pass, CheckCode, GtReady, Netif, Pcb, Receive, Call
<1>2. ~Promising
  BY <1>1, PromiseHeads
<1>3. CASE RateRequest
  <2>1. /\ response' = Answer("OK RATE_SET") \/ response' = Answer("ERROR RATE_SET_FAILED")
        /\ UNCHANGED <<bram, promised>>
    BY <1>3 DEF RateRequest, Reply, WriteControl
  <2>2. /\ Answer("OK RATE_SET").text # "OK WRITE_CONFIG"
        /\ Answer("ERROR RATE_SET_FAILED").text # "OK WRITE_CONFIG"
    BY DEF Answer
  <2> QED  BY <2>1, <2>2 DEF Promising
<1>4. CASE UNCHANGED response /\ UNCHANGED <<bram, promised>>
  BY <1>2, <1>4 DEF Promising
<1>5. CASE GtInit \/ SpiInit \/ ChipId \/ Wait \/ Pass \/ CheckCode \/ GtReady \/ Netif
             \/ Pcb \/ Receive
  <2>1. UNCHANGED <<bram, promised>>
    BY <1>5, InternalStep DEF Internal, NoIO
  <2>2. UNCHANGED response
    BY <1>5 DEF GtInit, SpiInit, ChipId, Wait, Pass, CheckCode, GtReady, Netif, Pcb, Receive,
       Return, Exit
  <2> QED  BY <1>4, <2>1, <2>2
<1>6. CASE GpioInit \/ Disable \/ ResetOn \/ ResetOff \/ Enable \/ Select \/ Apply
  <2>1. UNCHANGED <<bram, promised, response>>
    BY <1>6 DEF GpioInit, Disable, ResetOn, ResetOff, Enable, Select, Apply, WriteControl, NoIO,
       Return, Exit
  <2> QED  BY <1>4, <2>1
<1> QED  BY <1>3, <1>5, <1>6

LEMMA StoredVerify == ASSUME ListInv, StoredInv, Verify PROVE StoredInv' /\ UNCHANGED <<bram, promised>>
<1>1. todo # <<>> /\ Head(todo) = "verify" /\ UNCHANGED <<bram, promised>>
  BY DEF Verify, Call, NoIO
<1>2. CASE Verified /\ Return
  <2>1. SUFFICES ASSUME Promising PROVE Storing'
    BY <1>1, <1>2 DEF Return, StoredInv, Promising
  <2>2. Storing /\ Len(todo) = 2 /\ todo[2] = "reply" /\ todo \in Seq(Calls)
    BY <1>1, <2>1, PromiseHeads DEF StoredInv, ListInv
  <2>3. Len(todo') = 1 /\ todo'[1] = "reply"
    <3>1. Len(Tail(todo)) = Len(todo) - 1 /\ \A k \in 1 .. Len(Tail(todo)) : Tail(todo)[k] = todo[k + 1]
      BY <1>1, <2>2, TailOfList
    <3>2. 1 \in 1 .. Len(Tail(todo)) /\ 1 + 1 = 2 /\ Len(Tail(todo)) = 1
      BY <2>2, <3>1
    <3>3. Tail(todo)[1] = "reply"
      BY <2>2, <3>1, <3>2
    <3> QED  BY <1>2, <3>2, <3>3 DEF Return
  <2>4. Verified'
    BY <1>1, <1>2 DEF Verified, Return
  <2> QED  BY <1>2, <2>2, <2>3, <2>4 DEF Storing, Return
<1>3. CASE ~Verified /\ mode = "server" /\ Reply(Answer("ERR WRITE_CONFIG_VERIFY"))
  <2>1. response' = Answer("ERR WRITE_CONFIG_VERIFY")
    BY <1>3 DEF Reply
  <2>2. Answer("ERR WRITE_CONFIG_VERIFY").text # "OK WRITE_CONFIG"
    BY DEF Answer
  <2> QED  BY <1>1, <2>1, <2>2 DEF StoredInv, Promising
<1>4. CASE mode # "server" /\ Exit("failed_config")
  BY <1>1, <1>4, PromiseHeads DEF StoredInv, Promising, Exit
<1> QED  BY <1>1, <1>2, <1>3, <1>4 DEF Verify

LEMMA StoredOthers ==
  ASSUME ListInv, StoredInv, Datagram \/ Restart \/ Load \/ UNCHANGED vars
  PROVE  StoredInv' /\ UNCHANGED <<bram, promised>>
<1>1. CASE Datagram
  <2>1. PICK d \in Requests : handle_udp_command(Received(d))
    BY <1>1 DEF Datagram
  <2>2. CommandDecides /\ mode = "server"
    BY <1>1, <2>1, CommandStep DEF Datagram
  <2>3. UNCHANGED <<bram, promised, mode>>
    BY <2>2 DEF CommandDecides, NoIO
  <2>4. Promising' => /\ Len(todo') = 3 /\ todo'[1] = "write" /\ todo'[2] = "verify"
                      /\ todo'[3] = "reply" /\ job'.index \in Indices /\ Fits(job'.asked)
    BY <2>2 DEF CommandDecides, Promising
  <2> QED  BY <2>2, <2>3, <2>4 DEF StoredInv, Storing
<1>2. CASE Restart
  <2>1. response' = NoResponse /\ NoResponse.text # "OK WRITE_CONFIG" /\ UNCHANGED <<bram, promised>>
    BY <1>2 DEF Restart, NoResponse
  <2> QED  BY <2>1 DEF StoredInv, Promising
<1>3. CASE Load \/ UNCHANGED vars
  <2>1. UNCHANGED <<mode, todo, job, response, bram, promised>>
    BY <1>3 DEF Load, vars, program
  <2> QED  BY <2>1 DEF StoredInv, Promising, Storing, Verified
<1> QED  BY <1>1, <1>2, <1>3

LEMMA StoredWrite ==
  ASSUME ListInv, StoredInv, Write
  PROVE  StoredInv'
<1>1. todo # <<>> /\ Head(todo) = "write" /\ Return
  BY DEF Write, Call
<1>2. SUFFICES ASSUME Promising PROVE Storing'
  BY <1>1 DEF Return, StoredInv, Promising
<1>3. /\ Storing /\ Len(todo) = 3 /\ todo[2] = "verify" /\ todo[3] = "reply"
      /\ todo \in Seq(Calls)
  BY <1>1, <1>2, PromiseHeads DEF StoredInv, ListInv
<1>4. Len(Tail(todo)) = Len(todo) - 1 /\ \A k \in 1 .. Len(Tail(todo)) : Tail(todo)[k] = todo[k + 1]
  BY <1>1, <1>3, TailOfList
<1>5. Len(Tail(todo)) = 2
  BY <1>3, <1>4
<1>6. Tail(todo)[1] = "verify" /\ Tail(todo)[2] = "reply"
  <2>1. 1 \in 1 .. 2 /\ 2 \in 1 .. 2 /\ 1 + 1 = 2 /\ 2 + 1 = 3
    OBVIOUS
  <2>2. Tail(todo)[1] = todo[1 + 1] /\ Tail(todo)[2] = todo[2 + 1]
    BY <1>4, <1>5, <2>1
  <2> QED  BY <1>3, <2>1, <2>2
<1> QED  BY <1>1, <1>3, <1>5, <1>6 DEF Storing, Return

\* A record that a test or the server has verified is read by the loader as the
\* host sent it.
LEMMA VerifiedRecord ==
  ASSUME ListInv, Verified, job.index \in Indices, Fits(job.asked)
  PROVE  FromWords(bram[job.index]) = job.asked
<1>1. job.index \in Nat /\ job.index <= 255 /\ job.asked \in Configs
  <2>1. job.index \in Records /\ job.asked \in Configs
    BY DEF ListInv, Jobs
  <2> QED  BY ONLY <2>1 DEF Records
<1>2. Byte(job.index) = job.index
  BY <1>1, CastsKeep
<1> QED  BY <1>1, <1>2, RoundTrip DEF Verified

LEMMA PromisesKept ==
  ASSUME ListInv, DeviceType, StoredInv, OkMeansStored, Write \/ SendResponse
  PROVE  OkMeansStored'
<1>1. CASE Write
  <2>1. \A i \in Indices : i # Byte(job.index) => bram'[i] = bram[i]
    BY <1>1, WriteRecord DEF ListInv, DeviceType
  <2>2. promised' = {p \in promised : p[1] # Byte(job.index)}
    BY <1>1 DEF Write
  <2> QED  BY <2>1, <2>2 DEF OkMeansStored
<1>2. CASE SendResponse
  <2>1. todo # <<>> /\ Head(todo) = "reply" /\ UNCHANGED bram
    BY <1>2 DEF SendResponse, Call
  <2>2. CASE Promising
    <3>1. Verified /\ job.index \in Indices /\ Fits(job.asked)
      BY <2>1, <2>2, PromiseHeads DEF StoredInv, Storing
    <3>2. FromWords(bram[job.index]) = job.asked
      BY <3>1, VerifiedRecord
    <3>3. promised' = promised \cup {<<job.index, job.asked>>}
      BY <1>2, <2>2 DEF SendResponse, Promising
    <3> QED  BY <2>1, <3>1, <3>2, <3>3 DEF OkMeansStored
  <2>3. CASE ~Promising
    BY <1>2, <2>1, <2>3 DEF SendResponse, Promising, OkMeansStored
  <2> QED  BY <2>2, <2>3
<1> QED  BY <1>1, <1>2

LEMMA StoredStep ==
  ASSUME ListInv, DeviceType, StoredInv, OkMeansStored, [Next]_vars
  PROVE  StoredInv' /\ OkMeansStored'
<1>1. CASE Write
  BY <1>1, StoredWrite, PromisesKept
<1>2. CASE SendResponse
  <2>1. response' = NoResponse /\ NoResponse.text # "OK WRITE_CONFIG"
    BY <1>2 DEF SendResponse, NoResponse
  <2> QED  BY <1>2, <2>1, PromisesKept DEF StoredInv, Promising
<1>3. ASSUME StoredInv', UNCHANGED <<bram, promised>> PROVE OkMeansStored'
  BY <1>3 DEF OkMeansStored
<1>4. CASE Verify
  BY <1>3, <1>4, StoredVerify
<1>5. CASE Datagram \/ Restart \/ Load \/ UNCHANGED vars
  BY <1>3, <1>5, StoredOthers
<1>6. CASE \/ GpioInit \/ GtInit \/ SpiInit \/ ChipId \/ Disable \/ ResetOn \/ ResetOff
           \/ Enable \/ Select \/ Apply \/ RateRequest \/ Wait \/ Pass \/ CheckCode
           \/ GtReady \/ Netif \/ Pcb \/ Receive
  BY <1>3, <1>6, OtherCalls DEF StoredInv
<1> QED  BY <1>1, <1>2, <1>4, <1>5, <1>6 DEF Next

\* What WRITE_CONFIG said it stored is what the loader would read, number for
\* number, however many writes do not arrive and whatever else is asked for,
\* and also after the processor has started over.
THEOREM OkIsStored == Spec => []OkMeansStored
<1> DEFINE Inv == ListInv /\ ProgramType /\ DeviceType /\ StoredInv /\ OkMeansStored
<1>1. Init => Inv
  <2>1. SUFFICES ASSUME Init PROVE StoredInv /\ OkMeansStored
    BY ListInit, TypeInit
  <2>2. response = NoResponse /\ NoResponse.text # "OK WRITE_CONFIG" /\ promised = {}
    BY <2>1 DEF Init, NoResponse
  <2> QED  BY <2>2 DEF StoredInv, Promising, OkMeansStored
<1>2. Inv /\ [Next]_vars => Inv'
  BY ListStep, ProgramTypeStep, DeviceTypeStep, StoredStep
<1> QED  BY <1>1, <1>2, PTL DEF Spec

-----------------------------------------------------------------------------
(* What the FPGA sees of the control word *)

\* A reset is on only while its end is the next call, or while the firmware has
\* not got hold of the GPIO.
ResetInv ==
  10 \in control =>
    \/ todo # <<>> /\ Head(todo) \in {"reset_off", "gpio_init"}
    \/ todo = <<>> /\ mode = "failed_gpio"

LEMMA BitsOfMasks ==
  ASSUME NEW w
  PROVE  /\ 10 \in w \cup ENABLE <=> 10 \in w
         /\ 10 \in w \ ENABLE <=> 10 \in w
         /\ 10 \notin w \ SOFT_RESET
         /\ 10 \in Flipped(w, APPLY_TOGGLE) <=> 10 \in w
         /\ \A index, source, len127 : 10 \in Selected(w, index, source, len127) <=> 10 \in w
         /\ \A id \in {1, 2} : 10 \in RateRequested(w, id) <=> 10 \in w
<1>1. \A index, source, len127 : 10 \in Selected(w, index, source, len127) <=> 10 \in w
  BY SelectBits
<1>2. ASSUME NEW id \in {1, 2} PROVE 10 \in RateRequested(w, id) <=> 10 \in w
  <2>1. \A k : k \notin {13, 14, 15} => (k \in RateRequested(w, id) <=> k \in w)
    BY RateBits
  <2> QED  BY <2>1
<1>3. /\ 10 \in w \cup ENABLE <=> 10 \in w
      /\ 10 \in w \ ENABLE <=> 10 \in w
      /\ 10 \notin w \ SOFT_RESET
      /\ 10 \in Flipped(w, APPLY_TOGGLE) <=> 10 \in w
  BY DEF ENABLE, SOFT_RESET, Flipped, APPLY_TOGGLE
<1> QED  BY <1>1, <1>2, <1>3

\* Once the GPIO is open, a call finds the reset on only if it ends it.
LEMMA NoReset ==
  ASSUME ResetInv,
         \/ todo # <<>> /\ Head(todo) \notin {"reset_off", "gpio_init"}
         \/ mode = "server" /\ todo = <<>>
  PROVE  10 \notin control
BY DEF ResetInv

LEMMA ResetStepInv == ASSUME ListInv, ResetInv, [Next]_vars PROVE ResetInv'
<1>1. CASE GpioInit
  BY <1>1 DEF GpioInit, WriteControl, Return, Exit, ResetInv
<1>2. CASE ResetOn
  <2>1. todo # <<>> /\ todo \in Seq(Calls) /\ todo[1] = "reset_on" /\ todo' = Tail(todo)
    BY <1>2, HeadOfList DEF ResetOn, Call, Return, ListInv
  <2>2. 1 < Len(todo) /\ todo[1 + 1] = "reset_off"
    BY <2>1, HeadOfList DEF ListInv, Orderly
  <2>3. Len(Tail(todo)) = Len(todo) - 1 /\ Len(todo) \in Nat /\ Tail(todo) \in Seq(Calls)
    BY <2>1, TailOfList
  <2>4. Len(Tail(todo)) # 0 /\ 1 \in 1 .. Len(Tail(todo))
    BY <2>2, <2>3
  <2>5. Tail(todo) # <<>>
    BY <2>3, <2>4, EmptySeq
  <2>6. Tail(todo)[1] = "reset_off"
    BY <2>1, <2>2, <2>4, TailOfList
  <2>7. Head(Tail(todo)) = "reset_off"
    BY <2>3, <2>5, <2>6, TailOfList
  <2> QED  BY <2>1, <2>5, <2>7 DEF ResetInv
<1>3. CASE ResetOff
  BY <1>3, BitsOfMasks DEF ResetOff, WriteControl, ResetInv
<1>4. CASE Disable \/ Enable \/ Select \/ Apply
  <2>1. 10 \notin control
    BY <1>4, NoReset DEF Disable, Enable, Select, Apply, Call
  <2>2. 10 \notin control'
    BY <1>4, <2>1, BitsOfMasks DEF Disable, Enable, Select, Apply, WriteControl
  <2> QED  BY <2>2 DEF ResetInv
<1>5. CASE RateRequest
  <2>1. 10 \notin control /\ job.rate \in {1, 2}
    BY <1>5, NoReset, HeadOfList DEF RateRequest, Call
  <2>2. 10 \notin control'
    BY <1>5, <2>1, BitsOfMasks DEF RateRequest, WriteControl
  <2> QED  BY <2>2 DEF ResetInv
<1>6. CASE Internal \/ Write \/ SendResponse
  <2>1. 10 \notin control
    BY <1>6, NoReset DEF Internal, GtInit, SpiInit, ChipId, Verify, Wait, Pass, CheckCode, GtReady,
       Netif, Pcb, Receive, Datagram, Write, SendResponse, Call
  <2>2. UNCHANGED control
    BY <1>6, InternalStep DEF NoIO, Write, SendResponse
  <2> QED  BY <2>1, <2>2 DEF ResetInv
<1>7. CASE Restart
  <2>1. PICK a \in DOMAIN Cases : \E c \in Cases[a] : todo' = main(a, c)
    BY <1>7 DEF Restart
  <2>2. todo' # <<>> /\ Head(todo') = "gpio_init"
    BY <2>1, MainList
  <2> QED  BY <2>2 DEF ResetInv
<1>8. CASE Load \/ UNCHANGED vars
  <2>1. UNCHANGED <<control, todo, mode>>
    BY <1>8 DEF Load, vars, program
  <2> QED  BY <2>1 DEF ResetInv
<1> QED  BY <1>1, <1>2, <1>3, <1>4, <1>5, <1>6, <1>7, <1>8 DEF Next, Internal

LEMMA EnablePorts ==
  ASSUME NEW w, NEW v, v = w \cup ENABLE \/ v = w \ ENABLE
  PROVE  LET P == ControlPorts(w)
             Q == ControlPorts(v)
         IN /\ Q.config_index = P.config_index /\ Q.source_sel = P.source_sel
            /\ Q.direct_len_sel = P.direct_len_sel /\ Q.apply_toggle = P.apply_toggle
            /\ Q.soft_reset = P.soft_reset
            /\ Q.rate_id = P.rate_id /\ Q.rate_req_toggle = P.rate_req_toggle
<1>1. \A k : k # 9 => (k \in v <=> k \in w)
  BY DEF ENABLE
<1>2. \A k \in 0 .. 7 : k \in v <=> k \in w
  BY <1>1
<1> QED  BY <1>1, <1>2, SamePort

LEMMA ResetPorts ==
  ASSUME NEW w, NEW v, v = w \cup SOFT_RESET \/ v = w \ SOFT_RESET
  PROVE  LET P == ControlPorts(w)
             Q == ControlPorts(v)
         IN /\ Q.config_index = P.config_index /\ Q.source_sel = P.source_sel
            /\ Q.direct_len_sel = P.direct_len_sel /\ Q.apply_toggle = P.apply_toggle
            /\ Q.enable = P.enable
            /\ Q.rate_id = P.rate_id /\ Q.rate_req_toggle = P.rate_req_toggle
<1>1. \A k : k # 10 => (k \in v <=> k \in w)
  BY DEF SOFT_RESET
<1>2. \A k \in 0 .. 7 : k \in v <=> k \in w
  BY <1>1
<1> QED  BY <1>1, <1>2, SamePort

LEMMA ApplyPorts ==
  ASSUME NEW w, NEW v, v = Flipped(w, APPLY_TOGGLE)
  PROVE  LET P == ControlPorts(w)
             Q == ControlPorts(v)
         IN /\ Q.config_index = P.config_index /\ Q.source_sel = P.source_sel
            /\ Q.direct_len_sel = P.direct_len_sel /\ Q.apply_toggle = ~P.apply_toggle
            /\ Q.enable = P.enable /\ Q.soft_reset = P.soft_reset
            /\ Q.rate_id = P.rate_id /\ Q.rate_req_toggle = P.rate_req_toggle
<1>1. \A k : k # 8 => (k \in v <=> k \in w)
  BY DEF Flipped, APPLY_TOGGLE
<1>2. \A k \in 0 .. 7 : k \in v <=> k \in w
  BY <1>1
<1>3. ControlPorts(v).apply_toggle = ~ControlPorts(w).apply_toggle
  BY ApplyBits
<1> QED  BY <1>1, <1>2, <1>3, SamePort

LEMMA SelectPorts ==
  ASSUME NEW w, NEW v, NEW index, NEW source, NEW len127, v = Selected(w, index, source, len127)
  PROVE  LET P == ControlPorts(w)
             Q == ControlPorts(v)
         IN /\ Q.apply_toggle = P.apply_toggle
            /\ Q.enable = P.enable /\ Q.soft_reset = P.soft_reset
            /\ Q.rate_id = P.rate_id /\ Q.rate_req_toggle = P.rate_req_toggle
<1>1. \A k : k \notin 0 .. 7 \cup {11, 12} => (k \in v <=> k \in w)
  BY SelectBits
<1>2. /\ 8 \in v <=> 8 \in w
      /\ 9 \in v <=> 9 \in w
      /\ 10 \in v <=> 10 \in w
      /\ 13 \in v <=> 13 \in w
      /\ 14 \in v <=> 14 \in w
      /\ 15 \in v <=> 15 \in w
  BY <1>1
<1> QED  BY <1>2, SamePort

LEMMA RatePorts ==
  ASSUME NEW w, NEW id \in {1, 2}
  PROVE  LET P == ControlPorts(w)
             Q == ControlPorts(RateRequested(w, id))
         IN /\ Q.config_index = P.config_index /\ Q.source_sel = P.source_sel
            /\ Q.direct_len_sel = P.direct_len_sel /\ Q.apply_toggle = P.apply_toggle
            /\ Q.enable = P.enable /\ Q.soft_reset = P.soft_reset
            /\ Q.rate_id \in {{0}, {1}} /\ Q.rate_req_toggle = ~P.rate_req_toggle
<1> DEFINE v == RateRequested(w, id)
<1>1. /\ \A k : k \notin {13, 14, 15} => (k \in v <=> k \in w)
      /\ ControlPorts(v).rate_id = {id - 1}
      /\ ControlPorts(v).rate_req_toggle = ~ControlPorts(w).rate_req_toggle
  BY RateBits
<1> HIDE DEF v
<1>2. \A k \in 0 .. 7 : k \in v <=> k \in w
  BY <1>1
<1>3. {id - 1} \in {{0}, {1}}
  OBVIOUS
<1> QED  BY <1>1, <1>2, <1>3, SamePort DEF v

Store == [i \in Indices |-> FromWords(bram[i])]
PortStutters == UNCHANGED <<Port!signals, Store>>

LEMMA NoResetPort == ASSUME 10 \notin control PROVE ~Ports.soft_reset
BY DEF Ports, ControlPorts, SOFT_RESET

LEMMA StoreKept == ASSUME UNCHANGED bram PROVE UNCHANGED Store
BY DEF Store

LEMMA PortsKept == ASSUME UNCHANGED <<control, bram>> PROVE PortStutters
BY StoreKept DEF PortStutters, Port!signals, Port!choice, Port!request, Ports

LEMMA PortEnable ==
  ASSUME ResetInv, Enable \/ Disable
  PROVE  \E on \in BOOLEAN : Port!SetEnable(on)
<1>1. 10 \notin control /\ UNCHANGED bram
  BY NoReset DEF Enable, Disable, Call, WriteControl
<1>2. ~Ports.soft_reset /\ UNCHANGED Store
  BY <1>1, NoResetPort, StoreKept
<1>3. CASE Enable
  <2>1. control' = control \cup ENABLE
    BY <1>3 DEF Enable, WriteControl
  <2>2. Ports'.enable = TRUE
    BY <2>1, EnableBits DEF Ports
  <2>3. Port!SetEnable(TRUE)
    BY <1>2, <2>1, <2>2, EnablePorts
       DEF Port!SetEnable, Port!Operate, Port!choice, Port!request, Ports, Store
  <2> QED  BY <2>3
<1>4. CASE Disable
  <2>1. control' = control \ ENABLE
    BY <1>4 DEF Disable, WriteControl
  <2>2. Ports'.enable = FALSE
    BY <2>1, EnableBits DEF Ports
  <2>3. Port!SetEnable(FALSE)
    BY <1>2, <2>1, <2>2, EnablePorts
       DEF Port!SetEnable, Port!Operate, Port!choice, Port!request, Ports, Store
  <2> QED  BY <2>3
<1> QED  BY <1>3, <1>4

LEMMA PortReset ==
  ASSUME ResetOn \/ ResetOff
  PROVE  \E on \in BOOLEAN : Port!SoftReset(on)
<1>1. UNCHANGED Store
  BY StoreKept DEF ResetOn, ResetOff, WriteControl
<1>2. CASE ResetOn
  <2>1. control' = control \cup SOFT_RESET
    BY <1>2 DEF ResetOn, WriteControl
  <2>2. Ports'.soft_reset = TRUE
    BY <2>1, ResetBits DEF Ports
  <2>3. Port!SoftReset(TRUE)
    BY <1>1, <2>1, <2>2, ResetPorts DEF Port!SoftReset, Port!choice, Port!request, Ports, Store
  <2> QED  BY <2>3
<1>3. CASE ResetOff
  <2>1. control' = control \ SOFT_RESET
    BY <1>3 DEF ResetOff, WriteControl
  <2>2. Ports'.soft_reset = FALSE
    BY <2>1, ResetBits DEF Ports
  <2>3. Port!SoftReset(FALSE)
    BY <1>1, <2>1, <2>2, ResetPorts DEF Port!SoftReset, Port!choice, Port!request, Ports, Store
  <2> QED  BY <2>3
<1> QED  BY <1>2, <1>3

LEMMA PortChoice ==
  ASSUME ListInv, ResetInv, Select \/ Apply \/ RateRequest
  PROVE  Port!Next
<1>1. 10 \notin control /\ UNCHANGED bram
  BY NoReset DEF Select, Apply, RateRequest, Call, WriteControl
<1>2. ~Ports.soft_reset /\ UNCHANGED Store
  BY <1>1, NoResetPort, StoreKept
<1>3. CASE Select
  <2>1. control' = Selected(control, Byte(job.index), job.source, job.len127)
    BY <1>3 DEF Select, WriteControl
  <2>2. Port!Select
    BY <1>2, <2>1, SelectPorts DEF Port!Select, Port!Operate, Port!request, Ports, Store
  <2> QED  BY <2>2 DEF Port!Next
<1>4. CASE Apply
  <2>1. control' = Flipped(control, APPLY_TOGGLE)
    BY <1>4 DEF Apply, WriteControl
  <2>2. Port!FlipApply
    BY <1>2, <2>1, ApplyPorts
       DEF Port!FlipApply, Port!Operate, Port!choice, Port!request, Ports, Store
  <2> QED  BY <2>2 DEF Port!Next
<1>5. CASE RateRequest
  <2>1. PICK id \in {1, 2} : control' = RateRequested(control, id)
    BY <1>5, HeadOfList DEF RateRequest, WriteControl, Call
  <2>2. /\ Ports'.config_index = Ports.config_index /\ Ports'.source_sel = Ports.source_sel
        /\ Ports'.direct_len_sel = Ports.direct_len_sel
        /\ Ports'.apply_toggle = Ports.apply_toggle /\ Ports'.enable = Ports.enable
        /\ Ports'.soft_reset = Ports.soft_reset /\ Ports'.rate_id \in {{0}, {1}}
        /\ Ports'.rate_req_toggle = ~Ports.rate_req_toggle
    BY ONLY <2>1, RatePorts DEF Ports
  <2>3. Port!AskRate(Ports'.rate_id)
    BY <1>2, <2>2 DEF Port!AskRate, Port!Operate, Port!choice, Store
  <2> QED  BY <2>2, <2>3 DEF Port!Next
<1> QED  BY <1>3, <1>4, <1>5

LEMMA PortWrite ==
  ASSUME ListInv, DeviceType, ResetInv, Write
  PROVE  Port!Next \/ PortStutters
<1> DEFINE n == Byte(job.index)
<1>1. 10 \notin control /\ UNCHANGED control
  BY NoReset DEF Write, Call
<1>2. ~Ports.soft_reset /\ UNCHANGED Ports
  BY <1>1, NoResetPort DEF Ports
<1>3. /\ bram \in [Indices -> [0 .. 7 -> Nat]] /\ bram' \in [Indices -> [0 .. 7 -> Nat]]
      /\ \A i \in Indices : i # n => bram'[i] = bram[i]
  BY WriteRecord DEF ListInv, DeviceType
<1> HIDE DEF n
<1>4. CASE n \in Indices
  <2>1. Store' = [Store EXCEPT ![n] = Store'[n]]
    BY <1>3, <1>4 DEF Store
  <2>2. Port!Store(n)
    BY <1>2, <2>1 DEF Port!Store, Port!signals, Port!choice, Port!request, Ports, Store
  <2> QED  BY <1>4, <2>2 DEF Port!Next
<1>5. CASE n \notin Indices
  <2>1. UNCHANGED bram
    BY <1>3, <1>5
  <2> QED  BY <1>1, <2>1, PortsKept
<1> QED  BY <1>4, <1>5

LEMMA PortStep ==
  ASSUME ListInv, DeviceType, ResetInv, [Next]_vars
  PROVE  Port!Next \/ PortStutters
<1>1. CASE GpioInit
  <2>1. CASE WriteControl({})
    <3>1. control' = {} /\ UNCHANGED Store
      BY <2>1, StoreKept DEF WriteControl
    <3>2. Port!Zero'
      BY <3>1, NoPorts DEF Port!Zero, Ports
    <3>3. Port!Clear
      BY <3>1, <3>2 DEF Port!Clear, Store
    <3> QED  BY <3>3 DEF Port!Next
  <2>2. CASE NoIO
    BY <2>2, PortsKept DEF NoIO
  <2> QED  BY <1>1, <2>1, <2>2 DEF GpioInit
<1>2. CASE Enable \/ Disable
  BY <1>2, PortEnable DEF Port!Next
<1>3. CASE ResetOn \/ ResetOff
  BY <1>3, PortReset DEF Port!Next
<1>4. CASE Select \/ Apply \/ RateRequest
  BY <1>4, PortChoice
<1>5. CASE Write
  BY <1>5, PortWrite
<1>6. CASE Internal \/ SendResponse \/ Load \/ Restart \/ UNCHANGED vars
  <2>1. UNCHANGED <<control, bram>>
    BY <1>6, InternalStep DEF NoIO, SendResponse, Load, Restart, vars
  <2> QED  BY <2>1, PortsKept
<1> QED  BY <1>1, <1>2, <1>3, <1>4, <1>5, <1>6 DEF Next, Internal

\* The calls of every program and every command, which read, change and write
\* one word, are to the FPGA operations on single signals: no bit of one gets
\* into another, none is left from a former request, and none changes within a
\* soft reset.
THEOREM PortImplemented == Spec => ImplementsPort
<1> DEFINE Inv == ListInv /\ ProgramType /\ DeviceType /\ ResetInv
<1>1. Init => Inv
  <2>1. Init => ResetInv
    BY DEF Init, ResetInv
  <2> QED  BY <2>1, ListInit, TypeInit
<1>2. Inv /\ [Next]_vars => Inv'
  BY ListStep, ProgramTypeStep, DeviceTypeStep, ResetStepInv
<1>3. Init => Port!Init
  <2>1. Init => control = {}
    BY DEF Init
  <2> QED  BY <2>1, NoPorts DEF Port!Init, Port!Zero, Ports
<1>4. Inv /\ [Next]_vars => [Port!Next]_<<Port!signals, [i \in Indices |-> FromWords(bram[i])]>>
  <2>1. Inv /\ [Next]_vars => Port!Next \/ PortStutters
    BY PortStep
  <2> QED  BY <2>1 DEF PortStutters, Store
<1> QED  BY <1>1, <1>2, <1>3, <1>4, PTL DEF Spec, ImplementsPort, Port!Spec

-----------------------------------------------------------------------------
(* What the host reads *)

LEMMA StatusAnswer ==
  ASSUME NEW s \in GtStates
  PROVE  StatusTrue(StatusText(GtStatusRead(GtStatusOut(s))), s)
<1> DEFINE w == GtStatusRead(GtStatusOut(s))
<1>1. s \in Statuses /\ s.state \in NamedStates \cup {11} /\ s.error_code \in NamedErrors
  BY FirmwareAssumption, GtStatesAssumption
<1>2. /\ w.ready = s.ready /\ w.rate_id = s.rate_id /\ w.gt_written = s.gt_written
      /\ w.mmcm_written = s.mmcm_written /\ w.state = s.state /\ w.error_code = s.error_code
  BY <1>1, StatusRead
<1> HIDE DEF w
<1>3. MbpsOfId(s.rate_id) = 500 * s.rate_id
  BY <1>1 DEF Statuses, MbpsOfId
<1>4. Named(s.state, NamedStates) = IF s.state = 11 THEN 255 ELSE s.state
  BY <1>1 DEF Named, NamedStates
<1>5. Named(s.error_code, NamedErrors) = s.error_code
  BY <1>1 DEF Named
<1> QED  BY <1>2, <1>3, <1>4, <1>5 DEF StatusText, StatusTrue, w

LEMMA PlanAnswer == ASSUME NEW mbps \in Planned PROVE PlanTrue(Plan(mbps))
BY DEF Planned, Plan, PlanTrue

LEMMA OtherAnswer ==
  ASSUME NEW text, text \notin {"OK RATE_STATUS", "OK RATE_PLAN"}, response' = Answer(text)
  PROVE  AnswersAreTrue'
BY DEF Answer, AnswersAreTrue

LEMMA CommandAnswers == ASSUME NEW r, handle_udp_command(r) PROVE AnswersAreTrue'
<1>1. CASE RateStatus(r)
  <2>1. ASSUME NEW s \in GtStates,
               response' = [text |-> "OK RATE_STATUS",
                            value |-> <<StatusText(GtStatusRead(GtStatusOut(s))), s>>]
        PROVE  AnswersAreTrue'
    BY <2>1, StatusAnswer DEF AnswersAreTrue
  <2> QED  BY <1>1, <2>1, OtherAnswer DEF RateStatus, Respond, Reply
<1>2. CASE RatePlan(r)
  <2>1. ASSUME NEW mbps \in Planned, response' = [text |-> "OK RATE_PLAN", value |-> <<Plan(mbps)>>]
        PROVE  AnswersAreTrue'
    BY <2>1, PlanAnswer DEF AnswersAreTrue
  <2> QED  BY <1>2, <2>1, OtherAnswer DEF RatePlan, Respond, Reply
<1>3. CASE \/ Empty(r) \/ Ping(r) \/ ReadStatus(r) \/ ReadGtStatus(r) \/ RateOther(r) \/ Unknown(r)
  BY <1>3, OtherAnswer DEF Empty, Ping, ReadStatus, ReadGtStatus, RateOther, Unknown, Respond, Reply
<1>4. CASE ApplyCommand(r) \/ EnableCommand(r) \/ DisableCommand(r) \/ SoftReset(r)
  BY <1>4, OtherAnswer DEF ApplyCommand, EnableCommand, DisableCommand, SoftReset, Start
<1>5. CASE WriteConfig(r) \/ SelectConfig(r)
  BY <1>5, OtherAnswer DEF WriteConfig, SelectConfig, Respond, Reply, Start
<1>6. CASE RateSet(r)
  BY <1>6, OtherAnswer DEF RateSet, Respond, Reply, Start
<1> QED  BY <1>1, <1>2, <1>3, <1>4, <1>5, <1>6 DEF handle_udp_command

LEMMA AnswersStep == ASSUME AnswersAreTrue, [Next]_vars PROVE AnswersAreTrue'
<1>1. CASE Datagram
  BY <1>1, CommandAnswers DEF Datagram
<1>2. CASE UNCHANGED response
  BY <1>2 DEF AnswersAreTrue
<1>3. CASE response' = NoResponse
  <2>1. NoResponse = Answer("NONE")
    BY DEF NoResponse, Answer
  <2> QED  BY <1>3, <2>1, OtherAnswer
<1>4. CASE RateRequest \/ Verify
  BY <1>2, <1>4, OtherAnswer DEF RateRequest, Verify, Reply, Return, Exit
<1> QED  BY <1>1, <1>2, <1>3, <1>4 DEF Next, GpioInit, GtInit, SpiInit, ChipId, Disable, ResetOn,
            ResetOff, Enable, Select, Apply, Write, Wait, Pass, CheckCode, GtReady, Netif, Pcb,
            Receive, SendResponse, Load, Restart, Return, Exit, vars, program

\* A status answer tells the state the GT was in, whatever that was, and the
\* figures of a plan multiply out.
THEOREM AnswersTrue == Spec => []AnswersAreTrue
<1>1. Init => AnswersAreTrue
  BY DEF Init, NoResponse, AnswersAreTrue
<1>2. AnswersAreTrue /\ [Next]_vars => AnswersAreTrue'
  BY AnswersStep
<1> QED  BY <1>1, <1>2, PTL DEF Spec

-----------------------------------------------------------------------------
(* What a test that has enabled the transmitter has checked *)

Has(s, f) == \E k \in 1 .. Len(s) : s[k] = f

LEMMA HasTail ==
  ASSUME NEW s \in Seq(Calls), s # <<>>, NEW f, Head(s) # f
  PROVE  Has(Tail(s), f) <=> Has(s, f)
<1>1. /\ Len(Tail(s)) = Len(s) - 1 /\ Len(s) \in Nat \ {0}
      /\ \A k \in 1 .. Len(Tail(s)) : Tail(s)[k] = s[k + 1]
      /\ Head(s) = s[1]
  BY TailOfList
<1>2. ASSUME NEW k \in 1 .. Len(Tail(s)), Tail(s)[k] = f PROVE Has(s, f)
  <2>1. k + 1 \in 1 .. Len(s) /\ s[k + 1] = f
    BY <1>1, <1>2
  <2> QED  BY <2>1 DEF Has
<1>3. ASSUME NEW k \in 1 .. Len(s), s[k] = f PROVE Has(Tail(s), f)
  <2>1. k # 1
    BY <1>1, <1>3
  <2>2. k - 1 \in 1 .. Len(Tail(s)) /\ (k - 1) + 1 = k
    BY <1>1, <2>1
  <2>3. Tail(s)[k - 1] = f
    BY <1>1, <1>3, <2>2
  <2> QED  BY <2>2, <2>3 DEF Has
<1> QED  BY <1>2, <1>3 DEF Has

LEMMA TestLists ==
  ASSUME NEW a \in DOMAIN Cases, a # "UDP_SERVER", NEW c
  PROVE  Has(main(a, c), "verify") /\ Has(main(a, c), "wait")
<1>1. CASE a = "UART_TEST"
  <2>1. main(a, c) = run_uart_test(c)
    BY <1>1 DEF main
  <2>2. /\ 15 \in 1 .. Len(run_uart_test(c)) /\ run_uart_test(c)[15] = "wait"
        /\ 12 \in 1 .. Len(run_uart_test(c)) /\ run_uart_test(c)[12] = "verify"
    BY DEF run_uart_test, laser_init_control_hw
  <2> QED  BY <2>1, <2>2 DEF Has
<1>2. CASE a = "CORE_TEST"
  <2>1. main(a, c) = run_core_test(c)
    BY <1>2 DEF main
  <2>2. /\ 9 \in 1 .. Len(run_core_test(c)) /\ run_core_test(c)[9] = "wait"
        /\ 6 \in 1 .. Len(run_core_test(c)) /\ run_core_test(c)[6] = "verify"
    BY DEF run_core_test
  <2> QED  BY <2>1, <2>2 DEF Has
<1> QED  BY <1>1, <1>2, Programs

Asked    == ToWords(JobOf(app, test_case).asked)
Underway == app # "UDP_SERVER" /\ mode # "failed_gpio" /\ Initialised
CheckInv ==
  /\ app # "UDP_SERVER" /\ todo # <<>> => mode = "starting"
  /\ app # "UDP_SERVER" /\ ~Initialised => Has(todo, "verify") /\ Has(todo, "wait")
  /\ Underway =>
       /\ control \cap INDEX_MASK = {}
       /\ mode # "enabled" => 9 \notin control
       /\ mode = "enabled" => todo = <<>> /\ ~Expects(app, test_case)
       /\ mode \in {"starting", "enabled"} /\ ~Has(todo, "verify") => bram[0] = Asked
       /\ mode \in {"starting", "enabled"} /\ ~Has(todo, "wait") /\ ~Expects(app, test_case) =>
            cfg.valid /\ cfg.code = 0

\* A call that has returned is not followed by a second initialisation.
LEMMA TailInitialised ==
  ASSUME NEW s \in Seq(Calls), s # <<>>, Orderly(s)
  PROVE  Tail(s) = <<>> \/ Head(Tail(s)) # "gpio_init"
<1> SUFFICES ASSUME Tail(s) # <<>> PROVE Head(Tail(s)) # "gpio_init"
  OBVIOUS
<1>1. /\ Tail(s) \in Seq(Calls) /\ Len(Tail(s)) = Len(s) - 1 /\ Len(s) \in Nat \ {0}
      /\ \A k \in 1 .. Len(Tail(s)) : Tail(s)[k] = s[k + 1]
  BY TailOfList
<1>2. Head(Tail(s)) = Tail(s)[1] /\ Len(Tail(s)) \in Nat \ {0}
  BY <1>1, TailOfList
<1>3. 1 \in 1 .. Len(Tail(s)) /\ 1 + 1 \in 1 .. Len(s) /\ 1 + 1 # 1
  BY <1>1, <1>2
<1>4. s[1 + 1] # "gpio_init"
  BY <1>3 DEF Orderly
<1> QED  BY <1>1, <1>2, <1>3, <1>4

\* A call that neither verifies, waits nor enables, and does not touch the index.
LEMMA CheckTail ==
  ASSUME ListInv, CheckInv, app # "UDP_SERVER", todo # <<>>, todo' = Tail(todo),
         Head(todo) \notin {"gpio_init", "verify", "wait"},
         UNCHANGED <<app, test_case, mode, cfg>>, bram'[0] = bram[0] \/ Has(Tail(todo), "verify"),
         control \cap INDEX_MASK = {} => control' \cap INDEX_MASK = {},
         9 \in control' => 9 \in control
  PROVE  CheckInv'
<1>1. todo \in Seq(Calls) /\ Orderly(todo) /\ mode = "starting"
  BY DEF ListInv, CheckInv
<1>2. Initialised /\ Initialised'
  BY <1>1, TailInitialised DEF Initialised
<1>3. /\ Has(Tail(todo), "verify") <=> Has(todo, "verify")
      /\ Has(Tail(todo), "wait") <=> Has(todo, "wait")
  BY <1>1, HasTail
<1>4. Underway /\ mode' = "starting" /\ Asked' = Asked
  BY <1>1, <1>2 DEF Underway, Asked
<1>5. /\ control' \cap INDEX_MASK = {} /\ 9 \notin control'
      /\ ~Has(todo', "verify") => bram'[0] = Asked'
      /\ ~Has(todo', "wait") /\ ~Expects(app', test_case') => cfg'.valid /\ cfg'.code = 0
  BY <1>1, <1>3, <1>4 DEF CheckInv
<1> QED  BY <1>2, <1>4, <1>5 DEF CheckInv

LEMMA CheckStop ==
  ASSUME ListInv, CheckInv, app # "UDP_SERVER", todo # <<>>, Head(todo) # "gpio_init",
         todo' = <<>>, mode' \notin {"starting", "enabled"}, UNCHANGED <<app, test_case, control>>
  PROVE  CheckInv'
<1>1. mode = "starting" /\ Initialised /\ Initialised'
  BY DEF CheckInv, Initialised
<1>2. control \cap INDEX_MASK = {} /\ 9 \notin control
  BY <1>1 DEF CheckInv, Underway
<1> QED  BY <1>1, <1>2 DEF CheckInv, Underway

LEMMA CheckGpioInit == ASSUME ListInv, CheckInv, GpioInit, app # "UDP_SERVER" PROVE CheckInv'
<1>1. /\ todo # <<>> /\ Head(todo) = "gpio_init" /\ todo \in Seq(Calls) /\ Orderly(todo)
      /\ mode = "starting" /\ ~Initialised /\ UNCHANGED <<app, test_case>>
  BY DEF GpioInit, Call, ListInv, CheckInv, Initialised, Return, Exit
<1>2. CASE Return /\ WriteControl({})
  <2>1. todo' = Tail(todo) /\ mode' = "starting" /\ control' = {}
    BY <1>1, <1>2 DEF Return, WriteControl
  <2>2. Initialised'
    BY <1>1, <2>1, TailInitialised DEF Initialised
  <2>3. Has(todo', "verify") /\ Has(todo', "wait")
    BY <1>1, <2>1, HasTail DEF CheckInv
  <2> QED  BY <2>1, <2>2, <2>3 DEF CheckInv
<1>3. CASE Exit("failed_gpio")
  BY <1>3 DEF Exit, CheckInv, Underway, Initialised
<1> QED  BY <1>2, <1>3 DEF GpioInit

LEMMA CheckVerify == ASSUME ListInv, CheckInv, Verify, app # "UDP_SERVER" PROVE CheckInv'
<1>1. /\ todo # <<>> /\ Head(todo) = "verify" /\ todo \in Seq(Calls) /\ Orderly(todo)
      /\ mode = "starting" /\ Initialised /\ NoIO
  BY DEF Verify, Call, ListInv, CheckInv, Initialised
<1>2. CASE Verified /\ Return
  <2>1. /\ todo' = Tail(todo) /\ mode' = "starting"
        /\ UNCHANGED <<app, test_case, job, control, bram, cfg>>
    BY <1>1, <1>2 DEF Return, NoIO
  <2>2. Initialised' /\ (Has(todo', "wait") <=> Has(todo, "wait"))
    BY <1>1, <2>1, TailInitialised, HasTail DEF Initialised
  <2>3. job = JobOf(app, test_case)
    BY DEF ListInv
  <2>4. job.index = 0 /\ Narrow(job.asked) = job.asked
    BY <2>3, TestRecords
  <2>5. bram[0] = Asked
    BY <1>2, <2>3, <2>4, CastsKeep DEF Verified, Asked
  <2>6. Underway /\ Asked' = Asked
    BY <1>1, <2>1 DEF Underway, Asked
  <2> QED  BY <1>1, <2>1, <2>2, <2>5, <2>6 DEF CheckInv
<1>3. CASE mode = "server"
  BY <1>1, <1>3
<1>4. CASE Exit("failed_config")
  BY <1>1, <1>4, CheckStop DEF Exit, NoIO
<1> QED  BY <1>2, <1>3, <1>4 DEF Verify

LEMMA CheckWait == ASSUME ListInv, CheckInv, Wait, app # "UDP_SERVER" PROVE CheckInv'
<1>1. /\ todo # <<>> /\ Head(todo) = "wait" /\ todo \in Seq(Calls) /\ Orderly(todo)
      /\ mode = "starting" /\ Initialised /\ NoIO
  BY DEF Wait, Call, ListInv, CheckInv, Initialised
<1>2. CASE PollResult = "awaited" /\ Return
  <2>1. /\ todo' = Tail(todo) /\ mode' = "starting"
        /\ UNCHANGED <<app, test_case, job, control, bram, cfg>>
    BY <1>1, <1>2 DEF Return, NoIO
  <2>2. Initialised' /\ (Has(todo', "verify") <=> Has(todo, "verify"))
    BY <1>1, <2>1, TailInitialised, HasTail DEF Initialised
  <2>3. ~Expects(app, test_case) => cfg.valid /\ cfg.code = 0
    <3>1. CASE app = "UART_TEST"
      BY <1>2, <3>1 DEF PollResult, UartResult, Expects
    <3>2. CASE app = "CORE_TEST"
      BY <1>2, <3>2 DEF PollResult, CoreResult, Expects
    <3> QED  BY <3>1, <3>2, Programs DEF ListInv
  <2>4. Underway /\ Asked' = Asked
    BY <1>1, <2>1 DEF Underway, Asked
  <2> QED  BY <1>1, <2>1, <2>2, <2>3, <2>4 DEF CheckInv
<1>3. CASE Exit("failed_result")
  BY <1>1, <1>3, CheckStop DEF Exit, NoIO
<1>4. CASE UNCHANGED <<app, test_case, mode, todo, job, response>>
  BY <1>1, <1>4 DEF CheckInv, Underway, Initialised, Asked, NoIO
<1> QED  BY <1>2, <1>3, <1>4 DEF Wait

LEMMA CheckSpiInit == ASSUME ListInv, CheckInv, SpiInit, app # "UDP_SERVER" PROVE CheckInv'
<1>1. /\ todo # <<>> /\ Head(todo) = "spi_init" /\ todo \in Seq(Calls) /\ Orderly(todo)
      /\ mode = "starting" /\ Initialised
      /\ UNCHANGED <<app, test_case, mode, control, bram, cfg>>
  BY DEF SpiInit, Call, ListInv, CheckInv, Initialised, NoIO, Return
<1>2. CASE todo' = Tail(todo)
  BY <1>1, <1>2, CheckTail
<1>3. CASE todo' = Tail(Tail(todo))
  <2>1. 1 \in 1 .. Len(todo) /\ todo[1] = "spi_init"
    BY <1>1, HeadOfList
  <2>2. 1 < Len(todo) /\ todo[1 + 1] = "chip_id"
    BY <1>1, <2>1 DEF Orderly
  <2>3. /\ Tail(todo) \in Seq(Calls) /\ Len(Tail(todo)) = Len(todo) - 1 /\ Len(todo) \in Nat
        /\ \A k \in 1 .. Len(Tail(todo)) : Tail(todo)[k] = todo[k + 1]
    BY <1>1, TailOfList
  <2>4. Len(Tail(todo)) # 0 /\ 1 \in 1 .. Len(Tail(todo))
    BY <2>2, <2>3
  <2>5. Tail(todo) # <<>> /\ Tail(todo)[1] = "chip_id"
    BY <2>2, <2>3, <2>4, EmptySeq
  <2>6. Head(Tail(todo)) = "chip_id" /\ Orderly(Tail(todo))
    BY <1>1, <2>3, <2>5, TailOfList, TailOrder
  <2>7. /\ Has(todo', "verify") <=> Has(todo, "verify")
        /\ Has(todo', "wait") <=> Has(todo, "wait")
    BY <1>1, <1>3, <2>3, <2>5, <2>6, HasTail
  <2>8. Initialised'
    BY <1>3, <2>3, <2>5, <2>6, TailInitialised DEF Initialised
  <2>9. Underway /\ Asked' = Asked
    BY <1>1 DEF Underway, Asked
  <2> QED  BY <1>1, <2>7, <2>8, <2>9 DEF CheckInv
<1> QED  BY <1>2, <1>3 DEF SpiInit, Return

LEMMA CheckEnable == ASSUME ListInv, CheckInv, Enable, app # "UDP_SERVER" PROVE CheckInv'
<1>1. /\ todo # <<>> /\ Head(todo) = "enable" /\ todo \in Seq(Calls)
      /\ mode = "starting" /\ Initialised /\ todo' = Tail(todo) /\ mode' = "enabled"
      /\ control' = control \cup ENABLE /\ UNCHANGED <<app, test_case, bram, cfg>>
  BY DEF Enable, Call, ListInv, CheckInv, Initialised, WriteControl
<1>2. 1 \in 1 .. Len(todo) /\ todo[1] = "enable"
  BY <1>1, HeadOfList
<1>3. 1 = Len(todo) /\ ~Expects(app, test_case)
  BY <1>2 DEF ListInv, Testing
<1>4. Tail(todo) \in Seq(Calls) /\ Len(Tail(todo)) = Len(todo) - 1
  BY <1>1, TailOfList
<1>5. Len(Tail(todo)) = 0
  BY <1>3, <1>4
<1>6. Tail(todo) = <<>>
  BY <1>4, <1>5, EmptySeq
<1>7. ~Has(todo, "verify") /\ ~Has(todo, "wait")
  <2>1. \A k \in 1 .. Len(todo) : k = 1
    <3>1. \A k \in 1 .. 1 : k = 1
      OBVIOUS
    <3>2. Len(todo) = 1
      BY <1>3
    <3> QED  BY ONLY <3>1, <3>2
  <2>2. \A k \in 1 .. Len(todo) : todo[k] = "enable"
    BY <1>2, <2>1
  <2> QED  BY <2>2 DEF Has
<1>8. Underway /\ Asked' = Asked
  BY <1>1 DEF Underway, Asked
<1>9. /\ control \cap INDEX_MASK = {} /\ bram[0] = Asked /\ cfg.valid /\ cfg.code = 0
  BY <1>1, <1>3, <1>7, <1>8 DEF CheckInv
<1>10. control' \cap INDEX_MASK = {}
  BY <1>1, <1>9 DEF ENABLE, INDEX_MASK
<1> QED  BY <1>1, <1>3, <1>6, <1>8, <1>9, <1>10 DEF CheckInv, Underway, Initialised

LEMMA IndexZero == Index({}) = 0
BY DEF Index

\* What the loader takes while a test runs is the record of the test.
LEMMA CheckLoad == ASSUME ListInv, CheckInv, Load, app # "UDP_SERVER" PROVE CheckInv'
<1>1. UNCHANGED <<app, test_case, mode, todo, control, bram>>
  BY DEF Load, program
<1>2. ASSUME Underway, mode \in {"starting", "enabled"}, ~Has(todo, "wait"), ~Expects(app, test_case)
      PROVE  cfg'.valid /\ cfg'.code = 0
  <2>1. ~Has(todo, "verify")
    <3>1. SUFFICES ASSUME NEW k \in 1 .. Len(todo), todo[k] = "verify" PROVE FALSE
      BY DEF Has
    <3>2. k + 3 <= Len(todo) /\ todo[k + 3] = "wait" /\ todo \in Seq(Calls)
      BY <3>1 DEF ListInv, Testing
    <3>3. k + 3 \in 1 .. Len(todo)
      BY <3>2
    <3> QED  BY <1>2, <3>2, <3>3 DEF Has
  <2>2. bram[0] = Asked /\ control \cap INDEX_MASK = {}
    BY <1>2, <2>1 DEF CheckInv
  <2>3. Index(Ports.config_index) = 0
    BY <2>2, IndexZero DEF Ports, ControlPorts
  <2>4. app \in {"UART_TEST", "CORE_TEST"}
    BY Programs DEF ListInv
  <2>5. LoadError(Asked) = 0
    BY <1>2, <2>4, TestRecords DEF Asked
  <2>6. cfg' = [valid |-> TRUE, code |-> 0]
    BY <2>2, <2>3, <2>5 DEF Load
  <2> QED  BY <2>6
<1> QED  BY <1>1, <1>2 DEF CheckInv, Underway, Initialised, Asked

LEMMA CheckRestart == ASSUME Restart PROVE CheckInv'
<1>1. PICK a \in DOMAIN Cases : \E c \in Cases[a] :
        app' = a /\ test_case' = c /\ todo' = main(a, c)
  BY DEF Restart
<1>2. PICK c \in Cases[a] : app' = a /\ test_case' = c /\ todo' = main(a, c)
  BY <1>1
<1>3. todo' # <<>> /\ Head(todo') = "gpio_init" /\ mode' = "starting"
  BY <1>2, MainList DEF Restart
<1>4. a # "UDP_SERVER" => Has(main(a, c), "verify") /\ Has(main(a, c), "wait")
  BY TestLists
<1> QED  BY <1>2, <1>3, <1>4 DEF CheckInv, Underway, Initialised

LEMMA CheckStep == ASSUME ListInv, CheckInv, [Next]_vars PROVE CheckInv'
<1>1. CASE Restart
  BY <1>1, CheckRestart
<1>2. CASE app = "UDP_SERVER" /\ ~Restart
  <2>1. app' = "UDP_SERVER"
    <3>1. CASE Datagram
      <4>1. PICK d \in Requests : handle_udp_command(Received(d))
        BY <3>1 DEF Datagram
      <4> QED  BY <1>2, <4>1, CommandStep DEF CommandDecides
    <3>2. CASE ~Datagram
      BY <1>2, <3>2 DEF Next, GpioInit, GtInit, SpiInit, ChipId, Disable, ResetOn, ResetOff, Enable,
         Select, Apply, RateRequest, Write, Verify, Wait, Pass, CheckCode, GtReady, Netif, Pcb,
         Receive, SendResponse, Load, Return, Exit, Reply, vars, program
    <3> QED  BY <3>1, <3>2
  <2> QED  BY <2>1 DEF CheckInv, Underway
<1>3. CASE app # "UDP_SERVER" /\ ~Restart
  <2>1. ~Datagram /\ ~RateRequest /\ ~SendResponse /\ ~Receive
    BY <1>3, HeadOfList DEF ListInv, Datagram, RateRequest, SendResponse, Receive, Call
  <2>2. CASE GpioInit \/ SpiInit \/ Verify \/ Wait \/ Enable \/ Load
    BY <1>3, <2>2, CheckGpioInit, CheckSpiInit, CheckVerify, CheckWait, CheckEnable, CheckLoad
  <2>3. CASE GtInit \/ ChipId \/ GtReady \/ Netif \/ Pcb \/ Pass \/ CheckCode
    <3>1. /\ todo # <<>> /\ Head(todo) \notin {"gpio_init", "verify", "wait"}
          /\ UNCHANGED <<app, test_case, control, bram, cfg>>
          /\ \/ todo' = Tail(todo) /\ mode' = mode
             \/ todo' = <<>> /\ mode' \notin {"starting", "enabled"}
      BY <2>3 DEF GtInit, ChipId, GtReady, Netif, Pcb, Pass, CheckCode, Call, Return, Exit, NoIO
    <3> QED  BY <1>3, <3>1, CheckTail, CheckStop
  <2>4. CASE Disable \/ ResetOn \/ ResetOff \/ Apply
    <3>1. /\ todo # <<>> /\ Head(todo) \notin {"gpio_init", "verify", "wait"}
          /\ UNCHANGED <<app, test_case, mode, bram, cfg>> /\ todo' = Tail(todo)
      BY <2>4 DEF Disable, ResetOn, ResetOff, Apply, Call, Return, WriteControl
    <3>2. /\ control \cap INDEX_MASK = {} => control' \cap INDEX_MASK = {}
          /\ 9 \in control' => 9 \in control
      BY <2>4 DEF Disable, ResetOn, ResetOff, Apply, WriteControl, ENABLE, SOFT_RESET,
         APPLY_TOGGLE, Flipped, INDEX_MASK
    <3> QED  BY <1>3, <3>1, <3>2, CheckTail
  <2>5. CASE Select
    <3>1. /\ todo # <<>> /\ Head(todo) = "select" /\ todo' = Tail(todo)
          /\ UNCHANGED <<app, test_case, mode, bram, cfg>>
          /\ control' = Selected(control, Byte(job.index), job.source, job.len127)
      BY <2>5 DEF Select, Call, Return, WriteControl
    <3>2. Byte(job.index) = 0
      <4>1. job.index = 0
        BY <1>3, TestRecords DEF ListInv
      <4> QED  BY <4>1, CastsKeep
    <3>3. control' \cap INDEX_MASK = {} /\ (9 \in control' <=> 9 \in control)
      BY <3>1, <3>2, SelectBits, BitsOfZero
    <3> QED  BY <1>3, <3>1, <3>3, CheckTail
  <2>6. CASE Write
    <3>1. /\ todo # <<>> /\ Head(todo) = "write" /\ todo' = Tail(todo) /\ todo \in Seq(Calls)
          /\ UNCHANGED <<app, test_case, mode, control, cfg>>
      BY <2>6 DEF Write, Call, Return, ListInv
    <3>2. 1 \in 1 .. Len(todo) /\ 1 < Len(todo) /\ todo[1 + 1] = "verify"
      BY <3>1, HeadOfList DEF ListInv, Orderly
    <3>3. 1 + 1 \in 1 .. Len(todo)
      BY <3>1, <3>2
    <3>4. Has(Tail(todo), "verify")
      BY <3>1, <3>2, <3>3, HasTail DEF Has
    <3> QED  BY <1>3, <3>1, <3>4, CheckTail
  <2>7. CASE UNCHANGED vars
    BY <2>7 DEF vars, program, CheckInv, Underway, Initialised, Asked
  <2> QED  BY <1>3, <2>1, <2>2, <2>3, <2>4, <2>5, <2>6, <2>7 DEF Next
<1> QED  BY <1>1, <1>2, <1>3

LEMMA CheckInit == ASSUME Init PROVE CheckInv
<1>1. /\ app \in DOMAIN Cases /\ todo = main(app, test_case) /\ mode = "starting"
  BY DEF Init
<1>2. todo # <<>> /\ Head(todo) = "gpio_init"
  BY <1>1, MainList
<1>3. app # "UDP_SERVER" => Has(todo, "verify") /\ Has(todo, "wait")
  BY <1>1, TestLists
<1> QED  BY <1>1, <1>2, <1>3 DEF CheckInv, Underway, Initialised

\* A test that has the transmitter enabled has written its record, read it back
\* and seen it accepted by the loader; it enables it last, and only if it
\* expects no error.
THEOREM EnabledChecked == Spec => []EnabledIsChecked
<1> DEFINE Inv == ListInv /\ CheckInv
<1>1. Init => Inv
  BY ListInit, CheckInit
<1>2. Inv /\ [Next]_vars => Inv'
  BY ListStep, CheckStep
<1>3. Inv => EnabledIsChecked
  <2>1. SUFFICES ASSUME Inv, Underway, 9 \in control
        PROVE  /\ mode = "enabled" /\ bram[0] = Asked
               /\ cfg.valid /\ cfg.code = 0 /\ ~Expects(app, test_case)
    BY DEF EnabledIsChecked, Underway, Asked, ENABLE
  <2>2. mode = "enabled" /\ todo = <<>> /\ ~Expects(app, test_case)
    BY <2>1 DEF CheckInv
  <2>3. ~Has(todo, "verify") /\ ~Has(todo, "wait")
    BY <2>2 DEF Has
  <2> QED  BY <2>1, <2>2, <2>3 DEF CheckInv
<1> QED  BY <1>1, <1>2, <1>3, PTL DEF Spec

-----------------------------------------------------------------------------
(* The verdict of a test on a board that has just been configured *)

\* Where a test stands shows in how many calls are left: after "apply" it makes
\* so many, "wait" first.  What it ends with if it expects an error comes last.
AfterApply(a, expects) == IF a = "UART_TEST" /\ ~expects THEN 3 ELSE 2
Placed(s, n) ==
  \A k \in 1 .. Len(s) :
    /\ s[k] = "apply" <=> k = Len(s) - n
    /\ s[k] = "wait" <=> k = Len(s) - n + 1
    /\ s[k] \in {"pass", "check_code"} => k = Len(s)
Ends(s, a, expects) ==
  \A k \in 1 .. Len(s) :
    /\ s[k] \in {"pass", "check_code"} => expects
    /\ s[k] = "check_code" => a = "CORE_TEST"

LEMMA PlacedTail ==
  ASSUME NEW s \in Seq(Calls), s # <<>>, NEW n \in {2, 3}, Placed(s, n)
  PROVE  /\ Placed(Tail(s), n)
         /\ Len(Tail(s)) = Len(s) - 1 /\ Len(s) \in Nat \ {0}
         /\ Head(s) = "apply" <=> Len(s) = n + 1
         /\ Head(s) = "wait" <=> Len(s) = n
         /\ Head(s) \in {"pass", "check_code"} => Len(s) = 1
<1> DEFINE t == Tail(s)
<1>1. /\ t \in Seq(Calls) /\ Len(t) = Len(s) - 1 /\ Len(s) \in Nat \ {0}
      /\ \A k \in 1 .. Len(t) : t[k] = s[k + 1]
      /\ Head(s) = s[1]
  BY TailOfList
<1> HIDE DEF t
<1>2. \A k \in 1 .. Len(s) :
        /\ s[k] = "apply" <=> k = Len(s) - n
        /\ s[k] = "wait" <=> k = Len(s) - n + 1
        /\ s[k] \in {"pass", "check_code"} => k = Len(s)
  BY DEF Placed
<1>3. ASSUME NEW k \in 1 .. Len(t)
      PROVE  /\ t[k] = "apply" <=> k = Len(t) - n
             /\ t[k] = "wait" <=> k = Len(t) - n + 1
             /\ t[k] \in {"pass", "check_code"} => k = Len(t)
  <2>1. k + 1 \in 1 .. Len(s) /\ t[k] = s[k + 1]
    BY <1>1
  <2>2. /\ k + 1 = Len(s) - n <=> k = Len(t) - n
        /\ k + 1 = Len(s) - n + 1 <=> k = Len(t) - n + 1
        /\ k + 1 = Len(s) <=> k = Len(t)
    BY <1>1
  <2> QED  BY <1>2, <2>1, <2>2, Zenon
<1>4. Placed(t, n)
  BY <1>3 DEF Placed
<1>5. /\ Head(s) = "apply" <=> 1 = Len(s) - n
      /\ Head(s) = "wait" <=> 1 = Len(s) - n + 1
      /\ Head(s) \in {"pass", "check_code"} => 1 = Len(s)
  BY <1>1, <1>2
<1>6. /\ 1 = Len(s) - n <=> Len(s) = n + 1
      /\ 1 = Len(s) - n + 1 <=> Len(s) = n
  BY <1>1
<1> QED  BY <1>1, <1>4, <1>5, <1>6 DEF t

LEMMA EndsTail ==
  ASSUME NEW s \in Seq(Calls), s # <<>>, NEW a, NEW e, Ends(s, a, e)
  PROVE  /\ Ends(Tail(s), a, e)
         /\ Head(s) \in {"pass", "check_code"} => e
         /\ Head(s) = "check_code" => a = "CORE_TEST"
BY TailOfList DEF Ends

LEMMA PlacedEmpty == ASSUME NEW n, NEW a, NEW e PROVE Placed(<<>>, n) /\ Ends(<<>>, a, e)
BY DEF Placed, Ends

LEMMA MainPlaced ==
  ASSUME NEW a \in DOMAIN Cases, a # "UDP_SERVER", NEW c
  PROVE  /\ Placed(main(a, c), AfterApply(a, Expects(a, c)))
         /\ Ends(main(a, c), a, Expects(a, c))
         /\ Len(main(a, c)) > AfterApply(a, Expects(a, c))
<1>1. CASE a = "UART_TEST" /\ Expects(a, c)
  <2> DEFINE s == main(a, c)
  <2>1. s = run_uart_test(c) /\ UartExpects(c) /\ AfterApply(a, Expects(a, c)) = 2
    BY <1>1 DEF main, Expects, AfterApply
  <2>2. /\ Len(s) = 16
        /\ s[1] = "gpio_init" /\ s[2] = "gt_init" /\ s[3] = "disable" /\ s[4] = "reset_on"
        /\ s[5] = "reset_off" /\ s[6] = "spi_init" /\ s[7] = "chip_id" /\ s[8] = "disable"
        /\ s[9] = "reset_on" /\ s[10] = "reset_off" /\ s[11] = "write" /\ s[12] = "verify"
        /\ s[13] = "select" /\ s[14] = "apply" /\ s[15] = "wait" /\ s[16] = "pass"
    BY <2>1 DEF run_uart_test, laser_init_control_hw
  <2> HIDE DEF s
  <2>3. Placed(s, 2) /\ Len(s) > 2
    BY <2>2 DEF Placed
  <2>4. Ends(s, a, Expects(a, c))
    BY <1>1, <2>2 DEF Ends
  <2> QED  BY <2>1, <2>3, <2>4 DEF s
<1>2. CASE a = "UART_TEST" /\ ~Expects(a, c)
  <2> DEFINE s == main(a, c)
  <2>1. s = run_uart_test(c) /\ ~UartExpects(c) /\ AfterApply(a, Expects(a, c)) = 3
    BY <1>2 DEF main, Expects, AfterApply
  <2>2. /\ Len(s) = 17
        /\ s[1] = "gpio_init" /\ s[2] = "gt_init" /\ s[3] = "disable" /\ s[4] = "reset_on"
        /\ s[5] = "reset_off" /\ s[6] = "spi_init" /\ s[7] = "chip_id" /\ s[8] = "disable"
        /\ s[9] = "reset_on" /\ s[10] = "reset_off" /\ s[11] = "write" /\ s[12] = "verify"
        /\ s[13] = "select" /\ s[14] = "apply" /\ s[15] = "wait" /\ s[16] = "gt_ready"
        /\ s[17] = "enable"
    BY <2>1 DEF run_uart_test, laser_init_control_hw
  <2> HIDE DEF s
  <2>3. Placed(s, 3) /\ Len(s) > 3
    BY <2>2 DEF Placed
  <2>4. Ends(s, a, Expects(a, c))
    BY <1>2, <2>2 DEF Ends
  <2> QED  BY <2>1, <2>3, <2>4 DEF s
<1>3. CASE a = "CORE_TEST" /\ Expects(a, c)
  <2> DEFINE s == main(a, c)
  <2>1. s = run_core_test(c) /\ CoreExpects(c) /\ AfterApply(a, Expects(a, c)) = 2
    BY <1>3 DEF main, Expects, AfterApply
  <2>2. /\ Len(s) = 10
        /\ s[1] = "gpio_init" /\ s[2] = "disable" /\ s[3] = "reset_on" /\ s[4] = "reset_off"
        /\ s[5] = "write" /\ s[6] = "verify" /\ s[7] = "select" /\ s[8] = "apply"
        /\ s[9] = "wait" /\ s[10] = "check_code"
    BY <2>1 DEF run_core_test
  <2> HIDE DEF s
  <2>3. Placed(s, 2) /\ Len(s) > 2
    BY <2>2 DEF Placed
  <2>4. Ends(s, a, Expects(a, c))
    BY <1>3, <2>2 DEF Ends
  <2> QED  BY <2>1, <2>3, <2>4 DEF s
<1>4. CASE a = "CORE_TEST" /\ ~Expects(a, c)
  <2> DEFINE s == main(a, c)
  <2>1. s = run_core_test(c) /\ ~CoreExpects(c) /\ AfterApply(a, Expects(a, c)) = 2
    BY <1>4 DEF main, Expects, AfterApply
  <2>2. /\ Len(s) = 10
        /\ s[1] = "gpio_init" /\ s[2] = "disable" /\ s[3] = "reset_on" /\ s[4] = "reset_off"
        /\ s[5] = "write" /\ s[6] = "verify" /\ s[7] = "select" /\ s[8] = "apply"
        /\ s[9] = "wait" /\ s[10] = "enable"
    BY <2>1 DEF run_core_test
  <2> HIDE DEF s
  <2>3. Placed(s, 2) /\ Len(s) > 2
    BY <2>2 DEF Placed
  <2>4. Ends(s, a, Expects(a, c))
    BY <1>4, <2>2 DEF Ends
  <2> QED  BY <2>1, <2>3, <2>4 DEF s
<1> QED  BY <1>1, <1>2, <1>3, <1>4, Programs

\* The first load of the board is the test's own: until it applies, the loader
\* has judged nothing, and from then on it has judged nothing or the record of
\* the test.  A test that is past its wait has seen that verdict.
CallsLeft == AfterApply(app, Expects(app, test_case))
NotLoaded == [valid |-> FALSE, code |-> 0]
Verdict   == [valid |-> LoadError(Asked) = 0, code |-> LoadError(Asked)]
Fresh     == ~apply_seen /\ 8 \notin control /\ cfg = NotLoaded
Applied   == 8 \in control /\ (cfg = IF apply_seen THEN Verdict ELSE NotLoaded)
Judged    == apply_seen /\ (Expects(app, test_case) => LoadError(Asked) # 0)

PlacedInv ==
  /\ boots \in Nat \ {0}
  /\ app # "UDP_SERVER" =>
       Placed(todo, CallsLeft) /\ Ends(todo, app, Expects(app, test_case))
FirstInv ==
  boots = 1 /\ app # "UDP_SERVER" /\ mode = "starting" =>
    /\ Len(todo) > CallsLeft => Fresh
    /\ Len(todo) <= CallsLeft => Applied
    /\ Len(todo) < CallsLeft => Judged
ServerInv == app = "UDP_SERVER" => mode \notin {"passed", "failed_result"}
ColdInv == PlacedInv /\ FirstInv /\ ServerInv /\ (app # "UDP_SERVER" => ColdVerdict)

\* Popping a call that is not one of the two keeps the stage.
LEMMA StageKept ==
  ASSUME NEW l \in Nat, NEW m \in Int, NEW n \in Nat, l # n + 1, l # n,
         m = l - 1 \/ (m = l - 2 /\ l - 1 # n + 1)
  PROVE  (m > n <=> l > n) /\ (m <= n <=> l <= n) /\ (m < n <=> l < n)
OBVIOUS

LEMMA PlacedHead ==
  ASSUME ListInv, CheckInv, PlacedInv, app # "UDP_SERVER", todo # <<>>
  PROVE  /\ mode = "starting" /\ Len(todo) \in Nat \ {0} /\ CallsLeft \in {2, 3}
         /\ Len(Tail(todo)) = Len(todo) - 1
         /\ Placed(Tail(todo), CallsLeft) /\ Ends(Tail(todo), app, Expects(app, test_case))
         /\ Head(todo) = "apply" <=> Len(todo) = CallsLeft + 1
         /\ Head(todo) = "wait" <=> Len(todo) = CallsLeft
         /\ Head(todo) \in {"pass", "check_code"} => Len(todo) = 1 /\ Expects(app, test_case)
         /\ Head(todo) = "check_code" => app = "CORE_TEST"
<1>1. /\ todo \in Seq(Calls) /\ mode = "starting"
      /\ Placed(todo, CallsLeft) /\ Ends(todo, app, Expects(app, test_case))
  BY DEF ListInv, CheckInv, PlacedInv
<1>2. CallsLeft \in {2, 3}
  BY DEF CallsLeft, AfterApply
<1>3. /\ Len(todo) \in Nat \ {0} /\ Len(Tail(todo)) = Len(todo) - 1
      /\ Placed(Tail(todo), CallsLeft)
      /\ Head(todo) = "apply" <=> Len(todo) = CallsLeft + 1
      /\ Head(todo) = "wait" <=> Len(todo) = CallsLeft
      /\ Head(todo) \in {"pass", "check_code"} => Len(todo) = 1
  BY <1>1, <1>2, PlacedTail
<1>4. /\ Ends(Tail(todo), app, Expects(app, test_case))
      /\ Head(todo) \in {"pass", "check_code"} => Expects(app, test_case)
      /\ Head(todo) = "check_code" => app = "CORE_TEST"
  BY <1>1, EndsTail
<1> QED  BY <1>1, <1>2, <1>3, <1>4, Zenon

LEMMA PlacedSpi ==
  ASSUME ListInv, CheckInv, PlacedInv, app # "UDP_SERVER", todo # <<>>, Head(todo) = "spi_init"
  PROVE  /\ Tail(todo) # <<>> /\ Tail(todo) \in Seq(Calls)
         /\ Placed(Tail(Tail(todo)), CallsLeft)
         /\ Ends(Tail(Tail(todo)), app, Expects(app, test_case))
         /\ Len(Tail(Tail(todo))) = Len(todo) - 2
         /\ Len(todo) - 1 # CallsLeft + 1 /\ Len(todo) - 1 # CallsLeft
<1>1. todo \in Seq(Calls) /\ Orderly(todo) /\ todo[1] = "spi_init" /\ 1 \in 1 .. Len(todo)
  BY HeadOfList DEF ListInv
<1>2. 1 < Len(todo) /\ todo[1 + 1] = "chip_id"
  BY <1>1 DEF Orderly
<1>3. /\ Tail(todo) \in Seq(Calls) /\ Len(Tail(todo)) = Len(todo) - 1 /\ Len(todo) \in Nat
      /\ \A k \in 1 .. Len(Tail(todo)) : Tail(todo)[k] = todo[k + 1]
  BY <1>1, TailOfList
<1>4. Len(Tail(todo)) # 0 /\ 1 \in 1 .. Len(Tail(todo))
  BY <1>2, <1>3
<1>5. Tail(todo) # <<>> /\ Tail(todo)[1] = "chip_id"
  BY <1>2, <1>3, <1>4, EmptySeq
<1>6. Head(Tail(todo)) = "chip_id"
  BY <1>3, <1>5, TailOfList
<1>7. /\ Placed(Tail(todo), CallsLeft) /\ Ends(Tail(todo), app, Expects(app, test_case))
      /\ CallsLeft \in {2, 3}
  BY PlacedHead
<1>8. /\ Placed(Tail(Tail(todo)), CallsLeft)
      /\ Len(Tail(Tail(todo))) = Len(Tail(todo)) - 1
      /\ Len(Tail(todo)) # CallsLeft + 1 /\ Len(Tail(todo)) # CallsLeft
  BY <1>3, <1>5, <1>6, <1>7, PlacedTail
<1>9. Len(Tail(Tail(todo))) = Len(todo) - 2
  BY <1>3, <1>8
<1>10. Ends(Tail(Tail(todo)), app, Expects(app, test_case))
  BY <1>3, <1>5, <1>7, EndsTail
<1> QED  BY <1>3, <1>5, <1>8, <1>9, <1>10

\* A call that returns, and touches neither the loader nor the toggle.
LEMMA ColdTail ==
  ASSUME ListInv, CheckInv, ColdInv, app # "UDP_SERVER", todo # <<>>, todo' = Tail(todo),
         Head(todo) \notin {"apply", "wait"},
         UNCHANGED <<app, test_case, mode, cfg, apply_seen, boots>>,
         boots = 1 => (8 \in control' <=> 8 \in control)
  PROVE  ColdInv'
<1>1. PlacedInv /\ FirstInv
  BY DEF ColdInv
<1>2. /\ Len(todo) \in Nat \ {0} /\ CallsLeft \in {2, 3}
      /\ Len(todo') = Len(todo) - 1
      /\ Len(todo) # CallsLeft + 1 /\ Len(todo) # CallsLeft
  BY <1>1, PlacedHead
<1>9. /\ mode = "starting" /\ Placed(todo', CallsLeft)
      /\ Ends(todo', app, Expects(app, test_case))
  BY <1>1, PlacedHead
<1>10. app' = app /\ test_case' = test_case /\ mode' = mode /\ boots' = boots
  OBVIOUS
<1>3. CallsLeft' = CallsLeft /\ Verdict' = Verdict /\ Asked' = Asked
  BY DEF CallsLeft, Verdict, Asked
<1>4. /\ Len(todo') > CallsLeft <=> Len(todo) > CallsLeft
      /\ Len(todo') <= CallsLeft <=> Len(todo) <= CallsLeft
      /\ Len(todo') < CallsLeft <=> Len(todo) < CallsLeft
  <2> DEFINE l == Len(todo)
             m == Len(todo')
  <2>1. l \in Nat /\ l # CallsLeft + 1 /\ l # CallsLeft
    BY <1>2
  <2>3. m = l - 1
    BY <1>2
  <2>4. CallsLeft \in Nat
    BY DEF CallsLeft, AfterApply
  <2> HIDE DEF l, m
  <2>2. m \in Int
    BY <2>1, <2>3
  <2> QED  BY <2>1, <2>2, <2>3, <2>4, StageKept DEF l, m
<1>5. boots = 1 => (Fresh => Fresh') /\ (Applied => Applied') /\ (Judged => Judged')
  BY <1>3 DEF Fresh, Applied, Judged, NotLoaded
<1>6. PlacedInv'
  BY <1>1, <1>3, <1>9, <1>10 DEF PlacedInv
<1>7. FirstInv'
  <2>1. SUFFICES ASSUME boots = 1
        PROVE  /\ Len(todo') > CallsLeft => Fresh'
               /\ Len(todo') <= CallsLeft => Applied'
               /\ Len(todo') < CallsLeft => Judged'
    BY <1>3, <1>10, Zenon DEF FirstInv
  <2>2. /\ Len(todo) > CallsLeft => Fresh
        /\ Len(todo) <= CallsLeft => Applied
        /\ Len(todo) < CallsLeft => Judged
    BY <1>1, <1>9, <2>1, Zenon DEF FirstInv
  <2> QED  BY <1>4, <1>5, <2>1, <2>2, Zenon
<1>8. ColdVerdict'
  BY <1>9, <1>10 DEF ColdVerdict
<1> QED  BY <1>6, <1>7, <1>8, <1>10 DEF ColdInv, ServerInv

LEMMA ColdSpiInit ==
  ASSUME ListInv, CheckInv, ColdInv, app # "UDP_SERVER", SpiInit
  PROVE  ColdInv'
<1>1. /\ PlacedInv /\ FirstInv /\ todo # <<>> /\ Head(todo) = "spi_init"
      /\ UNCHANGED <<app, test_case, mode, control, cfg, apply_seen, boots>>
  BY DEF ColdInv, SpiInit, Call, NoIO, Return
<1>2. CASE todo' = Tail(todo)
  BY <1>1, <1>2, ColdTail
<1>3. CASE todo' = Tail(Tail(todo))
  <2>1. /\ mode = "starting" /\ Len(todo) \in Nat \ {0} /\ CallsLeft \in {2, 3}
        /\ Len(todo) # CallsLeft + 1 /\ Len(todo) # CallsLeft
    BY <1>1, PlacedHead
  <2>2. /\ Placed(todo', CallsLeft) /\ Ends(todo', app, Expects(app, test_case))
        /\ Len(todo') = Len(todo) - 2
        /\ Len(todo) - 1 # CallsLeft + 1
    BY <1>1, <1>3, PlacedSpi
  <2>3. CallsLeft' = CallsLeft /\ Verdict' = Verdict /\ Asked' = Asked
    BY <1>1 DEF CallsLeft, Verdict, Asked
  <2>4. /\ Len(todo') > CallsLeft <=> Len(todo) > CallsLeft
        /\ Len(todo') <= CallsLeft <=> Len(todo) <= CallsLeft
        /\ Len(todo') < CallsLeft <=> Len(todo) < CallsLeft
    <3>1. Len(todo) \in Nat /\ Len(todo') \in Int /\ CallsLeft \in Nat
      BY <2>1, <2>2
    <3> QED  BY <2>1, <2>2, <3>1, StageKept, Zenon
  <2>5. (Fresh => Fresh') /\ (Applied => Applied') /\ (Judged => Judged')
    BY <1>1, <2>3 DEF Fresh, Applied, Judged, NotLoaded
  <2>6. PlacedInv'
    BY <1>1, <2>2, <2>3 DEF PlacedInv
  <2>9. app' = app /\ test_case' = test_case /\ mode' = mode /\ boots' = boots
    BY <1>1
  <2>7. FirstInv'
    <3>1. SUFFICES ASSUME boots = 1
          PROVE  /\ Len(todo') > CallsLeft => Fresh'
                 /\ Len(todo') <= CallsLeft => Applied'
                 /\ Len(todo') < CallsLeft => Judged'
      BY <2>3, <2>9, Zenon DEF FirstInv
    <3>2. /\ Len(todo) > CallsLeft => Fresh
          /\ Len(todo) <= CallsLeft => Applied
          /\ Len(todo) < CallsLeft => Judged
      BY <1>1, <2>1, <3>1, Zenon DEF FirstInv
    <3> QED  BY <2>4, <2>5, <3>2, Zenon
  <2>8. ColdVerdict'
    BY <1>1, <2>1 DEF ColdVerdict
  <2> QED  BY <2>6, <2>7, <2>8, <2>9 DEF ColdInv, ServerInv
<1> QED  BY <1>2, <1>3 DEF SpiInit, Return

\* A test that ends: what it reports is ColdVerdict's.
LEMMA ColdStop ==
  ASSUME ColdInv, app # "UDP_SERVER", todo' = <<>>, mode' # "starting", UNCHANGED <<app, test_case, boots>>,
         ColdVerdict'
  PROVE  ColdInv'
<1>1. PlacedInv'
  BY PlacedEmpty DEF ColdInv, PlacedInv
<1> QED  BY <1>1 DEF ColdInv, FirstInv, ServerInv

LEMMA ColdApply ==
  ASSUME ListInv, CheckInv, ColdInv, app # "UDP_SERVER", Apply
  PROVE  ColdInv'
<1>1. /\ PlacedInv /\ FirstInv /\ todo # <<>> /\ Head(todo) = "apply" /\ todo' = Tail(todo)
      /\ UNCHANGED <<app, test_case, mode, cfg, apply_seen, boots>>
      /\ control' = Flipped(control, APPLY_TOGGLE)
  BY DEF ColdInv, Apply, Call, Return, WriteControl
<1>2. /\ mode = "starting" /\ Len(todo) \in Nat \ {0} /\ CallsLeft \in {2, 3}
      /\ Len(todo) = CallsLeft + 1 /\ Len(todo') = Len(todo) - 1
      /\ Placed(todo', CallsLeft)
      /\ Ends(todo', app, Expects(app, test_case))
  BY <1>1, PlacedHead
<1>3. CallsLeft' = CallsLeft
  BY <1>1 DEF CallsLeft
<1>4. Len(todo) > CallsLeft /\ Len(todo') = CallsLeft
  BY <1>2
<1>5. ~(Len(todo') > CallsLeft) /\ ~(Len(todo') < CallsLeft)
  BY <1>2, <1>4
<1>6. boots = 1 => Applied'
  <2>1. SUFFICES ASSUME boots = 1 PROVE Applied'
    OBVIOUS
  <2>2. ~apply_seen /\ 8 \notin control /\ cfg = NotLoaded
    BY <1>1, <1>2, <1>4, <2>1 DEF FirstInv, Fresh
  <2>3. 8 \in control'
    BY <1>1, <2>2 DEF Flipped, APPLY_TOGGLE
  <2> QED  BY <1>1, <2>2, <2>3 DEF Applied, NotLoaded
<1>7. PlacedInv' /\ FirstInv'
  BY <1>1, <1>2, <1>3, <1>5, <1>6 DEF PlacedInv, FirstInv
<1>8. ColdVerdict'
  BY <1>1, <1>2 DEF ColdVerdict
<1> QED  BY <1>1, <1>7, <1>8 DEF ColdInv, ServerInv

\* From the apply on the test's record is in the BRAM, at the index selected.
LEMMA NoVerify ==
  ASSUME ListInv, PlacedInv, app # "UDP_SERVER", Len(todo) <= CallsLeft
  PROVE  ~Has(todo, "verify")
<1>1. SUFFICES ASSUME NEW k \in 1 .. Len(todo), todo[k] = "verify" PROVE FALSE
  BY DEF Has
<1>2. k + 3 <= Len(todo) /\ todo[k + 2] = "apply" /\ todo \in Seq(Calls)
  BY <1>1 DEF ListInv, Testing
<1>3. k + 2 \in 1 .. Len(todo) /\ Len(todo) \in Nat
  BY <1>2
<1>4. k + 2 = Len(todo) - CallsLeft
  BY <1>2, <1>3 DEF PlacedInv, Placed
<1>5. CallsLeft \in Nat
  BY DEF CallsLeft, AfterApply
<1> QED  BY <1>3, <1>4, <1>5

LEMMA AskedStored ==
  ASSUME ListInv, CheckInv, PlacedInv, app # "UDP_SERVER", mode = "starting",
         Len(todo) <= CallsLeft
  PROVE  /\ Initialised /\ bram[0] = Asked
         /\ Index(Ports.config_index) = 0
<1>1. ~Has(todo, "verify")
  BY NoVerify
<1>2. Initialised
  BY <1>1 DEF CheckInv
<1>3. bram[0] = Asked /\ control \cap INDEX_MASK = {}
  BY <1>1, <1>2 DEF CheckInv, Underway
<1>4. Ports.config_index = {}
  BY <1>3 DEF Ports, ControlPorts
<1> QED  BY <1>2, <1>3, <1>4, IndexZero

LEMMA ExpectsBoolean == Expects(app, test_case) \in BOOLEAN
BY DEF Expects

\* What the poll makes of a loader that has judged nothing, and of its verdict.
LEMMA Results ==
  ASSUME app \in {"UART_TEST", "CORE_TEST"}
  PROVE  /\ cfg = NotLoaded => PollResult = "none"
         /\ cfg = Verdict => /\ PollResult = "awaited" /\ Expects(app, test_case) => LoadError(Asked) # 0
                             /\ PollResult # "awaited" => (LoadError(Asked) = 0) = Expects(app, test_case)
<1>1. CASE app = "UART_TEST"
  <2>1. PollResult = UartResult(test_case) /\ Expects(app, test_case) = UartExpects(test_case)
    <3>1. CASE UartExpects(test_case)
      BY <1>1, <3>1 DEF PollResult, Expects, UartExpects
    <3>2. CASE ~UartExpects(test_case)
      <4>1. ~Expects(app, test_case)
        BY <1>1, <3>2 DEF Expects
      <4>2. Expects(app, test_case) = FALSE /\ UartExpects(test_case) = FALSE
        BY <4>1, <3>2, ExpectsBoolean DEF UartExpects
      <4> QED  BY <1>1, <4>2 DEF PollResult
    <3> QED  BY <3>1, <3>2
  <2>2. cfg = NotLoaded => PollResult = "none"
    BY <2>1 DEF NotLoaded, UartResult
  <2>3. ASSUME cfg = Verdict
        PROVE  /\ PollResult = "awaited" /\ UartExpects(test_case) => LoadError(Asked) # 0
               /\ PollResult # "awaited" => (LoadError(Asked) = 0) = UartExpects(test_case)
    <3>1. (cfg.valid <=> LoadError(Asked) = 0) /\ cfg.code = LoadError(Asked)
      BY <2>3 DEF Verdict
    <3>2. CASE UartExpects(test_case)
      BY <2>1, <3>1, <3>2 DEF UartResult
    <3>3. CASE ~UartExpects(test_case)
      <4>1. UartExpects(test_case) = FALSE
        BY <3>3 DEF UartExpects
      <4> QED  BY <2>1, <3>1, <4>1 DEF UartResult
    <3> QED  BY <3>2, <3>3
  <2> QED  BY <2>1, <2>2, <2>3
<1>2. CASE app = "CORE_TEST"
  <2>1. PollResult = CoreResult(test_case) /\ Expects(app, test_case) = CoreExpects(test_case)
    BY <1>2 DEF PollResult, Expects, CoreExpects
  <2>2. cfg = NotLoaded => PollResult = "none"
    BY <2>1 DEF NotLoaded, CoreResult
  <2>3. ASSUME cfg = Verdict
        PROVE  /\ PollResult = "awaited" /\ CoreExpects(test_case) => LoadError(Asked) # 0
               /\ PollResult # "awaited" => (LoadError(Asked) = 0) = CoreExpects(test_case)
    <3>1. (cfg.valid <=> LoadError(Asked) = 0) /\ cfg.code = LoadError(Asked)
      BY <2>3 DEF Verdict
    <3>2. CASE CoreExpects(test_case)
      BY <2>1, <3>1, <3>2 DEF CoreResult, CoreExpects
    <3>3. CASE ~CoreExpects(test_case)
      <4>1. CoreExpects(test_case) = FALSE
        BY <3>3 DEF CoreExpects
      <4> QED  BY <2>1, <3>1, <4>1 DEF CoreResult
    <3> QED  BY <3>2, <3>3
  <2> QED  BY <2>1, <2>2, <2>3
<1> QED  BY <1>1, <1>2

LEMMA ColdWait ==
  ASSUME ListInv, CheckInv, ColdInv, app # "UDP_SERVER", Wait
  PROVE  ColdInv'
<1>1. /\ PlacedInv /\ FirstInv /\ todo # <<>> /\ Head(todo) = "wait" /\ todo \in Seq(Calls)
      /\ UNCHANGED <<bram, control, cfg, apply_seen, boots>>
      /\ app \in {"UART_TEST", "CORE_TEST"}
  BY Programs DEF ColdInv, Wait, Call, NoIO, ListInv
<1>2. /\ mode = "starting" /\ Len(todo) \in Nat \ {0} /\ Len(todo) = CallsLeft
      /\ Len(Tail(todo)) = Len(todo) - 1
      /\ Placed(Tail(todo), CallsLeft) /\ Ends(Tail(todo), app, Expects(app, test_case))
  BY <1>1, PlacedHead
<1>3. Len(todo) <= CallsLeft
  BY <1>2
<1>4. boots = 1 => 8 \in control /\ cfg = IF apply_seen THEN Verdict ELSE NotLoaded
  BY <1>1, <1>2, <1>3 DEF FirstInv, Applied
<1>5. bram[0] = Asked
  BY <1>1, <1>2, <1>3, AskedStored
<1>6. CASE PollResult = "awaited" /\ Return
  <2>1. /\ app' = app /\ test_case' = test_case /\ mode' = mode /\ todo' = Tail(todo)
        /\ boots' = boots /\ cfg' = cfg /\ control' = control /\ apply_seen' = apply_seen
    BY <1>1, <1>6 DEF Return
  <2>2. CallsLeft' = CallsLeft /\ Verdict' = Verdict /\ Asked' = Asked
    BY <2>1 DEF CallsLeft, Verdict, Asked
  <2>3. PlacedInv'
    BY <1>1, <1>2, <2>1, <2>2 DEF PlacedInv
  <2>4. ASSUME boots = 1 PROVE Judged /\ Applied
    <3>1. apply_seen
      BY <1>1, <1>4, <1>6, <2>4, Results
    <3>2. cfg = Verdict
      BY <1>4, <2>4, <3>1
    <3>3. Expects(app, test_case) => LoadError(Asked) # 0
      BY <1>1, <1>6, <3>2, Results
    <3> QED  BY <1>4, <2>4, <3>1, <3>3 DEF Judged, Applied
  <2>5. boots = 1 => Judged' /\ Applied'
    BY <2>1, <2>2, <2>4 DEF Judged, Applied, NotLoaded
  <2>6. ~(Len(todo') > CallsLeft)
    BY <1>2, <2>1
  <2>7. FirstInv'
    BY <2>1, <2>2, <2>5, <2>6, Zenon DEF FirstInv
  <2>8. ColdVerdict'
    BY <1>2, <2>1 DEF ColdVerdict
  <2> QED  BY <2>1, <2>3, <2>7, <2>8 DEF ColdInv, ServerInv
<1>7. CASE /\ PollResult = "contrary" \/ (PollResult = "none" /\ polls + 1 = CONFIG_WAIT_ITERATIONS)
           /\ Exit("failed_result")
  <2>1. ASSUME boots = 1 PROVE (LoadError(Asked) = 0) = Expects(app, test_case)
    <3>1. PollResult # "awaited"
      BY <1>7
    <3>2. CASE apply_seen
      BY <1>1, <1>4, <2>1, <3>1, <3>2, Results
    <3>3. CASE ~apply_seen
      <4>1. PollResult = "none"
        BY <1>1, <1>4, <2>1, <3>3, Results
      <4>2. polls + 1 = CONFIG_WAIT_ITERATIONS
        BY <1>7, <4>1
      <4>3. polls # 0
        BY <4>2, FirmwareAssumption
      <4>4. apply_seen = (APPLY_TOGGLE \subseteq control)
        BY <4>3 DEF Wait, LoaderIdle
      <4> QED  BY <1>4, <2>1, <3>3, <4>4 DEF APPLY_TOGGLE
    <3> QED  BY <3>2, <3>3
  <2>2. /\ todo' = <<>> /\ mode' = "failed_result" /\ boots' = boots /\ bram' = bram
        /\ app' = app /\ test_case' = test_case
    BY <1>1, <1>7 DEF Exit
  <2>3. ColdVerdict'
    BY <1>5, <2>1, <2>2 DEF ColdVerdict
  <2> QED  BY <2>2, <2>3, ColdStop
<1>8. CASE UNCHANGED <<app, test_case, mode, todo, job, response>>
  <2>1. /\ app' = app /\ test_case' = test_case /\ mode' = mode /\ todo' = todo /\ bram' = bram
        /\ boots' = boots /\ cfg' = cfg /\ control' = control /\ apply_seen' = apply_seen
    BY <1>1, <1>8
  <2> QED  BY <2>1 DEF ColdInv, ServerInv, PlacedInv, FirstInv, ColdVerdict, Fresh, Applied, Judged, CallsLeft,
              Verdict, NotLoaded, Asked
<1> QED  BY <1>6, <1>7, <1>8 DEF Wait

LEMMA ColdPass ==
  ASSUME ListInv, CheckInv, ColdInv, app # "UDP_SERVER", Pass \/ CheckCode
  PROVE  ColdInv'
<1>1. /\ PlacedInv /\ FirstInv /\ todo # <<>> /\ Head(todo) \in {"pass", "check_code"}
      /\ Pass => Exit("passed")
      /\ CheckCode => /\ Head(todo) = "check_code"
                      /\ Exit("passed") \/ ((cfg.code # 1 \/ boots > 1) /\ Exit("failed_result"))
      /\ bram' = bram /\ boots' = boots
  <2>1. PlacedInv /\ FirstInv
    BY DEF ColdInv
  <2>2. CASE Pass
    BY <2>2, <2>1 DEF Pass, CheckCode, Call, NoIO
  <2>3. CASE CheckCode
    <3>1. todo # <<>> /\ Head(todo) = "check_code" /\ ~Pass /\ bram' = bram /\ boots' = boots
      BY <2>3 DEF Pass, CheckCode, Call, NoIO
    <3>2. Exit("passed") \/ ((cfg.code # 1 \/ boots > 1) /\ Exit("failed_result"))
      BY <2>3 DEF CheckCode, Exit
    <3> QED  BY <2>1, <3>1, <3>2, Zenon
  <2> QED  BY <2>2, <2>3
<1>2. /\ mode = "starting" /\ Len(todo) = 1 /\ CallsLeft \in {2, 3} /\ Expects(app, test_case)
      /\ Head(todo) = "check_code" => app = "CORE_TEST"
  BY <1>1, PlacedHead
<1>3. Len(todo) <= CallsLeft /\ Len(todo) < CallsLeft
  BY <1>2
<1>4. ASSUME boots = 1
      PROVE  /\ LoadError(Asked) # 0 /\ cfg.code = LoadError(Asked)
  <2>1. Applied /\ Judged
    BY <1>1, <1>2, <1>3, <1>4 DEF FirstInv
  <2>2. apply_seen /\ LoadError(Asked) # 0
    BY <1>2, <2>1 DEF Judged
  <2>3. cfg = Verdict
    BY <2>1, <2>2 DEF Applied
  <2> QED  BY <2>2, <2>3 DEF Verdict
<1>5. bram[0] = Asked
  BY <1>1, <1>2, <1>3, AskedStored
<1>6. CASE Exit("passed")
  <2>1. todo' = <<>> /\ mode' = "passed" /\ app' = app /\ test_case' = test_case
    BY <1>6 DEF Exit
  <2>2. ColdVerdict'
    BY <1>1, <1>4, <1>5, <2>1 DEF ColdVerdict
  <2> QED  BY <1>1, <2>1, <2>2, ColdStop
<1>7. CASE CheckCode /\ (cfg.code # 1 \/ boots > 1) /\ Exit("failed_result")
  <2>1. todo' = <<>> /\ mode' = "failed_result" /\ app' = app /\ test_case' = test_case
    BY <1>7 DEF Exit
  <2>2. boots # 1
    <3>1. SUFFICES ASSUME boots = 1 PROVE FALSE
      OBVIOUS
    <3>2. cfg.code # 1
      BY <1>7, <3>1
    <3>3. app = "CORE_TEST" /\ test_case = "INVALID"
      BY <1>1, <1>2, <1>7 DEF Expects, CoreExpects
    <3>4. Asked = ToWords(Test(63, 0, 0, 0, 6, 0))
      BY <3>3 DEF Asked, JobOf, Job, CoreConfig
    <3>5. LoadError(Asked) = 1
      <4> DEFINE c == Test(63, 0, 0, 0, 6, 0)
      <4>1. c \in AllTests
        BY DEF AllTests
      <4>2. c \in Configs /\ Narrow(c) = c /\ Fits(c)
        BY <4>1, TestConfigs DEF Test, Config, Fits
      <4>3. FromWords(ToWords(c)) = c
        BY <4>2, RoundTrip, Zenon
      <4>4. c.repeat_cycles = 0 /\ c.prbs_order = 6 /\ c.insert_after = 0
        BY DEF Test, Config
      <4>5. LoadError(ToWords(c)) = 1
        <5> HIDE DEF c
        <5> QED  BY <4>3, <4>4 DEF LoadError
      <4> QED  BY <3>4, <4>5
    <3> QED  BY <1>4, <3>1, <3>2, <3>5
  <2>3. ColdVerdict'
    BY <1>1, <2>2 DEF ColdVerdict
  <2> QED  BY <1>1, <2>1, <2>3, ColdStop
<1> QED  BY <1>1, <1>6, <1>7

LEMMA ColdGpioInit ==
  ASSUME ListInv, CheckInv, ColdInv, app # "UDP_SERVER", GpioInit
  PROVE  ColdInv'
<1>1. todo # <<>> /\ Head(todo) = "gpio_init" /\ PlacedInv /\ FirstInv
  BY DEF GpioInit, Call, ColdInv
<1>2. CASE Return /\ WriteControl({})
  <2>1. /\ todo' = Tail(todo) /\ control' = {}
        /\ UNCHANGED <<app, test_case, mode, cfg, apply_seen, boots>>
    BY <1>2 DEF Return, WriteControl
  <2>2. Has(todo, "verify")
    BY <1>1 DEF CheckInv, Initialised
  <2>3. ~(Len(todo) <= CallsLeft)
    BY <1>1, <2>2, NoVerify
  <2>4. mode = "starting" /\ Len(todo) \in Nat /\ CallsLeft \in {2, 3}
    BY <1>1, PlacedHead
  <2>5. Len(todo) > CallsLeft
    BY <2>3, <2>4
  <2>6. boots = 1 => 8 \notin control
    BY <1>1, <2>4, <2>5 DEF FirstInv, Fresh
  <2>7. boots = 1 => (8 \in control' <=> 8 \in control)
    BY <2>1, <2>6
  <2> QED  BY <1>1, <2>1, <2>7, ColdTail
<1>3. CASE Exit("failed_gpio") /\ NoIO
  <2>1. /\ todo' = <<>> /\ mode' = "failed_gpio" /\ UNCHANGED <<app, test_case, boots>>
    BY <1>3 DEF Exit, NoIO
  <2>2. ColdVerdict'
    BY <2>1 DEF ColdVerdict
  <2> QED  BY <2>1, <2>2, ColdStop
<1> QED  BY <1>2, <1>3 DEF GpioInit

LEMMA ColdEnable ==
  ASSUME ListInv, CheckInv, ColdInv, app # "UDP_SERVER", Enable
  PROVE  ColdInv'
<1>1. /\ PlacedInv /\ todo # <<>> /\ Head(todo) = "enable" /\ todo' = Tail(todo)
      /\ mode' = (IF mode = "starting" THEN "enabled" ELSE mode)
      /\ app' = app /\ test_case' = test_case /\ boots' = boots
  BY DEF ColdInv, Enable, Call, WriteControl
<1>2. /\ mode = "starting" /\ Placed(Tail(todo), CallsLeft)
      /\ Ends(Tail(todo), app, Expects(app, test_case))
  BY <1>1, PlacedHead
<1>3. CallsLeft' = CallsLeft
  BY <1>1 DEF CallsLeft
<1>4. PlacedInv'
  BY <1>1, <1>2, <1>3 DEF PlacedInv
<1>5. mode' = "enabled"
  BY <1>1, <1>2
<1> QED  BY <1>1, <1>4, <1>5 DEF ColdInv, ServerInv, FirstInv, ColdVerdict

LEMMA ColdLoad ==
  ASSUME ListInv, DeviceType, CheckInv, ColdInv, app # "UDP_SERVER", Load
  PROVE  ColdInv'
<1>1. /\ PlacedInv /\ FirstInv /\ todo \in Seq(Calls)
      /\ app' = app /\ test_case' = test_case /\ mode' = mode /\ todo' = todo /\ bram' = bram
      /\ boots' = boots /\ control' = control
      /\ apply_seen' = ~apply_seen /\ apply_seen # (8 \in control)
  BY DEF ColdInv, Load, program, ListInv, LoaderIdle, APPLY_TOGGLE
<1>2. /\ CallsLeft' = CallsLeft /\ Asked' = Asked /\ Verdict' = Verdict
      /\ Len(todo) \in Nat /\ CallsLeft \in Nat
  BY <1>1 DEF CallsLeft, Asked, Verdict, AfterApply
<1>3. PlacedInv' /\ ColdVerdict'
  BY <1>1, <1>2 DEF ColdInv, PlacedInv, ColdVerdict
<1>4. ASSUME boots = 1, mode = "starting"
      PROVE  /\ ~(Len(todo) > CallsLeft) /\ Applied' /\ ~(Len(todo) < CallsLeft)
  <2>1. /\ Len(todo) > CallsLeft => Fresh
        /\ Len(todo) <= CallsLeft => Applied
        /\ Len(todo) < CallsLeft => Judged
    BY <1>1, <1>4 DEF FirstInv
  <2>2. ~(Len(todo) > CallsLeft)
    <3>1. SUFFICES ASSUME Fresh PROVE FALSE
      BY <2>1
    <3>2. ~apply_seen /\ 8 \notin control
      BY <3>1 DEF Fresh
    <3>3. apply_seen = FALSE
      BY <3>2 DEF DeviceType
    <3>4. apply_seen # (8 \in control)
      BY <1>1
    <3>5. (8 \in control) = FALSE
      BY <3>2
    <3> QED  BY <3>3, <3>4, <3>5
  <2>3. Len(todo) <= CallsLeft
    BY <1>2, <2>2
  <2>4. Applied
    BY <2>1, <2>3
  <2>5. 8 \in control /\ ~apply_seen
    BY <1>1, <2>4 DEF Applied
  <2>6. ~(Len(todo) < CallsLeft)
    BY <2>1, <2>5 DEF Judged
  <2>7. bram[0] = Asked /\ Index(Ports.config_index) = 0
    BY <1>1, <1>4, <2>3, AskedStored
  <2>8. cfg' = Verdict
    BY <2>7 DEF Load, Verdict
  <2>9. Applied'
    BY <1>1, <1>2, <2>5, <2>8 DEF Applied
  <2> QED  BY <2>2, <2>6, <2>9
<1>5. FirstInv'
  BY <1>1, <1>2, <1>4, Zenon DEF FirstInv
<1> QED  BY <1>1, <1>3, <1>5 DEF ColdInv, ServerInv

LEMMA ColdRestart == ASSUME ColdInv, Restart PROVE ColdInv'
<1>1. PICK a \in DOMAIN Cases : \E c \in Cases[a] :
        app' = a /\ test_case' = c /\ todo' = main(a, c)
  BY DEF Restart
<1>2. PICK c \in Cases[a] : app' = a /\ test_case' = c /\ todo' = main(a, c)
  BY <1>1
<1>3. boots' \in Nat \ {0} /\ boots' # 1
  BY DEF Restart, ColdInv, PlacedInv
<1>4. a # "UDP_SERVER" => /\ Placed(main(a, c), AfterApply(a, Expects(a, c)))
                          /\ Ends(main(a, c), a, Expects(a, c))
  BY MainPlaced
<1>5. PlacedInv'
  BY <1>2, <1>3, <1>4 DEF PlacedInv, CallsLeft
<1> QED  BY <1>3, <1>5 DEF ColdInv, FirstInv, ColdVerdict, ServerInv, Restart

\* Only a restart changes the program.
LEMMA ProgramStays ==
  ASSUME [Next]_vars, ~Restart
  PROVE  app' = app /\ boots' = boots
<1>1. CASE Datagram
  <2>1. PICK d \in Requests : handle_udp_command(Received(d))
    BY <1>1 DEF Datagram
  <2> QED  BY <2>1, CommandStep DEF CommandDecides, NoIO
<1>2. CASE ~Datagram
  BY <1>2 DEF Next, GpioInit, GtInit, SpiInit, ChipId, Disable, ResetOn, ResetOff, Enable,
     Select, Apply, RateRequest, Write, Verify, Wait, Pass, CheckCode, GtReady, Netif, Pcb,
     Receive, SendResponse, Load, Return, Exit, Reply, NoIO, WriteControl, vars, program
<1> QED  BY <1>1, <1>2

\* The server ends in no way that the verdict is about.
LEMMA ServerStep ==
  ASSUME ListInv, ServerInv, app = "UDP_SERVER", [Next]_vars, ~Restart
  PROVE  ServerInv'
<1>1. ~Wait /\ ~Pass /\ ~CheckCode
  BY HeadOfList DEF ListInv, Serving, Wait, Pass, CheckCode, Call
<1>2. CASE Datagram
  <2>1. PICK d \in Requests : handle_udp_command(Received(d))
    BY <1>2 DEF Datagram
  <2> QED  BY <2>1, CommandStep DEF CommandDecides, ServerInv
<1>3. CASE ~Datagram
  <2>1. \/ mode' = mode
        \/ mode' \in {"enabled", "server", "failed_gpio", "failed_gt_gpio", "failed_config",
                     "failed_gt", "failed_net"}
    BY <1>1, <1>3 DEF Next, GpioInit, GtInit, SpiInit, ChipId, Disable, ResetOn, ResetOff, Enable,
       Select, Apply, RateRequest, Write, Verify, GtReady, Netif, Pcb, Receive, SendResponse,
       Load, Return, Exit, Reply, vars, program
  <2> QED  BY <2>1 DEF ServerInv
<1> QED  BY <1>2, <1>3

LEMMA ColdStep == ASSUME ListInv, DeviceType, CheckInv, ColdInv, [Next]_vars PROVE ColdInv'
<1>1. CASE Restart
  BY <1>1, ColdRestart
<1>2. CASE app = "UDP_SERVER" /\ ~Restart
  <2>1. app' = "UDP_SERVER" /\ boots' = boots
    BY <1>2, ProgramStays
  <2>2. ServerInv'
    BY <1>2, ServerStep DEF ColdInv
  <2> QED  BY <2>1, <2>2 DEF ColdInv, PlacedInv, FirstInv
<1>3. CASE app # "UDP_SERVER" /\ ~Restart
  <2>1. ~Datagram /\ ~RateRequest /\ ~SendResponse /\ ~Receive
    BY <1>3, HeadOfList DEF ListInv, Datagram, RateRequest, SendResponse, Receive, Call
  <2>2. CASE GpioInit \/ SpiInit \/ Apply \/ Wait \/ Pass \/ CheckCode \/ Enable \/ Load
    BY <1>3, <2>2, ColdGpioInit, ColdSpiInit, ColdApply, ColdWait, ColdPass, ColdEnable, ColdLoad
  <2>3. CASE GtInit \/ ChipId \/ GtReady \/ Netif \/ Pcb \/ Verify
    <3>1. /\ todo # <<>> /\ Head(todo) \notin {"apply", "wait"}
          /\ UNCHANGED <<app, test_case, control, cfg, apply_seen, boots>>
      BY <1>3, <2>3 DEF GtInit, ChipId, GtReady, Netif, Pcb, Verify, Call, Return, Exit, NoIO,
         ListInv
    <3>2. mode # "server"
      BY <1>3 DEF ListInv
    <3>3. \/ todo' = Tail(todo) /\ mode' = mode
          \/ todo' = <<>> /\ mode' \notin {"starting", "passed", "failed_result"}
      BY <2>3, <3>2 DEF GtInit, ChipId, GtReady, Netif, Pcb, Verify, Return, Exit
    <3>4. CASE todo' = Tail(todo) /\ mode' = mode
      BY <1>3, <3>1, <3>4, ColdTail
    <3>5. CASE todo' = <<>> /\ mode' \notin {"starting", "passed", "failed_result"}
      <4>1. ColdVerdict'
        BY <3>5 DEF ColdVerdict
      <4>2. mode' # "starting" /\ todo' = <<>>
        BY <3>5
      <4> QED  BY <1>3, <3>1, <4>1, <4>2, ColdStop
    <3> QED  BY <3>3, <3>4, <3>5
  <2>4. CASE Disable \/ ResetOn \/ ResetOff \/ Select \/ Write
    <3>1. /\ todo # <<>> /\ Head(todo) \notin {"apply", "wait"} /\ todo' = Tail(todo)
          /\ UNCHANGED <<app, test_case, mode, cfg, apply_seen, boots>>
      BY <2>4 DEF Disable, ResetOn, ResetOff, Select, Write, Call, Return, WriteControl
    <3>2. 8 \in control' <=> 8 \in control
      <4>1. CASE Disable \/ ResetOn \/ ResetOff \/ Write
        BY <4>1 DEF Disable, ResetOn, ResetOff, Write, WriteControl, ENABLE, SOFT_RESET
      <4>2. CASE Select
        <5>1. control' = Selected(control, Byte(job.index), job.source, job.len127)
          BY <4>2 DEF Select, WriteControl
        <5> QED  BY <5>1, SelectBits
      <4> QED  BY <2>4, <4>1, <4>2
    <3> QED  BY <1>3, <3>1, <3>2, ColdTail
  <2>5. CASE UNCHANGED vars
    BY <2>5 DEF vars, program, ColdInv, ServerInv, PlacedInv, FirstInv, ColdVerdict, Fresh, Applied, Judged,
       CallsLeft, Verdict, NotLoaded, Asked
  <2> QED  BY <1>3, <2>1, <2>2, <2>3, <2>4, <2>5 DEF Next
<1> QED  BY <1>1, <1>2, <1>3

LEMMA ColdInit == ASSUME Init PROVE ColdInv
<1>1. /\ app \in DOMAIN Cases /\ todo = main(app, test_case) /\ mode = "starting"
      /\ boots = 1 /\ control = {} /\ apply_seen = FALSE /\ cfg = NotLoaded
  BY DEF Init, NotLoaded
<1>2. app # "UDP_SERVER" =>
        /\ Placed(todo, CallsLeft) /\ Ends(todo, app, Expects(app, test_case))
        /\ Len(todo) > CallsLeft
  BY <1>1, MainPlaced DEF CallsLeft
<1>3. PlacedInv
  BY <1>1, <1>2 DEF PlacedInv
<1>4. Fresh
  BY <1>1 DEF Fresh
<1>5. app # "UDP_SERVER" => ~(Len(todo) <= CallsLeft) /\ ~(Len(todo) < CallsLeft)
  <2>1. Len(todo) \in Nat /\ CallsLeft \in Nat
    BY ListInit DEF ListInv, CallsLeft, AfterApply
  <2> QED  BY <1>2, <2>1
<1>6. FirstInv
  BY <1>4, <1>5 DEF FirstInv
<1> QED  BY <1>1, <1>3, <1>6 DEF ColdInv, ColdVerdict, ServerInv

\* On a board that has just been configured a test passes only if the loader
\* refuses the record it has written, and fails for its result only if the
\* loader and the expectation of the test disagree: the verdict that a poll
\* reads is always the one on this test's record.
THEOREM ColdVerdictHolds == Spec => []ColdVerdict
<1> DEFINE Inv == ListInv /\ DeviceType /\ CheckInv /\ ColdInv
<1>1. Init => Inv
  BY ListInit, TypeInit, CheckInit, ColdInit
<1>2. Inv /\ [Next]_vars => Inv'
  BY ListStep, DeviceTypeStep, CheckStep, ColdStep
<1>3. Inv => ColdVerdict
  <2>1. CASE app = "UDP_SERVER"
    BY <2>1 DEF ColdVerdict, ColdInv, ServerInv
  <2>2. CASE app # "UDP_SERVER"
    BY <2>2 DEF ColdInv
  <2> QED  BY <2>1, <2>2
<1> QED  BY <1>1, <1>2, <1>3, PTL DEF Spec
=============================================================================
