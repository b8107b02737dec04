-------------------------- MODULE RateSystemProofs --------------------------
(***************************************************************************)
(* What the firmware and the controller guarantee together, for any number *)
(* of restarts.                                                            *)
(***************************************************************************)
EXTENDS RateSystem, TLAPS

\* The status word a command works with may be old, but a controller it found
\* at rest is still at rest.
SnapshotInv ==
  pc \in {"wait_tx_idle", "precheck"} /\ ~gt_status.busy => ~rate_busy /\ ~asked

\* A request being polled is the last one, and is the one being served.
PollInv ==
  pc = "poll" =>
    /\ want = rate_id
    /\ asked => ~rate_busy
    /\ ~asked => /\ rate_busy => target = rate_id
                 /\ phase = "done" => rate = rate_id

\* No command starts anything while another one waits, and what starts by itself
\* before the firmware looks is seen.
SendingInv ==
  sending \in Unfinished /\ ~unguarded => ~rate_busy /\ ~asked /\ pc # "precheck"

\* What the controller's steps may do.
LEMMA ChecksStep ==
  ASSUME ControllerChecks
  PROVE  /\ UNCHANGED <<want, rate, transmit, firmware>>
         /\ asked' => asked
         /\ ~rate_busy => asked /\ ~asked' /\ rate_busy' /\ target' = want
         /\ target' = want
         /\ rate_busy => /\ asked' = asked
                         /\ phase' = "done" => target = rate
                         /\ phase' \in {"done", "error", "switching"}
<1>1. CASE Controller!Start
  BY <1>1 DEF ControllerChecks, Controller!Start, Controller!Busy, rate_busy
<1>2. CASE Controller!Check
  BY <1>2 DEF ControllerChecks, Controller!Check, Controller!Reject,
     Controller!AlreadyInForce, Controller!Accept, Controller!Leave,
     Controller!Busy, rate_busy
<1> QED  BY <1>1, <1>2 DEF ControllerChecks

LEMMA EndStep ==
  ASSUME ControllerFinishes \/ ControllerFails
  PROVE  /\ UNCHANGED <<want, asked, transmit, firmware>>
         /\ rate_busy /\ ~rate_busy'
         /\ phase' = "done" => rate' = target
<1>1. CASE ControllerFinishes
  BY <1>1 DEF ControllerFinishes, Controller!Finish, Controller!Leave,
     Controller!Busy, rate_busy
<1>2. CASE ControllerFails
  BY <1>2 DEF ControllerFails, Controller!Fail, Controller!Leave,
     Controller!Busy, rate_busy
<1> QED  BY <1>1, <1>2

LEMMA NoticeStep ==
  ASSUME ControllerNotices
  PROVE  target' = want /\ UNCHANGED <<want, asked, rate, phase, transmit, firmware>>
BY DEF ControllerNotices, Controller!Notice

\* A step of the firmware but Request and Restart leaves the controller alone.
LEMMA CommandOnly ==
  ASSUME (\E id \in Ids : RateSet(id)) \/ WaitTxIdle \/ Refuse \/ PollAnswer \/ PollTimeout
  PROVE  /\ UNCHANGED <<want, asked, target, rate, phase, sending>>
         /\ unguarded' \in {unguarded, FALSE}
         /\ UNCHANGED <<gt_ready_meta_tx, gt_ready_tx, enabled, apply_toggle, reload>>
<1>1. CASE WaitTxIdle
  BY <1>1 DEF WaitTxIdle, FoundIdle, Reply, controller
<1>2. CASE (\E id \in Ids : RateSet(id)) \/ Refuse \/ PollAnswer \/ PollTimeout
  BY <1>2 DEF RateSet, Refuse, PollAnswer, PollTimeout, Reply, Planned, controller, transmit
<1> QED  BY <1>1, <1>2

\* The steps that change nothing of controller and firmware.
Elsewhere == GtChanges \/ TxTick \/ EndRound \/ StartsAgain \/ TxCommand

LEMMA ElsewhereStep ==
  ASSUME Elsewhere
  PROVE  UNCHANGED <<want, asked, target, rate, phase, firmware>>
BY DEF Elsewhere, GtChanges, TxTick, EndRound, StartsAgain, TxCommand, Apply, Enable,
   Disable, SoftReset, controller

LEMMA AllSteps ==
  ASSUME [Next]_vars
  PROVE  \/ ControllerChecks \/ ControllerFinishes \/ ControllerFails
         \/ ControllerNotices \/ Elsewhere \/ (\E id \in Ids : RateSet(id))
         \/ WaitTxIdle \/ Refuse \/ Request \/ PollAnswer \/ PollTimeout
         \/ Restart \/ UNCHANGED vars
BY DEF Next, ControllerStep, CommandStep, Elsewhere

-----------------------------------------------------------------------------
LEMMA SnapshotStep == ASSUME SnapshotInv, [Next]_vars PROVE SnapshotInv'
<1>1. CASE ControllerChecks
  BY <1>1, ChecksStep DEF SnapshotInv, firmware
<1>2. CASE ControllerFinishes \/ ControllerFails
  BY <1>2, EndStep DEF SnapshotInv, firmware
<1>3. CASE ControllerNotices
  BY <1>3, NoticeStep DEF SnapshotInv, firmware, rate_busy, Controller!Busy
<1>4. CASE Elsewhere
  BY <1>4, ElsewhereStep DEF SnapshotInv, firmware, rate_busy, Controller!Busy
<1>5. ASSUME NEW id \in Ids, RateSet(id) PROVE SnapshotInv'
  <2>1. UNCHANGED <<asked, rate_busy>>
    BY <1>5, CommandOnly DEF rate_busy, Controller!Busy
  <2>2. pc' # "server" => gt_status'.busy = rate_busy
    BY <1>5 DEF RateSet, Reply, GtStatus
  <2>3. asked => rate_busy  BY <1>5 DEF RateSet, Listening, Settled
  <2> QED  BY <2>1, <2>2, <2>3 DEF SnapshotInv
<1>6. CASE WaitTxIdle
  BY <1>6, CommandOnly DEF WaitTxIdle, FoundIdle, Reply, SnapshotInv, rate_busy,
     Controller!Busy
<1>7. CASE Refuse \/ PollAnswer \/ PollTimeout \/ Request \/ Restart
  BY <1>7 DEF Refuse, PollAnswer, PollTimeout, Request, Restart, Reply, SnapshotInv
<1>8. CASE UNCHANGED vars
  BY <1>8 DEF vars, controller, firmware, SnapshotInv, rate_busy, Controller!Busy
<1> QED  BY <1>1, <1>2, <1>3, <1>4, <1>5, <1>6, <1>7, <1>8, AllSteps

\* The firmware never requests a rate while the controller works on another or
\* has one waiting, however old the status word is that it looks at.
THEOREM NoOverlap == Spec => CommandsDoNotOverlap
<1>1. Init => SnapshotInv
  BY DEF Init, SnapshotInv
<1>2. SnapshotInv /\ [Next]_vars => SnapshotInv'
  BY SnapshotStep
<1>3. SnapshotInv /\ [Next]_vars => [Request => ~rate_busy /\ ~asked]_vars
  BY DEF SnapshotInv, Request, Precheck
<1> QED  BY <1>1, <1>2, <1>3, PTL DEF Spec, CommandsDoNotOverlap

-----------------------------------------------------------------------------
LEMMA PollStep ==
  ASSUME SnapshotInv, PollInv, [Next]_vars PROVE PollInv'
<1>1. CASE ControllerChecks
  <2>1. ASSUME pc = "poll", rate_busy PROVE PollInv'
    BY <1>1, <2>1, ChecksStep DEF PollInv, firmware
  <2>2. ASSUME pc = "poll", ~rate_busy PROVE PollInv'
    <3>1. rate_busy' => phase' # "done"  BY DEF rate_busy, Controller!Busy
    <3> QED  BY <1>1, <2>2, <3>1, ChecksStep DEF PollInv, firmware
  <2>3. pc' = pc  BY <1>1, ChecksStep DEF firmware
  <2> QED  BY <2>1, <2>2, <2>3 DEF PollInv
<1>2. CASE ControllerFinishes \/ ControllerFails
  BY <1>2, EndStep DEF PollInv, firmware
<1>3. CASE ControllerNotices
  BY <1>3, NoticeStep DEF PollInv, firmware, rate_busy, Controller!Busy
<1>4. CASE Elsewhere
  BY <1>4, ElsewhereStep DEF PollInv, firmware, rate_busy, Controller!Busy
<1>5. CASE Request
  <2>1. ~rate_busy  BY <1>5 DEF Request, Precheck, SnapshotInv
  <2>2. want' = rate_id' /\ asked' /\ phase' = phase
    BY <1>5 DEF Request, Controller!Ask
  <2> QED  BY <2>1, <2>2 DEF PollInv, rate_busy, Controller!Busy
<1>6. ASSUME NEW id \in Ids, RateSet(id) PROVE PollInv'
  BY <1>6 DEF RateSet, Reply, PollInv
<1>7. CASE WaitTxIdle \/ Refuse \/ PollAnswer \/ PollTimeout \/ Restart
  BY <1>7 DEF WaitTxIdle, FoundIdle, Refuse, PollAnswer, PollTimeout, Restart, Reply,
     PollInv
<1>8. CASE UNCHANGED vars
  BY <1>8 DEF vars, controller, firmware, PollInv, rate_busy, Controller!Busy
<1> QED  BY <1>1, <1>2, <1>3, <1>4, <1>5, <1>6, <1>7, <1>8, AllSteps

\* The host is told OK only with its own target in force.
THEOREM TrueAnswers == Spec => OkMeansInForce
<1>1. Init => SnapshotInv /\ PollInv
  BY DEF Init, SnapshotInv, PollInv
<1>2. SnapshotInv /\ PollInv /\ [Next]_vars => SnapshotInv' /\ PollInv'
  BY SnapshotStep, PollStep
<1>3. PollInv /\ [Next]_vars =>
        [pc = "poll" /\ pc' = "server" /\ response' = "OK" => rate = rate_id]_vars
  <2> SUFFICES ASSUME PollInv, [Next]_vars, pc = "poll", pc' = "server", response' = "OK"
               PROVE  rate = rate_id
    OBVIOUS
  <2>1. PollAnswer /\ phase = "done"
    <3>1. pc' # pc /\ response' # "NONE" /\ response' # "TIMEOUT"  OBVIOUS
    <3>2. CASE ControllerChecks  BY <3>1, <3>2, ChecksStep DEF firmware
    <3>3. CASE ControllerFinishes \/ ControllerFails
      BY <3>1, <3>3, EndStep DEF firmware
    <3>4. CASE ControllerNotices  BY <3>1, <3>4, NoticeStep DEF firmware
    <3>5. CASE Elsewhere  BY <3>1, <3>5, ElsewhereStep DEF firmware
    <3>6. ASSUME NEW id \in Ids, RateSet(id) PROVE FALSE
      BY <3>6 DEF RateSet, Listening
    <3>7. CASE WaitTxIdle \/ Refuse \/ Request \/ PollTimeout \/ Restart
      BY <3>1, <3>7 DEF WaitTxIdle, FoundIdle, Refuse, Request, PollTimeout, Restart, Reply
    <3>8. CASE UNCHANGED vars  BY <3>1, <3>8 DEF vars, firmware
    <3>9. CASE PollAnswer  BY <3>9 DEF PollAnswer, Reply
    <3> QED
      BY <3>2, <3>3, <3>4, <3>5, <3>6, <3>7, <3>8, <3>9, AllSteps
  <2>2. ~rate_busy /\ ~asked
    BY <2>1 DEF PollAnswer, Settled, rate_busy, Controller!Busy
  <2> QED  BY <2>1, <2>2 DEF PollInv
<1> QED  BY <1>1, <1>2, <1>3, PTL DEF Spec, OkMeansInForce

-----------------------------------------------------------------------------
\* A start that a command makes finds the controller at rest.
LEMMA StartsSafely == ASSUME Listening, Starts PROVE ~rate_busy /\ ~asked /\ pc = "server"
BY DEF Listening, Starts, Settled, gt_ready_effective_ctrl

LEMMA SendingStep == ASSUME SendingInv, [Next]_vars PROVE SendingInv'
<1>1. CASE ControllerChecks
  BY <1>1, ChecksStep DEF SendingInv, firmware, transmit
<1>2. CASE ControllerFinishes \/ ControllerFails
  BY <1>2, EndStep DEF SendingInv, firmware, transmit
<1>3. CASE ControllerNotices
  BY <1>3, NoticeStep DEF SendingInv, firmware, transmit, rate_busy, Controller!Busy
<1>4. CASE Elsewhere
  <2>1. UNCHANGED <<asked, phase, pc>>  BY <1>4, ElsewhereStep DEF firmware
  <2>2. sending' \in Unfinished /\ ~unguarded' =>
          \/ sending \in Unfinished /\ ~unguarded
          \/ ~rate_busy /\ ~asked /\ pc # "precheck"
    <3>1. CASE GtChanges \/ TxTick \/ EndRound
      BY <3>1 DEF GtChanges, TxTick, EndRound, transmit, Unfinished
    <3>2. CASE StartsAgain
      BY <3>2 DEF StartsAgain
    <3>3. CASE Starts /\ Listening
      BY <3>3, StartsSafely
    <3>4. CASE TxCommand /\ ~(Starts /\ Listening)
      BY <3>4 DEF TxCommand, Apply, Enable, Disable, SoftReset, StartsNothing, Unfinished
    <3> QED  BY <1>4, <3>1, <3>2, <3>3, <3>4 DEF Elsewhere
  <2> QED  BY <2>1, <2>2 DEF SendingInv, rate_busy, Controller!Busy
<1>5. CASE Request
  BY <1>5 DEF Request, transmit, SendingInv
<1>6. CASE (\E id \in Ids : RateSet(id)) \/ Refuse \/ PollAnswer \/ PollTimeout
  <2>1. UNCHANGED <<asked, phase, sending>> /\ (unguarded => unguarded') /\ pc' # "precheck"
    BY <1>6 DEF RateSet, Refuse, PollAnswer, PollTimeout, Reply, transmit, controller
  <2> QED  BY <2>1 DEF SendingInv, rate_busy, Controller!Busy
<1>7. CASE WaitTxIdle
  <2>1. UNCHANGED <<asked, phase, sending>>
    BY <1>7, CommandOnly
  <2>2. CASE FoundIdle
    BY <2>1, <2>2 DEF FoundIdle, tx_idle, SendingInv
  <2>3. CASE ~FoundIdle
    BY <1>7, <2>1, <2>3 DEF WaitTxIdle, Reply, SendingInv, rate_busy, Controller!Busy
  <2> QED  BY <2>2, <2>3
<1>8. CASE Restart
  BY <1>8 DEF Restart, SendingInv
<1>9. CASE UNCHANGED vars
  BY <1>9 DEF vars, controller, firmware, transmit, SendingInv, rate_busy, Controller!Busy
<1> QED  BY <1>1, <1>2, <1>3, <1>4, <1>5, <1>6, <1>7, <1>8, <1>9, AllSteps

\* No switch cuts off a sequence, or the first round of a loop, unless the
\* transmitter has started by itself between the firmware's last look at it and
\* the request, or the request is that of a restart.
THEOREM SequenceSafe == Spec => []SequenceUndisturbed
<1>1. Init => SendingInv
  BY DEF Init, SendingInv, Unfinished
<1>2. SendingInv /\ [Next]_vars => SendingInv'
  BY SendingStep
<1>3. SendingInv => SequenceUndisturbed
  BY DEF SendingInv, SequenceUndisturbed
<1> QED  BY <1>1, <1>2, <1>3, PTL DEF Spec

-----------------------------------------------------------------------------
(* Types, one component at a time *)

ControllerType ==
  /\ want \in Ids /\ asked \in BOOLEAN /\ target \in Ids /\ rate \in Ids
  /\ phase \in {"idle", "checking", "switching", "done", "error"}
GtType ==
  /\ resets_held \in BOOLEAN /\ gt_ready_ctrl \in BOOLEAN /\ usrclk_runs \in BOOLEAN
  /\ gt_ready_meta_tx \in BOOLEAN /\ gt_ready_tx \in BOOLEAN
  /\ enabled \in BOOLEAN /\ apply_toggle \in BOOLEAN
  /\ sending \in {"idle", "sequence", "round", "loop"}
  /\ reload \in BOOLEAN /\ unguarded \in BOOLEAN
FirmwareType ==
  /\ req_toggle \in BOOLEAN
  /\ pc \in {"server", "wait_tx_idle", "precheck", "poll"}
  /\ rate_id \in Ids
  /\ gt_status \in [id : Ids, busy : BOOLEAN, ready : BOOLEAN]
  /\ response \in Responses /\ restarts \in 0 .. MaxRestarts
  /\ pc # "server" => rate_id \in Supported

LEMMA ControllerTypeStep == ASSUME ControllerType, FirmwareType, [Next]_vars PROVE ControllerType'
<1>1. CASE ControllerChecks
  <2>1. CASE Controller!Start
    BY <2>1 DEF Controller!Start, ControllerType
  <2>2. CASE Controller!Check
    BY <2>2 DEF Controller!Check, Controller!Reject, Controller!AlreadyInForce,
       Controller!Accept, Controller!Leave, ControllerType
  <2> QED  BY <1>1, <2>1, <2>2 DEF ControllerChecks
<1>2. CASE ControllerFinishes \/ ControllerFails
  BY <1>2 DEF ControllerFinishes, ControllerFails, Controller!Finish, Controller!Fail,
     Controller!Leave, ControllerType
<1>3. CASE ControllerNotices
  BY <1>3, NoticeStep DEF ControllerType
<1>4. CASE Elsewhere
  BY <1>4, ElsewhereStep DEF ControllerType
<1>5. CASE (\E id \in Ids : RateSet(id)) \/ WaitTxIdle \/ Refuse \/ PollAnswer \/ PollTimeout
  BY <1>5, CommandOnly DEF ControllerType
<1>6. CASE Request
  BY <1>6 DEF Request, Controller!Ask, FirmwareType, ControllerType
<1>7. CASE Restart
  BY <1>7 DEF Restart, Controller!Ask, controller, Ids, ControllerType
<1>8. CASE UNCHANGED vars
  BY <1>8 DEF vars, controller, ControllerType
<1> QED  BY <1>1, <1>2, <1>3, <1>4, <1>5, <1>6, <1>7, <1>8, AllSteps

LEMMA GtTypeStep == ASSUME GtType, ControllerType, [Next]_vars PROVE GtType'
<1>1. CASE ControllerChecks
  <2>1. UNCHANGED <<gt_ready_ctrl, usrclk_runs, transmit>> /\ resets_held' \in BOOLEAN
    BY <1>1 DEF ControllerChecks, GtType
  <2> QED  BY <2>1 DEF transmit, GtType
<1>2. CASE ControllerFinishes \/ ControllerFails \/ ControllerNotices
  BY <1>2 DEF ControllerFinishes, ControllerFails, ControllerNotices, gt, transmit, GtType
<1>3. CASE TxTick
  <2>1. gt_ready_effective_ctrl \in BOOLEAN
    BY DEF gt_ready_effective_ctrl
  <2> QED  BY <1>3, <2>1 DEF TxTick, gt, GtType
<1>4. CASE GtChanges \/ EndRound
  BY <1>4 DEF GtChanges, EndRound, gt, transmit, GtType
<1>5. CASE StartsAgain \/ TxCommand
  <2>1. UNCHANGED <<gt, gt_ready_meta_tx, gt_ready_tx>> /\ enabled' \in BOOLEAN
        /\ apply_toggle' \in BOOLEAN
    BY <1>5 DEF StartsAgain, TxCommand, Apply, Enable, Disable, SoftReset, GtType
  <2>2. /\ sending' \in {"idle", "sequence", "round", "loop"}
        /\ reload' \in BOOLEAN /\ unguarded' \in BOOLEAN
    <3>1. CASE StartsAgain
      BY <3>1 DEF StartsAgain, Unfinished, rate_busy, Controller!Busy
    <3>2. CASE TxCommand
      BY <3>2 DEF TxCommand, Apply, Enable, Disable, SoftReset, Starts, StartsNothing,
         Unfinished, GtType
    <3> QED  BY <1>5, <3>1, <3>2
  <2> QED  BY <2>1, <2>2 DEF gt, GtType
<1>6. CASE (\E id \in Ids : RateSet(id)) \/ WaitTxIdle \/ Refuse \/ PollAnswer \/ PollTimeout
  <2>1. UNCHANGED gt
    BY <1>6 DEF RateSet, WaitTxIdle, Refuse, PollAnswer, PollTimeout
  <2> QED  BY <1>6, <2>1, CommandOnly DEF gt, GtType
<1>9. CASE Request
  BY <1>9 DEF Request, gt, transmit, GtType
<1>7. CASE Restart
  BY <1>7 DEF Restart, gt, GtType
<1>8. CASE UNCHANGED vars
  BY <1>8 DEF vars, gt, transmit, GtType
<1> QED  BY <1>1, <1>2, <1>3, <1>4, <1>5, <1>6, <1>7, <1>8, <1>9, AllSteps DEF Elsewhere

LEMMA StatusType ==
  ASSUME ControllerType, GtType
  PROVE  GtStatus \in [id : Ids, busy : BOOLEAN, ready : BOOLEAN]
BY DEF GtStatus, ControllerType, GtType, rate_busy, Controller!Busy

LEMMA FirmwareTypeStep ==
  ASSUME FirmwareType, GtType, ControllerType, [Next]_vars PROVE FirmwareType'
<1>1. CASE ControllerChecks
  BY <1>1, ChecksStep DEF firmware, FirmwareType
<1>2. CASE ControllerFinishes \/ ControllerFails
  BY <1>2, EndStep DEF firmware, FirmwareType
<1>3. CASE ControllerNotices
  BY <1>3, NoticeStep DEF firmware, FirmwareType
<1>4. CASE Elsewhere
  BY <1>4, ElsewhereStep DEF firmware, FirmwareType
<1>5. ASSUME NEW id \in Ids, RateSet(id) PROVE FirmwareType'
  <2>1. UNCHANGED <<req_toggle, restarts>> /\ rate_id' = id
    BY <1>5 DEF RateSet
  <2>2. CASE ~Planned(id)
    BY <1>5, <2>1, <2>2 DEF RateSet, Reply, Responses, FirmwareType
  <2>3. CASE Planned(id)
    <3>1. /\ gt_status' = GtStatus
          /\ \/ response' = "ALREADY_CURRENT" /\ pc' = "server"
             \/ pc' = "wait_tx_idle" /\ response' = response
      BY <1>5, <2>3 DEF RateSet, Reply
    <3>2. response' \in Responses /\ pc' \in {"server", "wait_tx_idle"}
      BY <3>1 DEF Responses, FirmwareType
    <3> QED  BY <2>1, <2>3, <3>1, <3>2, StatusType DEF Planned, FirmwareType
  <2> QED  BY <2>2, <2>3
<1>6. CASE WaitTxIdle
  BY <1>6 DEF WaitTxIdle, FoundIdle, Reply, Responses, FirmwareType
<1>7. CASE Refuse
  BY <1>7 DEF Refuse, Reply, Precheck, Responses, FirmwareType
<1>8. CASE Request
  BY <1>8 DEF Request, FirmwareType
<1>9. CASE PollAnswer
  BY <1>9, StatusType DEF PollAnswer, Reply, Responses, FirmwareType
<1>10. CASE PollTimeout
  BY <1>10, StatusType DEF PollTimeout, Reply, Responses, FirmwareType
<1>11. CASE Restart
  <2>1. /\ restarts < MaxRestarts /\ restarts' = restarts + 1
        /\ req_toggle' = FALSE /\ pc' = "server" /\ rate_id' = NoId
        /\ gt_status' = GtStatus /\ response' = "NONE"
    BY <1>11 DEF Restart
  <2>2. restarts' \in 0 .. MaxRestarts
    BY <2>1, RestartAssumption DEF FirmwareType
  <2>3. rate_id' \in Ids /\ response' \in Responses
    BY <2>1 DEF Ids, Responses
  <2> QED  BY <2>1, <2>2, <2>3, StatusType DEF FirmwareType
<1>12. CASE UNCHANGED vars
  BY <1>12 DEF vars, firmware, FirmwareType
<1> QED  BY <1>1, <1>2, <1>3, <1>4, <1>5, <1>6, <1>7, <1>8, <1>9, <1>10, <1>11, <1>12, AllSteps

\* Every variable has its type; a command that is not answered yet is about a
\* rate that exists, whatever was asked for.
THEOREM TypeCorrect == Spec => []TypeOK
<1> DEFINE Inv == ControllerType /\ GtType /\ FirmwareType
<1>1. ASSUME Init PROVE Inv
  <2>1. ControllerType
    BY <1>1 DEF Init, Controller!Init, Ids, NoId, Supported, ControllerType
  <2>2. GtType
    BY <1>1 DEF Init, GtType
  <2>3. GtStatus \in [id : Ids, busy : BOOLEAN, ready : BOOLEAN]
    BY <2>1, <2>2, StatusType
  <2>4. FirmwareType
    <3>1. restarts \in 0 .. MaxRestarts
      BY <1>1, RestartAssumption DEF Init
    <3>2. rate_id \in Ids /\ response \in Responses
      BY <1>1 DEF Init, Ids, Responses
    <3>3. gt_status = GtStatus /\ req_toggle = FALSE /\ pc = "server"
      BY <1>1 DEF Init
    <3> QED  BY <2>3, <3>1, <3>2, <3>3 DEF FirmwareType
  <2> QED  BY <2>1, <2>2, <2>4
<1>2. Inv /\ [Next]_vars => Inv'
  BY ControllerTypeStep, GtTypeStep, FirmwareTypeStep
<1>3. Inv => TypeOK
  BY DEF ControllerType, GtType, FirmwareType, TypeOK
<1> QED  BY <1>1, <1>2, <1>3, PTL DEF Spec
-----------------------------------------------------------------------------
(* What a failed switch leaves behind *)

\* The error has reached the transmitter, and no command is under way.
Stopped == /\ phase = "error" /\ ~asked /\ pc = "server"
           /\ ~gt_ready_meta_tx /\ ~gt_ready_tx

\* What every step leaves true from there on: a command finds the transmitter
\* not ready and requests nothing, and a restart can only ask for no rate, which
\* the controller rejects.
Trapped ==
  /\ ~gt_ready_meta_tx /\ ~gt_ready_tx
  /\ pc \in {"wait_tx_idle", "precheck"} => ~gt_status.ready
  /\ \/ phase = "error" /\ (asked => want = NoId)
     \/ phase = "checking" /\ want = NoId /\ target = NoId

LEMMA TrappedController ==
  ASSUME Trapped, ControllerChecks \/ ControllerFinishes \/ ControllerFails \/ ControllerNotices
  PROVE  Trapped'
<1>1. CASE ControllerChecks
  <2>1. UNCHANGED <<gt_ready_meta_tx, gt_ready_tx, pc, gt_status, want>>
    BY <1>1 DEF ControllerChecks, transmit, firmware, Controller!Start, Controller!Check,
       Controller!Reject, Controller!AlreadyInForce, Controller!Accept, Controller!Leave
  <2>2. CASE Controller!Start
    BY <2>1, <2>2 DEF Trapped, Controller!Start, Controller!Busy
  <2>3. CASE Controller!Check
    <3>1. phase = "checking" /\ want = NoId /\ target = NoId
      BY <2>3 DEF Trapped, Controller!Check, Controller!Reject, Controller!AlreadyInForce,
         Controller!Accept
    <3>2. phase' = "error"
      BY <2>3, <3>1 DEF Controller!Check, Controller!Reject, Controller!AlreadyInForce,
         Controller!Accept, Controller!Leave, NoId, Supported
    <3> QED  BY <2>1, <3>1, <3>2 DEF Trapped
  <2> QED  BY <1>1, <2>2, <2>3 DEF ControllerChecks
<1>2. ~ControllerFinishes /\ ~ControllerFails
  BY DEF Trapped, ControllerFinishes, ControllerFails, Controller!Finish, Controller!Fail
<1>3. ~ControllerNotices
  BY DEF Trapped, ControllerNotices, rate_busy, Controller!Busy
<1> QED  BY <1>1, <1>2, <1>3

LEMMA TrappedStep == ASSUME Trapped, [Next]_vars PROVE Trapped'
<1>1. CASE GtChanges \/ EndRound \/ TxCommand
  <2>1. UNCHANGED <<controller, gt_ready_meta_tx, gt_ready_tx, firmware>>
    BY <1>1 DEF GtChanges, EndRound, TxCommand, Apply, Enable, Disable, SoftReset, transmit
  <2> QED  BY <2>1 DEF Trapped, controller, firmware
<1>2. CASE TxTick
  <2>1. ~gt_ready_effective_ctrl
    BY DEF Trapped, gt_ready_effective_ctrl, rate_busy, Controller!Busy
  <2> QED  BY <1>2, <2>1 DEF TxTick, Trapped, controller, firmware
<1>3. ~StartsAgain /\ ~Request
  BY DEF Trapped, StartsAgain, Request, Precheck
<1>4. ASSUME NEW id \in Ids, RateSet(id) PROVE Trapped'
  BY <1>4 DEF RateSet, Reply, GtStatus, Trapped, controller, transmit
<1>5. CASE WaitTxIdle \/ Refuse \/ PollAnswer \/ PollTimeout
  BY <1>5 DEF WaitTxIdle, FoundIdle, Refuse, PollAnswer, PollTimeout, Reply, Trapped,
     controller, transmit
<1>6. CASE Restart
  BY <1>6 DEF Restart, Controller!Ask, Trapped, controller
<1>7. CASE UNCHANGED vars
  BY <1>7 DEF vars, controller, transmit, firmware, Trapped
<1> QED  BY <1>1, <1>2, <1>3, <1>4, <1>5, <1>6, <1>7, TrappedController
         DEF Next, ControllerStep, CommandStep

\* Once the error of a failed switch has reached the transmitter, nothing leads
\* out of it: whatever the host asks for and however often the firmware starts
\* again, the controller never works on a switch and the transmitter is never
\* ready.  laser_rate_prechecks wants GT_READY for any request, and GT_READY is
\* low in an error.
THEOREM ErrorIsFinal ==
  Spec => [](Stopped => [](phase \in {"error", "checking"} /\ ~gt_ready_tx))
<1> DEFINE Dead == phase \in {"error", "checking"} /\ ~gt_ready_tx
<1>1. Stopped => Trapped
  BY DEF Stopped, Trapped
<1>2. Trapped => Dead
  BY DEF Trapped
<1>3. Trapped /\ [Next]_vars => Trapped'
  BY TrappedStep
<1> HIDE DEF Dead
<1>4. Spec => [](Stopped => []Dead)
  BY <1>1, <1>2, <1>3, PTL DEF Spec
<1> QED  BY <1>4 DEF Dead
=============================================================================
