-------------------------- MODULE RateSwitchProofs --------------------------
(***************************************************************************)
(* What RateSwitch guarantees for every value of its parameters.           *)
(***************************************************************************)
EXTENDS RateSwitchRefinement, TLAPS

USE DEF RateIds, RATE_ID_NONE, RATE_ID_500M, RATE_ID_1000M, Supported

-----------------------------------------------------------------------------
(* Type correctness *)

\* Every value the actions give the drp register is of its type.
LEMMA DrpValues ==
  ASSUME drp \in DrpType
  PROVE  /\ NoStrobe \in DrpType /\ Strobe("gt_read") \in DrpType
         /\ StrobeAndFlag("gt_write", "gt_written") \in DrpType
         /\ StrobeAndFlag("mmcm_write", "mmcm_written") \in DrpType
         /\ Flag("gt_done") \in DrpType /\ Flag("gt_error") \in DrpType
         /\ Flag("mmcm_done") \in DrpType /\ Flag("mmcm_error") \in DrpType
         /\ ResultsCleared \in DrpType /\ RestartAfterError \in DrpType
         /\ ResetRegisters.drp \in DrpType
<1>1. NoStrobe \in DrpType /\ Strobe("gt_read") \in DrpType
  BY DEF DrpType, NoStrobe, Strobe
<1>2. /\ StrobeAndFlag("gt_write", "gt_written") \in DrpType
      /\ StrobeAndFlag("mmcm_write", "mmcm_written") \in DrpType
  BY DEF DrpType, StrobeAndFlag
<1>3. /\ Flag("gt_done") \in DrpType /\ Flag("gt_error") \in DrpType
      /\ Flag("mmcm_done") \in DrpType /\ Flag("mmcm_error") \in DrpType
  BY DEF DrpType, StrobeAndFlag, Flag
<1>4. ResetRegisters.drp \in DrpType
  BY DEF DrpType, ResetRegisters
<1>5. drp.gt_written \in BOOLEAN /\ drp.mmcm_written \in BOOLEAN
  BY DEF DrpType
<1>6. ResultsCleared \in DrpType
  BY DEF DrpType, ResultsCleared
<1>7. RestartAfterError \in DrpType
  BY <1>4, <1>5 DEF DrpType, RestartAfterError
<1> QED
  BY <1>1, <1>2, <1>3, <1>4, <1>6, <1>7

\* Every value the actions give the status word is of its type.
LEMMA StatusValues ==
  ASSUME status \in StatusType
  PROVE  /\ AlreadyCurrent \in StatusType /\ RateVerified \in StatusType
         /\ ResetRegisters.status \in StatusType
         /\ StartRequest => status' \in StatusType
         /\ \A code \in ErrorCodes : SetError(code) => status' \in StatusType
<1>1. ResetRegisters.status \in StatusType
  BY DEF StatusType, ResetRegisters
<1>2. [ResetRegisters.status EXCEPT !.busy = TRUE] \in StatusType
  BY DEF StatusType, ResetRegisters
<1>3. \A code \in ErrorCodes : SetError(code) => status' \in StatusType
  BY DEF StatusType, SetError
<1>4. AlreadyCurrent \in StatusType /\ RateVerified \in StatusType
  BY DEF StatusType, AlreadyCurrent, RateVerified
<1> QED
  BY <1>1, <1>2, <1>3, <1>4 DEF StartRequest

\* Every value the actions give the reset outputs is of its type.
LEMMA ResetValues ==
  ASSUME resets \in ResetsType
  PROVE  /\ AllResets(TRUE) \in ResetsType /\ AllResets(FALSE) \in ResetsType
         /\ WaitingResets(TRUE) \in ResetsType
         /\ WaitingResets(FALSE) \in ResetsType
         /\ MmcmReleased \in ResetsType /\ ResetRegisters.resets \in ResetsType
BY DEF ResetsType, AllResets, WaitingResets, MmcmReleased, ResetRegisters

LEMMA ControlWordCleared == [req |-> FALSE, id |-> RATE_ID_NONE] \in GpioType
BY DEF GpioType

LEMMA TypeInit == Init => TypeOK
<1> SUFFICES ASSUME Init PROVE TypeOK
  OBVIOUS
<1>1. RequestTypeOK
  <2>1. gpio_ctrl \in GpioType
    BY ControlWordCleared DEF Init
  <2>2. target_rate_id \in RateIds
    BY DEF Init
  <2> QED
    BY <2>1, <2>2, Zenon DEF Init, RequestTypeOK
<1>2. FsmTypeOK
  BY TableAssumption DEF Init, FsmTypeOK, RateStates, GtSteps
<1>3. TimersTypeOK
  BY DEF Init, TimersTypeOK
<1>4. OutputsTypeOK
  BY DEF Init, OutputsTypeOK, ResetRegisters, StatusType, ResetsType, DrpType
<1>5. HardwareTypeOK
  BY DEF Init, HardwareTypeOK, MmcmTable, TxoutDiv
<1> QED
  BY <1>1, <1>2, <1>3, <1>4, <1>5 DEF TypeOK

\* Whatever state the controller is in, the edge captures a typed request.
LEMMA ClockCaptures == Clock => Capture(FALSE) \/ Capture(request_pending)
BY DEF Clock, IdleOrDone, InError, Request, Validate, QuiesceTx, AssertReset,
       GtStrobe, GtWait, MmcmWrite, MmcmWait, MmcmDone, ReleaseReset,
       WaitMmcmResetRelease, WaitLock, Locked, VerifyRate

LEMMA RequestTypeStep == RequestTypeOK /\ Clock => RequestTypeOK'
<1>1. ASSUME RequestTypeOK, NEW taken \in BOOLEAN, Capture(taken)
      PROVE  RequestTypeOK'
  BY <1>1 DEF Capture, request_event, GpioType, RequestTypeOK
<1>2. RequestTypeOK => request_pending \in BOOLEAN
  BY DEF RequestTypeOK
<1> QED
  BY <1>1, <1>2, ClockCaptures

\* The counters only count up from zero.
LEMMA TimersTypeStep == TimersTypeOK /\ Clock => TimersTypeOK'
<1> SUFFICES ASSUME TimersTypeOK, Clock PROVE TimersTypeOK'
  OBVIOUS
<1>1. CASE IdleOrDone
  BY <1>1 DEF IdleOrDone, TimersTypeOK, StartRequest
<1>2. CASE InError
  BY <1>2 DEF InError, TimersTypeOK, StartRequest
<1>3. CASE Request
  BY <1>3 DEF Request, TimersTypeOK, timers
<1>4. CASE Validate
  BY <1>4 DEF Validate, TimersTypeOK
<1>5. ASSUME NEW b \in BOOLEAN, QuiesceTx(b) PROVE TimersTypeOK'
  <2>1. \/ timeout_count' = timeout_count /\ reset_hold_count' \in {0, reset_hold_count}
        \/ timeout_count' = timeout_count + 1 /\ reset_hold_count' = reset_hold_count
    BY <1>5 DEF QuiesceTx, Tick
  <2>2. verify_count' = verify_count
    BY <1>5 DEF QuiesceTx
  <2> QED
    BY <2>1, <2>2 DEF TimersTypeOK
<1>6. CASE AssertReset
  BY <1>6 DEF AssertReset, TimersTypeOK
<1>7. CASE GtStrobe
  BY <1>7 DEF GtStrobe, TimersTypeOK
<1>8. ASSUME NEW b \in BOOLEAN, GtWait(b) PROVE TimersTypeOK'
  BY <1>8 DEF GtWait, TimersTypeOK, Tick
<1>9. CASE MmcmWrite
  BY <1>9 DEF MmcmWrite, TimersTypeOK
<1>10. ASSUME NEW b \in BOOLEAN, MmcmWait(b) PROVE TimersTypeOK'
  BY <1>10 DEF MmcmWait, TimersTypeOK, Tick
<1>11. CASE MmcmDone
  BY <1>11 DEF MmcmDone, TimersTypeOK
<1>12. CASE ReleaseReset
  BY <1>12 DEF ReleaseReset, TimersTypeOK
<1>13. CASE WaitMmcmResetRelease
  BY <1>13 DEF WaitMmcmResetRelease, TimersTypeOK, Tick
<1>14. ASSUME NEW m \in LockStages, WaitLock(m) PROVE TimersTypeOK'
  BY <1>14 DEF WaitLock, TimersTypeOK, Tick
<1>15. CASE Locked
  BY <1>15 DEF Locked, TimersTypeOK
<1>16. ASSUME NEW a \in BOOLEAN, NEW f \in Measurable, VerifyRate(a, f) PROVE TimersTypeOK'
  BY <1>16 DEF VerifyRate, TimersTypeOK
<1> QED
  BY <1>1, <1>2, <1>3, <1>4, <1>5, <1>6, <1>7, <1>8, <1>9, <1>10,
     <1>11, <1>12, <1>13, <1>14, <1>15, <1>16 DEF Clock

\* The state machine stays within its states, and its index within the table.
LEMMA FsmTypeStep == FsmTypeOK /\ RequestTypeOK /\ Clock => FsmTypeOK'
<1> SUFFICES ASSUME FsmTypeOK, RequestTypeOK, Clock PROVE FsmTypeOK'
  OBVIOUS
<1>1. CASE IdleOrDone
  BY <1>1 DEF IdleOrDone, FsmTypeOK, RateStates, StartRequest
<1>2. CASE InError
  BY <1>2 DEF InError, FsmTypeOK, RateStates, StartRequest
<1>3. CASE Request
  BY <1>3 DEF Request, FsmTypeOK, RateStates
<1>4. CASE Validate
  BY <1>4 DEF Validate, FsmTypeOK, RateStates, SetError
<1>5. ASSUME NEW b \in BOOLEAN, QuiesceTx(b) PROVE FsmTypeOK'
  BY <1>5 DEF QuiesceTx, FsmTypeOK, RateStates, SetError
<1>6. CASE AssertReset
  BY <1>6 DEF AssertReset, FsmTypeOK, RateStates, GtSteps
<1>7. CASE GtStrobe
  BY <1>7 DEF GtStrobe, FsmTypeOK, RateStates, GtSteps
<1>8. ASSUME NEW b \in BOOLEAN, GtWait(b) PROVE FsmTypeOK'
  BY TableAssumption, <1>8 DEF GtWait, FsmTypeOK, RateStates, SetError, GtSteps
<1>9. CASE MmcmWrite
  BY <1>9 DEF MmcmWrite, FsmTypeOK, RateStates, fsmVars
<1>10. ASSUME NEW b \in BOOLEAN, MmcmWait(b) PROVE FsmTypeOK'
  BY TableAssumption, <1>10 DEF MmcmWait, FsmTypeOK, RateStates, SetError, EntryLeft
<1>11. CASE MmcmDone
  BY <1>11 DEF MmcmDone, FsmTypeOK, RateStates
<1>12. CASE ReleaseReset
  BY <1>12 DEF ReleaseReset, FsmTypeOK, RateStates
<1>13. CASE WaitMmcmResetRelease
  BY <1>13 DEF WaitMmcmResetRelease, FsmTypeOK, RateStates
<1>14. ASSUME NEW m \in LockStages, WaitLock(m) PROVE FsmTypeOK'
  BY <1>14 DEF WaitLock, FsmTypeOK, RateStates, SetError
<1>15. CASE Locked
  BY <1>15 DEF Locked, FsmTypeOK, RateStates
<1>16. ASSUME NEW a \in BOOLEAN, NEW f \in Measurable, VerifyRate(a, f) PROVE FsmTypeOK'
  BY <1>16 DEF VerifyRate, FsmTypeOK, RateStates, SetError, RequestTypeOK
<1> QED
  BY <1>1, <1>2, <1>3, <1>4, <1>5, <1>6, <1>7, <1>8, <1>9, <1>10,
     <1>11, <1>12, <1>13, <1>14, <1>15, <1>16 DEF Clock

\* The output registers hold values of their types.
LEMMA OutputsTypeStep == OutputsTypeOK /\ Clock => OutputsTypeOK'
<1> SUFFICES ASSUME OutputsTypeOK, Clock PROVE OutputsTypeOK'
  OBVIOUS
<1>a. /\ drp \in DrpType /\ status \in StatusType /\ resets \in ResetsType
      /\ apply_enable_blocked \in BOOLEAN /\ tx_quiesce_req \in BOOLEAN
  BY DEF OutputsTypeOK
<1>b. /\ NoStrobe \in DrpType /\ Strobe("gt_read") \in DrpType
      /\ StrobeAndFlag("gt_write", "gt_written") \in DrpType
      /\ StrobeAndFlag("mmcm_write", "mmcm_written") \in DrpType
      /\ Flag("gt_done") \in DrpType /\ Flag("gt_error") \in DrpType
      /\ Flag("mmcm_done") \in DrpType /\ Flag("mmcm_error") \in DrpType
      /\ ResultsCleared \in DrpType /\ RestartAfterError \in DrpType
      /\ ResetRegisters.drp \in DrpType
  BY <1>a, DrpValues
<1>c. /\ AlreadyCurrent \in StatusType /\ RateVerified \in StatusType
      /\ StartRequest => status' \in StatusType
  BY <1>a, StatusValues
<1>d. /\ AllResets(TRUE) \in ResetsType /\ AllResets(FALSE) \in ResetsType
      /\ WaitingResets(TRUE) \in ResetsType
      /\ WaitingResets(FALSE) \in ResetsType /\ MmcmReleased \in ResetsType
  BY <1>a, ResetValues
<1>e. ASSUME NEW code \in ErrorCodes, SetError(code)
      PROVE  /\ status' \in StatusType
             /\ apply_enable_blocked' \in BOOLEAN /\ tx_quiesce_req' \in BOOLEAN
  BY <1>a, <1>e, StatusValues DEF SetError
<1>f. \A m \in LockStages : LockError(m) \in ErrorCodes
  BY DEF LockError, ErrorCodes
<1> USE DEF OutputsTypeOK
<1>1. CASE IdleOrDone
  BY <1>a, <1>b, <1>c, <1>d, <1>1 DEF IdleOrDone
<1>2. CASE InError
  BY <1>a, <1>b, <1>c, <1>2 DEF InError
<1>3. CASE Request
  BY <1>a, <1>b, <1>3 DEF Request
<1>4. CASE Validate
  BY <1>a, <1>b, <1>c, <1>e, <1>4 DEF Validate, ErrorCodes
<1>5. ASSUME NEW b \in BOOLEAN, QuiesceTx(b) PROVE OutputsTypeOK'
  BY <1>a, <1>b, <1>d, <1>e, <1>5 DEF QuiesceTx, ErrorCodes
<1>6. CASE AssertReset
  BY <1>a, <1>b, <1>d, <1>6 DEF AssertReset
<1>7. CASE GtStrobe
  BY <1>a, <1>b, <1>d, <1>7 DEF GtStrobe
<1>8. ASSUME NEW b \in BOOLEAN, GtWait(b) PROVE OutputsTypeOK'
  BY <1>a, <1>b, <1>d, <1>e, <1>8 DEF GtWait, ErrorCodes
<1>9. CASE MmcmWrite
  BY <1>a, <1>b, <1>d, <1>9 DEF MmcmWrite
<1>10. ASSUME NEW b \in BOOLEAN, MmcmWait(b) PROVE OutputsTypeOK'
  BY <1>a, <1>b, <1>d, <1>e, <1>10 DEF MmcmWait, ErrorCodes
<1>11. CASE MmcmDone
  BY <1>a, <1>b, <1>d, <1>11 DEF MmcmDone
<1>12. CASE ReleaseReset
  BY <1>a, <1>b, <1>d, <1>12 DEF ReleaseReset
<1>13. CASE WaitMmcmResetRelease
  BY <1>a, <1>b, <1>d, <1>13 DEF WaitMmcmResetRelease
<1>14. ASSUME NEW m \in LockStages, WaitLock(m) PROVE OutputsTypeOK'
  <2>1. WaitingResets(m \in {"mmcm", "cpll"}) \in ResetsType
    <3>1. CASE m \in {"mmcm", "cpll"}
      BY <1>d, <3>1, (m \in {"mmcm", "cpll"}) = TRUE
    <3>2. CASE m \notin {"mmcm", "cpll"}
      BY <1>d, <3>2, (m \in {"mmcm", "cpll"}) = FALSE
    <3> QED
      BY <3>1, <3>2
  <2> QED
    BY <1>a, <1>b, <1>e, <1>f, <1>14, <2>1 DEF WaitLock
<1>15. CASE Locked
  BY <1>a, <1>b, <1>d, <1>15 DEF Locked
<1>16. ASSUME NEW a \in BOOLEAN, NEW f \in Measurable, VerifyRate(a, f) PROVE OutputsTypeOK'
  BY <1>a, <1>b, <1>c, <1>d, <1>e, <1>16 DEF VerifyRate, ErrorCodes
<1> QED
  BY <1>1, <1>2, <1>3, <1>4, <1>5, <1>6, <1>7, <1>8, <1>9, <1>10,
     <1>11, <1>12, <1>13, <1>14, <1>15, <1>16 DEF Clock

\* The DRP ports write nothing but values of the two rates.
LEMMA HardwareTypeStep == HardwareTypeOK /\ Clock => HardwareTypeOK'
<1> SUFFICES ASSUME HardwareTypeOK, Clock PROVE HardwareTypeOK'
  OBVIOUS
<1>1. CASE IdleOrDone
  BY <1>1 DEF IdleOrDone, HardwareTypeOK, hardware
<1>2. CASE InError
  BY <1>2 DEF InError, HardwareTypeOK, hardware
<1>3. CASE Request
  BY <1>3 DEF Request, HardwareTypeOK, hardware
<1>4. CASE Validate
  BY <1>4 DEF Validate, HardwareTypeOK, hardware
<1>5. ASSUME NEW b \in BOOLEAN, QuiesceTx(b) PROVE HardwareTypeOK'
  BY <1>5 DEF QuiesceTx, HardwareTypeOK, hardware
<1>6. CASE AssertReset
  BY <1>6 DEF AssertReset, HardwareTypeOK, hardware
<1>7. CASE GtStrobe
  BY <1>7 DEF GtStrobe, HardwareTypeOK, hardware, TxoutDiv
<1>8. ASSUME NEW b \in BOOLEAN, GtWait(b) PROVE HardwareTypeOK'
  BY <1>8 DEF GtWait, HardwareTypeOK, hardware
<1>9. CASE MmcmWrite
  BY <1>9 DEF MmcmWrite, HardwareTypeOK, hardware, MmcmTable
<1>10. ASSUME NEW b \in BOOLEAN, MmcmWait(b) PROVE HardwareTypeOK'
  BY <1>10 DEF MmcmWait, HardwareTypeOK, hardware
<1>11. CASE MmcmDone
  BY <1>11 DEF MmcmDone, HardwareTypeOK, hardware
<1>12. CASE ReleaseReset
  BY <1>12 DEF ReleaseReset, HardwareTypeOK, hardware
<1>13. CASE WaitMmcmResetRelease
  BY <1>13 DEF WaitMmcmResetRelease, HardwareTypeOK, hardware
<1>14. ASSUME NEW m \in LockStages, WaitLock(m) PROVE HardwareTypeOK'
  BY <1>14 DEF WaitLock, HardwareTypeOK, hardware
<1>15. CASE Locked
  BY <1>15 DEF Locked, HardwareTypeOK, hardware
<1>16. ASSUME NEW a \in BOOLEAN, NEW f \in Measurable, VerifyRate(a, f) PROVE HardwareTypeOK'
  BY <1>16 DEF VerifyRate, HardwareTypeOK, hardware
<1> QED
  BY <1>1, <1>2, <1>3, <1>4, <1>5, <1>6, <1>7, <1>8, <1>9, <1>10,
     <1>11, <1>12, <1>13, <1>14, <1>15, <1>16 DEF Clock

LEMMA TypeStep == TypeOK /\ [Next]_vars => TypeOK'
<1> SUFFICES ASSUME TypeOK, [Next]_vars PROVE TypeOK'
  OBVIOUS
<1> USE DEF TypeOK
<1>1. CASE Clock
  BY <1>1, RequestTypeStep, FsmTypeStep, TimersTypeStep, OutputsTypeStep,
     HardwareTypeStep
<1>2. CASE Reset
  <2>1. RequestTypeOK' /\ TimersTypeOK'
    <3>1. gpio_ctrl' \in GpioType
      BY <1>2, ControlWordCleared DEF Reset
    <3>2. target_rate_id' \in RateIds /\ TimersTypeOK'
      BY <1>2 DEF Reset, TimersTypeOK
    <3> QED
      BY <1>2, <3>1, <3>2, Zenon DEF Reset, RequestTypeOK
  <2>2. FsmTypeOK'
    BY <1>2, TableAssumption DEF Reset, FsmTypeOK, RateStates, GtSteps
  <2>3. OutputsTypeOK'
    BY <1>2 DEF Reset, OutputsTypeOK, ResetRegisters, StatusType, ResetsType,
                DrpType
  <2>4. HardwareTypeOK'
    BY <1>2 DEF Reset, hardware, HardwareTypeOK
  <2> QED
    BY <2>1, <2>2, <2>3, <2>4
<1>3. ASSUME NEW id \in RateIds, RateRequest(id) PROVE TypeOK'
  <2>1. RequestTypeOK'
    BY <1>3 DEF RateRequest, RequestTypeOK, GpioType
  <2>2. /\ FsmTypeOK' /\ TimersTypeOK' /\ OutputsTypeOK' /\ HardwareTypeOK'
    BY <1>3 DEF RateRequest, FsmTypeOK, TimersTypeOK, OutputsTypeOK,
                HardwareTypeOK, fsmVars, timers, outputs, hardware
  <2> QED
    BY <2>1, <2>2
<1>4. CASE UNCHANGED vars
  BY <1>4 DEF vars, fsmVars, timers, outputs, hardware, RequestTypeOK, FsmTypeOK,
              TimersTypeOK, OutputsTypeOK, HardwareTypeOK
<1> QED
  BY <1>1, <1>2, <1>3, <1>4 DEF Next

\* Every reachable state is well typed: in particular mmcm_index never leaves
\* the table, and the table only ever holds values of the two rates.
THEOREM TypeCorrect == Spec => []TypeOK
BY TypeInit, TypeStep, PTL DEF Spec
-----------------------------------------------------------------------------
(* The status word *)

\* What each of the actions leaves in the fields of the status word.
LEMMA StatusFields ==
  ASSUME status \in StatusType
  PROVE  /\ ~AlreadyCurrent.busy /\ AlreadyCurrent.done /\ AlreadyCurrent.already
         /\ AlreadyCurrent.error = status.error
         /\ AlreadyCurrent.code = status.code
         /\ ~RateVerified.busy /\ RateVerified.done /\ ~RateVerified.error
         /\ RateVerified.code = "NONE" /\ RateVerified.already = status.already
         /\ ResetRegisters.status = [busy |-> FALSE, done |-> FALSE,
                                     error |-> FALSE, already |-> FALSE,
                                     code |-> "NONE"]
         /\ StartRequest => status' = [busy |-> TRUE, done |-> FALSE,
                                       error |-> FALSE, already |-> FALSE,
                                       code |-> "NONE"]
BY DEF StatusType, AlreadyCurrent, RateVerified, ResetRegisters, StartRequest

LEMMA SetErrorFields ==
  ASSUME status \in StatusType, NEW code \in ErrorCodes, SetError(code)
  PROVE  /\ rate_state' = "ERROR" /\ ~status'.busy /\ ~status'.done
         /\ status'.error /\ status'.code # "NONE"
         /\ status'.already = status.already
BY DEF StatusType, SetError, ErrorCodes

\* Each transition of the state machine comes with the flags of its target.
LEMMA StatusStep ==
  TypeOK /\ StatusMatchesState /\ [Next]_vars => StatusMatchesState'
<1> SUFFICES ASSUME TypeOK, StatusMatchesState, [Next]_vars PROVE StatusMatchesState'
  OBVIOUS
<1>a. status \in StatusType
  BY DEF TypeOK, OutputsTypeOK
<1>b. ASSUME NEW code \in ErrorCodes, SetError(code), status.busy
      PROVE  StatusMatchesState'
  BY <1>a, <1>b, SetErrorFields DEF StatusMatchesState
<1>c. \A m \in LockStages : LockError(m) \in ErrorCodes
  BY DEF LockError, ErrorCodes
<1>1. CASE IdleOrDone
  BY <1>a, StatusFields, <1>1 DEF IdleOrDone, StatusMatchesState,
     StartRequest
<1>2. CASE InError
  BY <1>a, StatusFields, <1>2 DEF InError, StatusMatchesState, StartRequest
<1>3. CASE Request
  BY <1>3 DEF Request, StatusMatchesState
<1>4. CASE Validate
  BY <1>a, StatusFields, <1>b, <1>4 DEF Validate, StatusMatchesState,
     ErrorCodes
<1>5. ASSUME NEW b \in BOOLEAN, QuiesceTx(b) PROVE StatusMatchesState'
  BY <1>b, <1>5 DEF QuiesceTx, StatusMatchesState, ErrorCodes
<1>6. CASE AssertReset
  BY <1>6 DEF AssertReset, StatusMatchesState
<1>7. CASE GtStrobe
  BY <1>7 DEF GtStrobe, StatusMatchesState
<1>8. ASSUME NEW b \in BOOLEAN, GtWait(b) PROVE StatusMatchesState'
  BY <1>b, <1>8 DEF GtWait, StatusMatchesState, ErrorCodes
<1>9. CASE MmcmWrite
  BY <1>9 DEF MmcmWrite, StatusMatchesState, fsmVars
<1>10. ASSUME NEW b \in BOOLEAN, MmcmWait(b) PROVE StatusMatchesState'
  BY <1>b, <1>10 DEF MmcmWait, StatusMatchesState, ErrorCodes
<1>11. CASE MmcmDone
  BY <1>11 DEF MmcmDone, StatusMatchesState
<1>12. CASE ReleaseReset
  BY <1>12 DEF ReleaseReset, StatusMatchesState
<1>13. CASE WaitMmcmResetRelease
  BY <1>13 DEF WaitMmcmResetRelease, StatusMatchesState
<1>14. ASSUME NEW m \in LockStages, WaitLock(m) PROVE StatusMatchesState'
  BY <1>b, <1>c, <1>14 DEF WaitLock, StatusMatchesState, ErrorCodes
<1>15. CASE Locked
  BY <1>15 DEF Locked, StatusMatchesState
<1>16. ASSUME NEW a \in BOOLEAN, NEW f \in Measurable, VerifyRate(a, f) PROVE StatusMatchesState'
  BY <1>a, StatusFields, <1>b, <1>16 DEF VerifyRate, StatusMatchesState,
     ErrorCodes
<1>17. CASE Reset
  BY <1>a, StatusFields, <1>17 DEF Reset, StatusMatchesState
<1>18. ASSUME NEW id \in RateIds, RateRequest(id) PROVE StatusMatchesState'
  BY <1>18 DEF RateRequest, StatusMatchesState, fsmVars, outputs
<1>19. CASE UNCHANGED vars
  BY <1>19 DEF vars, fsmVars, timers, outputs, hardware, StatusMatchesState
<1> QED
  BY <1>1, <1>2, <1>3, <1>4, <1>5, <1>6, <1>7, <1>8, <1>9, <1>10, <1>11,
     <1>12, <1>13, <1>14, <1>15, <1>16, <1>17, <1>18, <1>19 DEF Next, Clock

\* At any time exactly the flag of the state is raised, and an error has a code:
\* what the firmware's polling loop decides on.
THEOREM StatusConsistent == Spec => []StatusMatchesState
<1>1. Init => StatusMatchesState
  BY DEF Init, ResetRegisters, StatusMatchesState
<1> QED
  BY <1>1, TypeCorrect, StatusStep, PTL DEF Spec

-----------------------------------------------------------------------------
(* DRP strobes and reset outputs *)

LEMMA StrobeFields ==
  ASSUME drp \in DrpType
  PROVE  /\ NoStrobe.cmd = "none" /\ ResultsCleared.cmd = "none"
         /\ Flag("gt_done").cmd = "none" /\ Flag("gt_error").cmd = "none"
         /\ Flag("mmcm_done").cmd = "none" /\ Flag("mmcm_error").cmd = "none"
         /\ RestartAfterError.cmd = "none" /\ ResetRegisters.drp.cmd = "none"
<1>1. NoStrobe.cmd = "none" /\ ResultsCleared.cmd = "none"
  BY DEF DrpType, NoStrobe, Strobe, ResultsCleared
<1>2. /\ Flag("gt_done").cmd = "none" /\ Flag("gt_error").cmd = "none"
      /\ Flag("mmcm_done").cmd = "none" /\ Flag("mmcm_error").cmd = "none"
  BY DEF DrpType, Flag, StrobeAndFlag
<1>3. RestartAfterError.cmd = "none" /\ ResetRegisters.drp.cmd = "none"
  BY DEF RestartAfterError, ResetRegisters
<1> QED
  BY <1>1, <1>2, <1>3

LEMMA ResetFields ==
  ASSUME resets \in ResetsType
  PROVE  /\ AllResets(TRUE).gt /\ AllResets(TRUE).userrdy /\ AllResets(TRUE).mmcm
         /\ ~AllResets(FALSE).gt /\ ~AllResets(FALSE).mmcm
         /\ \A b : ~WaitingResets(b).gt /\ ~WaitingResets(b).mmcm
         /\ MmcmReleased.gt = resets.gt /\ ~MmcmReleased.mmcm
BY DEF ResetsType, AllResets, WaitingResets, MmcmReleased

\* A strobe is raised in the same cycle as all three resets.
LEMMA DrpStep ==
  TypeOK /\ DrpOnlyUnderReset /\ [Next]_vars => DrpOnlyUnderReset'
<1> SUFFICES ASSUME TypeOK, DrpOnlyUnderReset, [Next]_vars PROVE DrpOnlyUnderReset'
  OBVIOUS
<1>a. drp \in DrpType /\ resets \in ResetsType
  BY DEF TypeOK, OutputsTypeOK
<1>b. /\ NoStrobe.cmd = "none" /\ ResultsCleared.cmd = "none"
      /\ Flag("gt_done").cmd = "none" /\ Flag("gt_error").cmd = "none"
      /\ Flag("mmcm_done").cmd = "none" /\ Flag("mmcm_error").cmd = "none"
      /\ RestartAfterError.cmd = "none" /\ ResetRegisters.drp.cmd = "none"
  BY <1>a, StrobeFields
<1>c. AllResets(TRUE).gt /\ AllResets(TRUE).userrdy /\ AllResets(TRUE).mmcm
  BY <1>a, ResetFields
<1>1. CASE IdleOrDone
  BY <1>b, <1>1 DEF IdleOrDone, DrpOnlyUnderReset
<1>2. CASE InError
  BY <1>b, <1>2 DEF InError, DrpOnlyUnderReset
<1>3. CASE Request
  BY <1>b, <1>3 DEF Request, DrpOnlyUnderReset
<1>4. CASE Validate
  BY <1>b, <1>4 DEF Validate, DrpOnlyUnderReset
<1>5. ASSUME NEW b \in BOOLEAN, QuiesceTx(b) PROVE DrpOnlyUnderReset'
  BY <1>b, <1>5 DEF QuiesceTx, DrpOnlyUnderReset
<1>6. CASE AssertReset
  BY <1>b, <1>c, <1>6 DEF AssertReset, DrpOnlyUnderReset
<1>7. CASE GtStrobe
  BY <1>b, <1>c, <1>7 DEF GtStrobe, DrpOnlyUnderReset
<1>8. ASSUME NEW b \in BOOLEAN, GtWait(b) PROVE DrpOnlyUnderReset'
  BY <1>b, <1>8 DEF GtWait, DrpOnlyUnderReset
<1>9. CASE MmcmWrite
  BY <1>b, <1>c, <1>9 DEF MmcmWrite, DrpOnlyUnderReset
<1>10. ASSUME NEW b \in BOOLEAN, MmcmWait(b) PROVE DrpOnlyUnderReset'
  BY <1>b, <1>10 DEF MmcmWait, DrpOnlyUnderReset
<1>11. CASE MmcmDone
  BY <1>b, <1>c, <1>11 DEF MmcmDone, DrpOnlyUnderReset
<1>12. CASE ReleaseReset
  BY <1>b, <1>12 DEF ReleaseReset, DrpOnlyUnderReset
<1>13. CASE WaitMmcmResetRelease
  BY <1>b, <1>13 DEF WaitMmcmResetRelease, DrpOnlyUnderReset
<1>14. ASSUME NEW m \in LockStages, WaitLock(m) PROVE DrpOnlyUnderReset'
  BY <1>b, <1>14 DEF WaitLock, DrpOnlyUnderReset
<1>15. CASE Locked
  BY <1>b, <1>15 DEF Locked, DrpOnlyUnderReset
<1>16. ASSUME NEW a \in BOOLEAN, NEW f \in Measurable, VerifyRate(a, f) PROVE DrpOnlyUnderReset'
  BY <1>b, <1>16 DEF VerifyRate, DrpOnlyUnderReset
<1>17. CASE Reset
  BY <1>b, <1>17 DEF Reset, DrpOnlyUnderReset
<1>18. ASSUME NEW id \in RateIds, RateRequest(id) PROVE DrpOnlyUnderReset'
  BY <1>18 DEF RateRequest, DrpOnlyUnderReset, outputs
<1>19. CASE UNCHANGED vars
  BY <1>19 DEF vars, fsmVars, timers, outputs, hardware, DrpOnlyUnderReset
<1> QED
  BY <1>1, <1>2, <1>3, <1>4, <1>5, <1>6, <1>7, <1>8, <1>9, <1>10, <1>11,
     <1>12, <1>13, <1>14, <1>15, <1>16, <1>17, <1>18, <1>19 DEF Next, Clock

\* Whatever fails and whatever is requested meanwhile, no DRP access ever meets
\* a transmitter or an MMCM that is running.
THEOREM DrpSafe == Spec => []DrpOnlyUnderReset
<1>1. Init => DrpOnlyUnderReset
  BY DEF Init, ResetRegisters, DrpOnlyUnderReset
<1> QED
  BY <1>1, TypeCorrect, DrpStep, PTL DEF Spec

\* The states that wait for a lock are entered and left with both resets low.
LEMMA LockWaitStep ==
  TypeOK /\ LockWaitHoldsNoReset /\ [Next]_vars => LockWaitHoldsNoReset'
<1> SUFFICES ASSUME TypeOK, LockWaitHoldsNoReset, [Next]_vars PROVE LockWaitHoldsNoReset'
  OBVIOUS
<1>a. resets \in ResetsType
  BY DEF TypeOK, OutputsTypeOK
<1>b. /\ ~AllResets(FALSE).gt /\ ~AllResets(FALSE).mmcm
      /\ \A b : ~WaitingResets(b).gt /\ ~WaitingResets(b).mmcm
      /\ MmcmReleased.gt = resets.gt /\ ~MmcmReleased.mmcm
  BY <1>a, ResetFields
<1>1. CASE IdleOrDone
  BY <1>b, <1>1 DEF IdleOrDone, LockWaitHoldsNoReset, StartRequest
<1>2. CASE InError
  BY <1>b, <1>2 DEF InError, LockWaitHoldsNoReset, StartRequest
<1>3. CASE Request
  BY <1>b, <1>3 DEF Request, LockWaitHoldsNoReset
<1>4. CASE Validate
  BY <1>b, <1>4 DEF Validate, LockWaitHoldsNoReset, SetError
<1>5. ASSUME NEW b \in BOOLEAN, QuiesceTx(b) PROVE LockWaitHoldsNoReset'
  BY <1>b, <1>5 DEF QuiesceTx, LockWaitHoldsNoReset, SetError
<1>6. CASE AssertReset
  BY <1>b, <1>6 DEF AssertReset, LockWaitHoldsNoReset
<1>7. CASE GtStrobe
  BY <1>b, <1>7 DEF GtStrobe, LockWaitHoldsNoReset
<1>8. ASSUME NEW b \in BOOLEAN, GtWait(b) PROVE LockWaitHoldsNoReset'
  BY <1>b, <1>8 DEF GtWait, LockWaitHoldsNoReset, SetError
<1>9. CASE MmcmWrite
  BY <1>b, <1>9 DEF MmcmWrite, LockWaitHoldsNoReset, fsmVars
<1>10. ASSUME NEW b \in BOOLEAN, MmcmWait(b) PROVE LockWaitHoldsNoReset'
  BY <1>b, <1>10 DEF MmcmWait, LockWaitHoldsNoReset, SetError
<1>11. CASE MmcmDone
  BY <1>b, <1>11 DEF MmcmDone, LockWaitHoldsNoReset
<1>12. CASE ReleaseReset
  BY <1>b, <1>12 DEF ReleaseReset, LockWaitHoldsNoReset
<1>13. CASE WaitMmcmResetRelease
  BY <1>b, <1>13 DEF WaitMmcmResetRelease, LockWaitHoldsNoReset
<1>14. ASSUME NEW m \in LockStages, WaitLock(m) PROVE LockWaitHoldsNoReset'
  BY <1>b, <1>14 DEF WaitLock, LockWaitHoldsNoReset, SetError
<1>15. CASE Locked
  BY <1>b, <1>15 DEF Locked, LockWaitHoldsNoReset
<1>16. ASSUME NEW a \in BOOLEAN, NEW f \in Measurable, VerifyRate(a, f) PROVE LockWaitHoldsNoReset'
  BY <1>b, <1>16 DEF VerifyRate, LockWaitHoldsNoReset, SetError
<1>17. CASE Reset
  BY <1>b, <1>17 DEF Reset, LockWaitHoldsNoReset
<1>18. ASSUME NEW id \in RateIds, RateRequest(id) PROVE LockWaitHoldsNoReset'
  BY <1>18 DEF RateRequest, LockWaitHoldsNoReset, outputs, fsmVars
<1>19. CASE UNCHANGED vars
  BY <1>19 DEF vars, fsmVars, timers, outputs, hardware,
     LockWaitHoldsNoReset
<1> QED
  BY <1>1, <1>2, <1>3, <1>4, <1>5, <1>6, <1>7, <1>8, <1>9, <1>10, <1>11,
     <1>12, <1>13, <1>14, <1>15, <1>16, <1>17, <1>18, <1>19 DEF Next, Clock

\* The wait for the locks can never be the controller's own doing.
THEOREM LockWaitUnblocked == Spec => []LockWaitHoldsNoReset
<1>1. Init => LockWaitHoldsNoReset
  BY DEF Init, LockWaitHoldsNoReset
<1> QED
  BY <1>1, TypeCorrect, LockWaitStep, PTL DEF Spec

-----------------------------------------------------------------------------
(* Waits *)

\* Every wait checks its limit before it counts, and starts from a cleared count.
LEMMA WaitsStep ==
  TypeOK /\ WaitsBounded /\ [Next]_vars => WaitsBounded'
<1> SUFFICES ASSUME TypeOK, WaitsBounded, [Next]_vars PROVE WaitsBounded'
  OBVIOUS
<1> USE ParamAssumption DEF WaitsBounded, Largest
<1>a. timeout_count \in Nat /\ reset_hold_count \in Nat /\ verify_count \in Nat
  BY DEF TypeOK, TimersTypeOK
<1>1. CASE IdleOrDone
  BY <1>a, <1>1 DEF IdleOrDone, StartRequest
<1>2. CASE InError
  BY <1>a, <1>2 DEF InError, StartRequest
<1>3. CASE Request
  BY <1>a, <1>3 DEF Request, timers
<1>4. CASE Validate
  BY <1>a, <1>4 DEF Validate, SetError
<1>5. ASSUME NEW b \in BOOLEAN, QuiesceTx(b) PROVE WaitsBounded'
  <2>1. /\ rate_state = "QUIESCE_TX" /\ verify_count' = verify_count
        /\ \/ /\ rate_state' = "ASSERT_RESET"
              /\ timeout_count' = timeout_count /\ reset_hold_count' = 0
           \/ /\ rate_state' = "ERROR"
              /\ UNCHANGED <<timeout_count, reset_hold_count>>
           \/ /\ UNCHANGED <<rate_state, reset_hold_count>>
              /\ timeout_count < TX_QUIESCE_TIMEOUT
              /\ timeout_count' = timeout_count + 1
    <3>1. \/ /\ rate_state' = "ASSERT_RESET"
             /\ reset_hold_count' = 0 /\ UNCHANGED timeout_count
          \/ /\ SetError("TX_QUIESCE_TIMEOUT")
             /\ UNCHANGED <<timeout_count, reset_hold_count>>
          \/ /\ ~Expired(TX_QUIESCE_TIMEOUT) /\ Tick
             /\ UNCHANGED <<rate_state, reset_hold_count>>
      BY <1>5, Zenon DEF QuiesceTx
    <3>2. rate_state = "QUIESCE_TX" /\ verify_count' = verify_count
      BY <1>5, Zenon DEF QuiesceTx
    <3> QED
      BY <1>a, <3>1, <3>2 DEF SetError, Tick, Expired
  <2> QED
    BY <1>a, <2>1
<1>6. CASE AssertReset
  BY <1>a, <1>6 DEF AssertReset
<1>7. CASE GtStrobe
  BY <1>a, <1>7 DEF GtStrobe
<1>8. ASSUME NEW b \in BOOLEAN, GtWait(b) PROVE WaitsBounded'
  BY <1>a, <1>8 DEF GtWait, SetError, Tick, Expired
<1>9. CASE MmcmWrite
  BY <1>a, <1>9 DEF MmcmWrite, fsmVars
<1>10. ASSUME NEW b \in BOOLEAN, MmcmWait(b) PROVE WaitsBounded'
  BY <1>a, <1>10 DEF MmcmWait, SetError, Tick, Expired
<1>11. CASE MmcmDone
  BY <1>a, <1>11 DEF MmcmDone
<1>12. CASE ReleaseReset
  BY <1>a, <1>12 DEF ReleaseReset
<1>13. CASE WaitMmcmResetRelease
  BY <1>a, <1>13 DEF WaitMmcmResetRelease, Tick, Expired
<1>14. ASSUME NEW m \in LockStages, WaitLock(m) PROVE WaitsBounded'
  BY <1>a, <1>14 DEF WaitLock, SetError, Tick, Expired
<1>15. CASE Locked
  BY <1>a, <1>15 DEF Locked
<1>16. ASSUME NEW a \in BOOLEAN, NEW f \in Measurable, VerifyRate(a, f) PROVE WaitsBounded'
  BY <1>a, <1>16 DEF VerifyRate, SetError
<1>17. CASE Reset
  BY <1>a, <1>17 DEF Reset
<1>18. ASSUME NEW id \in RateIds, RateRequest(id) PROVE WaitsBounded'
  BY <1>a, <1>18 DEF RateRequest, timers, fsmVars
<1>19. CASE UNCHANGED vars
  BY <1>a, <1>19 DEF vars, fsmVars, timers, outputs, hardware
<1> QED
  BY <1>1, <1>2, <1>3, <1>4, <1>5, <1>6, <1>7, <1>8, <1>9, <1>10, <1>11,
     <1>12, <1>13, <1>14, <1>15, <1>16, <1>17, <1>18, <1>19 DEF Next, Clock

\* No counter passes the parameter that limits it, for every choice of the
\* parameters, although the waits share one timeout register.
THEOREM Bounded == Spec => []WaitsBounded
<1>1. Init => WaitsBounded
  BY ParamAssumption DEF Init, WaitsBounded, Largest
<1> QED
  BY <1>1, TypeCorrect, WaitsStep, PTL DEF Spec

-----------------------------------------------------------------------------
(* What DONE means *)

\* Only three kinds of step end in DONE: VALIDATE finds the target in force,
\* VERIFY_RATE accepts it, or DONE is kept and nothing is taken up.
LEMMA StepsToDone ==
  ASSUME TypeOK, StatusMatchesState, Next, status'.done
  PROVE  \/ /\ target_is_current /\ Capture(FALSE) /\ status'.already
            /\ UNCHANGED <<current_rate_id, hardware>>
         \/ /\ \E f \in Measurable : FrequencyFits(f)
            /\ Capture(FALSE) /\ UNCHANGED hardware
            /\ rate_state = "VERIFY_RATE" /\ current_rate_id' = target_rate_id
         \/ /\ status.done /\ ~request_pending /\ Capture(FALSE)
            /\ UNCHANGED <<status, current_rate_id, hardware>>
         \/ /\ status.done /\ \E id \in RateIds : RateRequest(id)
            /\ UNCHANGED <<status, current_rate_id, hardware>>
<1> DEFINE Goal ==
      \/ /\ target_is_current /\ Capture(FALSE) /\ status'.already
         /\ UNCHANGED <<current_rate_id, hardware>>
      \/ /\ \E f \in Measurable : FrequencyFits(f)
         /\ Capture(FALSE) /\ UNCHANGED hardware
         /\ rate_state = "VERIFY_RATE" /\ current_rate_id' = target_rate_id
      \/ /\ status.done /\ ~request_pending /\ Capture(FALSE)
         /\ UNCHANGED <<status, current_rate_id, hardware>>
      \/ /\ status.done /\ \E id \in RateIds : RateRequest(id)
         /\ UNCHANGED <<status, current_rate_id, hardware>>
<1>a. status \in StatusType /\ request_pending \in BOOLEAN
  BY DEF TypeOK, OutputsTypeOK, RequestTypeOK
<1>b. ASSUME NEW code \in ErrorCodes, SetError(code) PROVE FALSE
  BY <1>a, <1>b, SetErrorFields
<1>c. \A m \in LockStages : LockError(m) \in ErrorCodes
  BY DEF LockError, ErrorCodes
<1>d. ~StartRequest /\ ~ResetRegisters.status.done /\ AlreadyCurrent.already
  BY <1>a, StatusFields
<1>e. ASSUME UNCHANGED status PROVE rate_state = "DONE" /\ status.done
  BY <1>e DEF StatusMatchesState
<1> SUFFICES Goal
  OBVIOUS
<1> HIDE DEF Goal
<1>1. CASE IdleOrDone
  BY <1>d, <1>e, <1>a, <1>1 DEF IdleOrDone, Goal
<1>2. CASE InError
  BY <1>d, <1>e, <1>2 DEF InError
<1>3. CASE Request
  BY <1>d, <1>e, <1>3 DEF Request
<1>4. CASE Validate
  BY <1>d, <1>e, <1>b, <1>4 DEF Validate, ErrorCodes, Goal
<1>5. ASSUME NEW b \in BOOLEAN, QuiesceTx(b) PROVE Goal
  BY <1>d, <1>e, <1>b, <1>5 DEF QuiesceTx, ErrorCodes
<1>6. CASE AssertReset
  BY <1>d, <1>e, <1>6 DEF AssertReset
<1>7. CASE GtStrobe
  BY <1>d, <1>e, <1>7 DEF GtStrobe
<1>8. ASSUME NEW b \in BOOLEAN, GtWait(b) PROVE Goal
  BY <1>d, <1>e, <1>b, <1>8 DEF GtWait, ErrorCodes
<1>9. CASE MmcmWrite
  BY <1>d, <1>e, <1>9 DEF MmcmWrite
<1>10. ASSUME NEW b \in BOOLEAN, MmcmWait(b) PROVE Goal
  BY <1>d, <1>e, <1>b, <1>10 DEF MmcmWait, ErrorCodes
<1>11. CASE MmcmDone
  BY <1>d, <1>e, <1>11 DEF MmcmDone
<1>12. CASE ReleaseReset
  BY <1>d, <1>e, <1>12 DEF ReleaseReset
<1>13. CASE WaitMmcmResetRelease
  BY <1>d, <1>e, <1>13 DEF WaitMmcmResetRelease
<1>14. ASSUME NEW m \in LockStages, WaitLock(m) PROVE Goal
  BY <1>d, <1>e, <1>b, <1>c, <1>14 DEF WaitLock, ErrorCodes
<1>15. CASE Locked
  BY <1>d, <1>e, <1>15 DEF Locked
<1>16. ASSUME NEW a \in BOOLEAN, NEW f \in Measurable, VerifyRate(a, f) PROVE Goal
  BY <1>d, <1>e, <1>b, <1>16 DEF VerifyRate, ErrorCodes, Goal
<1>17. CASE Reset
  BY <1>d, <1>e, <1>17 DEF Reset
<1>18. ASSUME NEW id \in RateIds, RateRequest(id) PROVE Goal
  BY <1>d, <1>e, <1>18 DEF RateRequest, Goal, outputs
<1> QED
  BY <1>1, <1>2, <1>3, <1>4, <1>5, <1>6, <1>7, <1>8, <1>9, <1>10, <1>11,
     <1>12, <1>13, <1>14, <1>15, <1>16, <1>17, <1>18 DEF Next, Clock

LEMMA LineRateStep ==
  TypeOK /\ StatusMatchesState /\ VerifiedLineRate /\ [Next]_vars
    => VerifiedLineRate'
<1> SUFFICES ASSUME TypeOK, StatusMatchesState, VerifiedLineRate, Next,
                    status'.done, ~status'.already
             PROVE  hw_gt' = TxoutDiv(current_rate_id')
  BY DEF VerifiedLineRate, vars, outputs, hardware
<1>1. ASSUME NEW f \in Measurable, FrequencyFits(f) PROVE hw_gt = TxoutDiv(target_rate_id)
  BY <1>1 DEF Measurable, FrequencyFits, FreqWindow, TxoutDiv, OutOfWindow
<1> QED
  BY <1>1, StepsToDone DEF VerifiedLineRate, hardware

\* DONE by verification is never wrong about the line rate: the measured window
\* decides, so not even a request that rewrote the target during the DRP writes
\* can make the controller report a rate the transceiver does not run at.
THEOREM LineRate == Spec => []VerifiedLineRate
<1>1. Init => VerifiedLineRate
  BY DEF Init, ResetRegisters, VerifiedLineRate
<1> QED
  BY <1>1, TypeCorrect, StatusConsistent, LineRateStep, PTL DEF Spec

LEMMA LastRequestStep ==
  TypeOK /\ StatusMatchesState /\ DoneAnswersLastRequest /\ [Next]_vars
    => DoneAnswersLastRequest'
<1> SUFFICES ASSUME TypeOK, StatusMatchesState, DoneAnswersLastRequest, Next,
                    status'.done, ~request_pending', ~request_event'
             PROVE  current_rate_id' = target_rate_id'
  BY DEF DoneAnswersLastRequest, request_event, vars, outputs
<1>1. ASSUME Capture(FALSE)
      PROVE  ~request_event /\ ~request_pending /\ target_rate_id' = target_rate_id
  BY <1>1 DEF Capture
<1>2. ASSUME NEW id \in RateIds, RateRequest(id) PROVE FALSE
  BY <1>2 DEF RateRequest, request_event, TypeOK, RequestTypeOK, GpioType
<1> QED
  <2>1. CASE target_is_current /\ Capture(FALSE) /\ UNCHANGED current_rate_id
    BY <1>1, <2>1 DEF target_is_current
  <2>2. CASE Capture(FALSE) /\ current_rate_id' = target_rate_id
    BY <1>1, <2>2
  <2>3. CASE status.done /\ Capture(FALSE) /\ UNCHANGED current_rate_id
    BY <1>1, <2>3 DEF DoneAnswersLastRequest
  <2> QED
    BY <1>2, <2>1, <2>2, <2>3, StepsToDone

\* A DONE with nothing more on its way is the answer to the last request.
THEOREM LastRequest == Spec => []DoneAnswersLastRequest
<1>1. Init => DoneAnswersLastRequest
  BY DEF Init, ResetRegisters, DoneAnswersLastRequest
<1> QED
  BY <1>1, TypeCorrect, StatusConsistent, LastRequestStep, PTL DEF Spec

-----------------------------------------------------------------------------
(* Requests that respect the switch in progress *)

\* The states in which a switch has been accepted and is under way.
Switching == { "QUIESCE_TX", "ASSERT_RESET", "PROGRAM_GT_DRP",
               "PROGRAM_MMCM_DRP", "RELEASE_RESET", "WAIT_MMCM_RESET_RELEASE",
               "WAIT_LOCK", "VERIFY_RATE" }

\* The target of a switch under way has been validated, or has been replaced
\* by an id that needs no validation.
SupportedInv ==
  /\ current_rate_id \in Supported
  /\ status.busy /\ request_event => gpio_ctrl.id \in Supported
  /\ rate_state \in Switching => target_rate_id \in Supported

\* An edge is consumed by the clock step that sees it, and only an edge changes
\* the target.
LEMMA ClockConsumesEdge ==
  Clock => /\ ~request_event' /\ UNCHANGED gpio_ctrl
           /\ ~request_event => target_rate_id' = target_rate_id
           /\ request_event => target_rate_id' = gpio_ctrl.id
<1>1. ASSUME NEW taken, Capture(taken)
      PROVE  /\ ~request_event' /\ UNCHANGED gpio_ctrl
             /\ ~request_event => target_rate_id' = target_rate_id
             /\ request_event => target_rate_id' = gpio_ctrl.id
  BY <1>1 DEF Capture, request_event
<1> QED
  BY <1>1, ClockCaptures

\* Validation holds for the whole switch when no other id can overwrite it.
LEMMA SupportedStep ==
  TypeOK /\ StatusMatchesState /\ (BusyRequestIds \subseteq Supported) /\ SupportedInv /\ [Next]_vars => SupportedInv'
<1> SUFFICES ASSUME TypeOK, StatusMatchesState, (BusyRequestIds \subseteq Supported), SupportedInv, [Next]_vars PROVE SupportedInv'
  OBVIOUS
<1> USE DEF SupportedInv, Switching
<1>a. Clock => /\ ~request_event' /\ UNCHANGED gpio_ctrl
               /\ ~request_event => target_rate_id' = target_rate_id
               /\ request_event => target_rate_id' = gpio_ctrl.id
  BY ClockConsumesEdge
<1>b. rate_state \in Switching \cup {"VALIDATE"} => status.busy
  BY DEF StatusMatchesState
<1>c. target_rate_id \in RateIds /\ status \in StatusType
  BY DEF TypeOK, RequestTypeOK, OutputsTypeOK
<1>1. CASE IdleOrDone
  BY <1>a, <1>b, <1>1 DEF IdleOrDone, Clock, StartRequest
<1>2. CASE InError
  BY <1>a, <1>b, <1>2 DEF InError, Clock, StartRequest
<1>3. CASE Request
  BY <1>a, <1>b, <1>3 DEF Request, Clock
<1>4. CASE Validate
  BY <1>a, <1>b, <1>4 DEF Validate, Clock, target_supported,
     target_is_current, SetError
<1>5. ASSUME NEW b \in BOOLEAN, QuiesceTx(b) PROVE SupportedInv'
  BY <1>a, <1>b, <1>5 DEF QuiesceTx, Clock, SetError
<1>6. CASE AssertReset
  BY <1>a, <1>b, <1>6 DEF AssertReset, Clock
<1>7. CASE GtStrobe
  BY <1>a, <1>b, <1>7 DEF GtStrobe, Clock
<1>8. ASSUME NEW b \in BOOLEAN, GtWait(b) PROVE SupportedInv'
  BY <1>a, <1>b, <1>8 DEF GtWait, Clock, SetError
<1>9. CASE MmcmWrite
  BY <1>a, <1>b, <1>9 DEF MmcmWrite, Clock, fsmVars
<1>10. ASSUME NEW b \in BOOLEAN, MmcmWait(b) PROVE SupportedInv'
  BY <1>a, <1>b, <1>10 DEF MmcmWait, Clock, SetError
<1>11. CASE MmcmDone
  BY <1>a, <1>b, <1>11 DEF MmcmDone, Clock
<1>12. CASE ReleaseReset
  BY <1>a, <1>b, <1>12 DEF ReleaseReset, Clock
<1>13. CASE WaitMmcmResetRelease
  BY <1>a, <1>b, <1>13 DEF WaitMmcmResetRelease, Clock
<1>14. ASSUME NEW m \in LockStages, WaitLock(m) PROVE SupportedInv'
  BY <1>a, <1>b, <1>14 DEF WaitLock, Clock, SetError
<1>15. CASE Locked
  BY <1>a, <1>b, <1>15 DEF Locked, Clock
<1>16. ASSUME NEW a \in BOOLEAN, NEW f \in Measurable, VerifyRate(a, f) PROVE SupportedInv'
  BY <1>a, <1>b, <1>16 DEF VerifyRate, Clock, SetError
<1>17. CASE Reset
  BY <1>17 DEF Reset, request_event, ResetRegisters
<1>18. ASSUME NEW id \in RateIds, RateRequest(id) PROVE SupportedInv'
  BY <1>b, <1>18 DEF RateRequest, outputs, fsmVars, request_event
<1>19. CASE UNCHANGED vars
  BY <1>19 DEF vars, fsmVars, timers, outputs, hardware, request_event
<1> QED
  BY <1>1, <1>2, <1>3, <1>4, <1>5, <1>6, <1>7, <1>8, <1>9, <1>10, <1>11,
     <1>12, <1>13, <1>14, <1>15, <1>16, <1>17, <1>18, <1>19 DEF Next, Clock

\* If nothing but the two rates is requested during a switch, the rate in force
\* is always one of the two.  Without that hypothesis it is not.
THEOREM RateSupported ==
  (BusyRequestIds \subseteq Supported) /\ Spec => []CurrentRateSupported
<1>1. Init => SupportedInv
  <2>1. Init => ~status.busy /\ current_rate_id = RATE_ID_500M /\ rate_state = "IDLE"
    BY DEF Init, ResetRegisters
  <2> QED
    BY <2>1 DEF SupportedInv, Switching
<1>2. SupportedInv => CurrentRateSupported
  BY DEF SupportedInv, CurrentRateSupported
<1>3. ASSUME BusyRequestIds \subseteq Supported
      PROVE  TypeOK /\ StatusMatchesState /\ SupportedInv /\ [Next]_vars
               => SupportedInv'
  BY <1>3, SupportedStep
<1>4. ASSUME BusyRequestIds \subseteq Supported
      PROVE  Spec => []CurrentRateSupported
  BY <1>1, <1>2, <1>3, <1>4, TypeCorrect, StatusConsistent, PTL DEF Spec
<1> QED
  BY <1>4

\* All of the MMCM's table holds the values of one rate.
TableHolds(id) ==
  \A i \in 0 .. MMCM_TABLE_LEN - 1 : hw_mmcm[i] = MmcmTable(id)

\* How far the table has been programmed, while the target cannot change.
\* timeout_count tells whether the entry under the index has been written.
MmcmInv ==
  /\ status.busy => ~request_event
  /\ rate_state = "PROGRAM_MMCM_DRP" =>
       \A i \in 0 .. MMCM_TABLE_LEN - 1 :
         (i < mmcm_index \/ (i = mmcm_index /\ timeout_count # 0))
           => hw_mmcm[i] = MmcmTable(target_rate_id)
  /\ rate_state \in {"RELEASE_RESET", "WAIT_MMCM_RESET_RELEASE", "WAIT_LOCK",
                     "VERIFY_RATE"} => TableHolds(target_rate_id)
  /\ status.done /\ ~status.already => TableHolds(current_rate_id)

\* The table is programmed entry by entry with the values of one target.
LEMMA MmcmStep ==
  TypeOK /\ StatusMatchesState /\ BusyRequestIds = {} /\ MmcmInv /\ [Next]_vars => MmcmInv'
<1> SUFFICES ASSUME TypeOK, StatusMatchesState, BusyRequestIds = {}, MmcmInv, [Next]_vars PROVE MmcmInv'
  OBVIOUS
<1>a. Clock => /\ ~request_event' /\ UNCHANGED gpio_ctrl
               /\ ~request_event => target_rate_id' = target_rate_id
  BY ClockConsumesEdge
<1>b. /\ rate_state \notin {"IDLE", "DONE", "ERROR"} => status.busy /\ ~status.done
      /\ status.busy => ~request_event
  BY DEF StatusMatchesState, MmcmInv
<1>c. status \in StatusType /\ mmcm_index \in 0 .. MMCM_TABLE_LEN
  BY DEF TypeOK, OutputsTypeOK, FsmTypeOK
<1>d. ASSUME NEW code \in ErrorCodes, SetError(code)
      PROVE  rate_state' = "ERROR" /\ ~status'.busy /\ ~status'.done
  BY <1>c, <1>d, SetErrorFields
<1>e. \A m \in LockStages : LockError(m) \in ErrorCodes
  BY DEF LockError, ErrorCodes
<1>f. /\ AlreadyCurrent.already /\ ~ResetRegisters.status.busy
      /\ ~ResetRegisters.status.done /\ RateVerified.done /\ ~RateVerified.busy
      /\ StartRequest => ~status'.done
  BY <1>c, StatusFields
<1> USE TableAssumption DEF MmcmInv, TableHolds
<1>1. CASE IdleOrDone
  BY <1>a, <1>b, <1>f, <1>1 DEF IdleOrDone, Clock, hardware, StartRequest
<1>2. CASE InError
  BY <1>a, <1>b, <1>f, <1>2 DEF InError, Clock, hardware, StartRequest
<1>3. CASE Request
  BY <1>a, <1>b, <1>3 DEF Request, Clock, hardware
<1>4. CASE Validate
  BY <1>a, <1>b, <1>f, <1>d, <1>4 DEF Validate, Clock, hardware, ErrorCodes
<1>5. ASSUME NEW b \in BOOLEAN, QuiesceTx(b) PROVE MmcmInv'
  BY <1>a, <1>b, <1>d, <1>5 DEF QuiesceTx, Clock, hardware, ErrorCodes
<1>6. CASE AssertReset
  BY <1>a, <1>b, <1>6 DEF AssertReset, Clock, hardware
<1>7. CASE GtStrobe
  BY <1>a, <1>b, <1>7 DEF GtStrobe, Clock, hardware
<1>8. ASSUME NEW b \in BOOLEAN, GtWait(b) PROVE MmcmInv'
  <2>1. \/ rate_state' = "PROGRAM_GT_DRP" /\ UNCHANGED status
        \/ rate_state' = "PROGRAM_MMCM_DRP" /\ mmcm_index' = 0
             /\ timeout_count' = 0 /\ UNCHANGED status
        \/ rate_state' = "ERROR" /\ ~status'.busy /\ ~status'.done
    BY <1>d, <1>8 DEF GtWait, ErrorCodes
  <2>2. ~status.done /\ ~request_event'
    BY <1>a, <1>b, <1>8 DEF GtWait, Clock
  <2> QED
    BY <2>1, <2>2
<1>9. CASE MmcmWrite
  <2>1. /\ ~status'.done /\ ~request_event' /\ rate_state' = "PROGRAM_MMCM_DRP"
        /\ target_rate_id' = target_rate_id
    BY <1>a, <1>b, <1>9 DEF MmcmWrite, Clock, fsmVars
  <2>2. /\ rate_state = "PROGRAM_MMCM_DRP" /\ mmcm_index' = mmcm_index
        /\ mmcm_index \in 0 .. MMCM_TABLE_LEN - 1
        /\ hw_mmcm' = [hw_mmcm EXCEPT ![mmcm_index] = MmcmTable(target_rate_id)]
    BY <1>c, <1>9 DEF MmcmWrite, fsmVars, EntryLeft
  <2>3. hw_mmcm \in [0 .. MMCM_TABLE_LEN - 1 -> {"500m", "1000m"}]
    BY DEF TypeOK, HardwareTypeOK
  <2>4. \A i \in 0 .. MMCM_TABLE_LEN - 1 :
          i <= mmcm_index => hw_mmcm'[i] = MmcmTable(target_rate_id)
    BY <1>c, <2>2, <2>3
  <2> QED
    BY <1>c, <2>1, <2>2, <2>4
<1>10. ASSUME NEW b \in BOOLEAN, MmcmWait(b) PROVE MmcmInv'
  <2>1. /\ ~status.done /\ ~request_event'
        /\ target_rate_id' = target_rate_id /\ hw_mmcm' = hw_mmcm
        /\ rate_state = "PROGRAM_MMCM_DRP" /\ timeout_count # 0
    BY <1>a, <1>b, <1>10 DEF MmcmWait, Clock, hardware
  <2>2. \/ /\ rate_state' = "PROGRAM_MMCM_DRP" /\ UNCHANGED status
           /\ mmcm_index' = mmcm_index + 1 /\ timeout_count' = 0
        \/ /\ rate_state' = "PROGRAM_MMCM_DRP" /\ UNCHANGED status
           /\ mmcm_index' = mmcm_index
        \/ rate_state' = "ERROR" /\ ~status'.busy /\ ~status'.done
    BY <1>d, <1>10 DEF MmcmWait, ErrorCodes
  <2>3. \A i \in 0 .. MMCM_TABLE_LEN - 1 :
          i <= mmcm_index => hw_mmcm[i] = MmcmTable(target_rate_id)
    BY <1>c, <2>1
  <2> QED
    BY <1>c, <2>1, <2>2, <2>3
<1>11. CASE MmcmDone
  <2>1. /\ ~status'.done /\ ~request_event' /\ rate_state' = "RELEASE_RESET"
        /\ target_rate_id' = target_rate_id /\ hw_mmcm' = hw_mmcm
    BY <1>a, <1>b, <1>11 DEF MmcmDone, Clock, hardware
  <2>2. \A i \in 0 .. MMCM_TABLE_LEN - 1 : i < mmcm_index
    BY <1>c, <1>11 DEF MmcmDone, EntryLeft
  <2>3. TableHolds(target_rate_id)
    BY <1>11, <2>2 DEF MmcmDone
  <2> QED
    BY <2>1, <2>3
<1>12. CASE ReleaseReset
  BY <1>a, <1>b, <1>12 DEF ReleaseReset, Clock, hardware
<1>13. CASE WaitMmcmResetRelease
  BY <1>a, <1>b, <1>13 DEF WaitMmcmResetRelease, Clock, hardware
<1>14. ASSUME NEW m \in LockStages, WaitLock(m) PROVE MmcmInv'
  BY <1>a, <1>b, <1>d, <1>e, <1>14 DEF WaitLock, Clock, hardware, ErrorCodes
<1>15. CASE Locked
  BY <1>a, <1>b, <1>15 DEF Locked, Clock, hardware
<1>16. ASSUME NEW a \in BOOLEAN, NEW f \in Measurable, VerifyRate(a, f) PROVE MmcmInv'
  BY <1>a, <1>b, <1>f, <1>d, <1>16 DEF VerifyRate, Clock, hardware,
     ErrorCodes
<1>17. CASE Reset
  BY <1>f, <1>17 DEF Reset
<1>18. ASSUME NEW id \in RateIds, RateRequest(id) PROVE MmcmInv'
  BY <1>b, <1>18 DEF RateRequest, outputs, fsmVars, hardware, timers
<1>19. CASE UNCHANGED vars
  BY <1>19 DEF vars, fsmVars, timers, outputs, hardware, request_event
<1> QED
  BY <1>1, <1>2, <1>3, <1>4, <1>5, <1>6, <1>7, <1>8, <1>9, <1>10, <1>11,
     <1>12, <1>13, <1>14, <1>15, <1>16, <1>17, <1>18, <1>19 DEF Next, Clock

\* If no rate is requested during a switch, a verified DONE means that every
\* entry of the MMCM table is that of the rate in force, although none of them
\* is ever read back.
THEOREM MmcmProgrammed ==
  BusyRequestIds = {} /\ Spec => []VerifiedMmcmTable
<1>1. Init => MmcmInv
  <2>1. Init => ~status.busy /\ ~status.done /\ rate_state = "IDLE"
    BY DEF Init, ResetRegisters
  <2> QED
    BY <2>1 DEF MmcmInv
<1>2. MmcmInv => VerifiedMmcmTable
  BY DEF MmcmInv, TableHolds, VerifiedMmcmTable
<1>3. ASSUME BusyRequestIds = {}
      PROVE  TypeOK /\ StatusMatchesState /\ MmcmInv /\ [Next]_vars => MmcmInv'
  BY <1>3, MmcmStep
<1>4. ASSUME BusyRequestIds = {} PROVE Spec => []VerifiedMmcmTable
  BY <1>1, <1>2, <1>3, <1>4, TypeCorrect, StatusConsistent, PTL DEF Spec
<1> QED
  BY <1>4

-----------------------------------------------------------------------------
(* The controller implements the service *)

LEMMA ServiceInit == Init => Service!Init
<1> SUFFICES ASSUME Init PROVE Service!Init
  OBVIOUS
<1>1. /\ ~request_event /\ ~request_pending /\ target_rate_id = RATE_ID_NONE
      /\ current_rate_id = RATE_ID_500M
  BY DEF Init, request_event
<1>2. ~status.busy /\ ~status.done /\ ~status.error
  BY DEF Init, ResetRegisters
<1> QED
  BY <1>1, <1>2 DEF Service!Init, RequestedId, Phase

\* What a clock edge does to the request as the service sees it.
LEMMA EdgeIsNoticed ==
  ASSUME RequestTypeOK, NEW taken \in BOOLEAN, Capture(taken)
  PROVE  /\ RequestedId' = RequestedId /\ target_rate_id' = RequestedId
         /\ (request_event \/ request_pending)' =
              (~taken /\ (request_event \/ request_pending))
<1>1. ~request_event' /\ request_pending' = (~taken /\ (request_event \/ request_pending))
  BY DEF Capture, request_event
<1>2. target_rate_id' = RequestedId
  BY DEF Capture, RequestedId
<1> QED
  BY <1>1, <1>2 DEF RequestedId, RequestTypeOK, request_event

LEMMA PhaseOfState ==
  ASSUME StatusMatchesState
  PROVE  /\ (rate_state = "IDLE") => (Phase = "idle")
         /\ (rate_state = "DONE") => (Phase = "done")
         /\ (rate_state = "ERROR") => (Phase = "error")
         /\ (rate_state \in {"REQUEST", "VALIDATE"}) => (Phase = "checking")
         /\ (rate_state \notin {"IDLE", "DONE", "ERROR", "REQUEST", "VALIDATE"})
              => (Phase = "switching")
BY DEF StatusMatchesState, Phase

LEMMA PhaseOfNextState ==
  ASSUME StatusMatchesState'
  PROVE  /\ (rate_state' = "IDLE") => (Phase' = "idle")
         /\ (rate_state' = "DONE") => (Phase' = "done")
         /\ (rate_state' = "ERROR") => (Phase' = "error")
         /\ (rate_state' \in {"REQUEST", "VALIDATE"}) => (Phase' = "checking")
         /\ (rate_state' \notin {"IDLE", "DONE", "ERROR", "REQUEST", "VALIDATE"})
              => (Phase' = "switching")
BY DEF StatusMatchesState, Phase

LEMMA ServiceStep ==
  TypeOK /\ StatusMatchesState /\ StatusMatchesState' /\ [Next]_vars
    => [Service!Next]_(Service!vars)
<1> SUFFICES ASSUME TypeOK, StatusMatchesState, StatusMatchesState', [Next]_vars
             PROVE  [Service!Next]_(Service!vars)
  OBVIOUS
<1> DEFINE Asked == request_event \/ request_pending
<1> DEFINE Checking == rate_state \in {"REQUEST", "VALIDATE"}
<1> DEFINE Underway == rate_state \notin {"IDLE", "DONE", "ERROR", "REQUEST", "VALIDATE"}
<1>a. /\ (rate_state = "IDLE") => (Phase = "idle")
      /\ (rate_state = "DONE") => (Phase = "done")
      /\ (rate_state = "ERROR") => (Phase = "error")
      /\ Checking => (Phase = "checking")
      /\ Underway => (Phase = "switching")
  BY PhaseOfState
<1>b. /\ (rate_state' = "IDLE") => (Phase' = "idle")
      /\ (rate_state' = "DONE") => (Phase' = "done")
      /\ (rate_state' = "ERROR") => (Phase' = "error")
      /\ Checking' => (Phase' = "checking")
      /\ Underway' => (Phase' = "switching")
  BY PhaseOfNextState
<1>c. ASSUME NEW taken \in BOOLEAN, Capture(taken)
      PROVE  /\ RequestedId' = RequestedId /\ target_rate_id' = RequestedId
             /\ Asked' = (~taken /\ Asked)
  BY <1>c, EdgeIsNoticed DEF TypeOK
<1>d. request_pending \in BOOLEAN
  BY DEF TypeOK, RequestTypeOK
\* A step that keeps the phase is a Notice; the others are named.
<1>e. ASSUME Capture(FALSE), Phase' = Phase, UNCHANGED current_rate_id
      PROVE  Service!Next
  BY <1>c, <1>e DEF Service!Next, Service!Notice
<1>f. ASSUME Capture(TRUE), request_pending, Phase \notin {"checking", "switching"},
             Phase' = "checking", UNCHANGED current_rate_id
      PROVE  Service!Next
  BY <1>c, <1>f DEF Service!Next, Service!Start, Service!Busy
<1>g. ASSUME Capture(FALSE), Phase = "switching", Phase' = "error",
             UNCHANGED current_rate_id
      PROVE  Service!Next
  BY <1>c, <1>g DEF Service!Next, Service!Fail, Service!Leave
<1>h. ASSUME Capture(FALSE), Phase = "switching", Phase' = "done",
             current_rate_id' = target_rate_id
      PROVE  Service!Next
  BY <1>c, <1>h DEF Service!Next, Service!Finish, Service!Leave
<1>i. ASSUME Capture(FALSE), Phase = "checking", UNCHANGED current_rate_id,
             \/ Phase' = "error" /\ target_rate_id \notin Supported
             \/ Phase' = "done" /\ target_rate_id \in Supported
                  /\ target_rate_id = current_rate_id
             \/ Phase' = "switching" /\ target_rate_id \in Supported
                  /\ target_rate_id # current_rate_id
      PROVE  Service!Next
  BY <1>c, <1>i DEF Service!Next, Service!Check, Service!Reject, Service!Leave,
                    Service!AlreadyInForce, Service!Accept
<1> HIDE DEF Asked
<1>1. CASE IdleOrDone
  <2>1. CASE request_pending
    BY <1>a, <1>b, <1>d, <1>f, <1>1, <2>1 DEF IdleOrDone, StartRequest
  <2>2. CASE ~request_pending
    BY <1>a, <1>b, <1>d, <1>e, <1>1, <2>2 DEF IdleOrDone
  <2> QED
    BY <2>1, <2>2
<1>2. CASE InError
  <2>1. CASE request_pending
    BY <1>a, <1>b, <1>d, <1>f, <1>2, <2>1 DEF InError, StartRequest
  <2>2. CASE ~request_pending
    BY <1>a, <1>b, <1>d, <1>e, <1>2, <2>2 DEF InError
  <2> QED
    BY <2>1, <2>2
<1>3. CASE Request
  BY <1>a, <1>b, <1>e, <1>3 DEF Request
<1>4. CASE Validate
  BY <1>a, <1>b, <1>i, <1>4 DEF Validate, SetError, target_supported,
     target_is_current
<1>5. ASSUME NEW b \in BOOLEAN, QuiesceTx(b) PROVE Service!Next
  BY <1>a, <1>b, <1>e, <1>g, <1>5 DEF QuiesceTx, SetError
<1>6. CASE AssertReset
  BY <1>a, <1>b, <1>e, <1>6 DEF AssertReset
<1>7. CASE GtStrobe
  BY <1>a, <1>b, <1>e, <1>7 DEF GtStrobe
<1>8. ASSUME NEW b \in BOOLEAN, GtWait(b) PROVE Service!Next
  BY <1>a, <1>b, <1>e, <1>g, <1>8 DEF GtWait, SetError
<1>9. CASE MmcmWrite
  BY <1>a, <1>b, <1>e, <1>9 DEF MmcmWrite, fsmVars
<1>10. ASSUME NEW b \in BOOLEAN, MmcmWait(b) PROVE Service!Next
  BY <1>a, <1>b, <1>e, <1>g, <1>10 DEF MmcmWait, SetError
<1>11. CASE MmcmDone
  BY <1>a, <1>b, <1>e, <1>11 DEF MmcmDone
<1>12. CASE ReleaseReset
  BY <1>a, <1>b, <1>e, <1>12 DEF ReleaseReset
<1>13. CASE WaitMmcmResetRelease
  BY <1>a, <1>b, <1>e, <1>13 DEF WaitMmcmResetRelease
<1>14. ASSUME NEW m \in LockStages, WaitLock(m) PROVE Service!Next
  BY <1>a, <1>b, <1>e, <1>g, <1>14 DEF WaitLock, SetError
<1>15. CASE Locked
  BY <1>a, <1>b, <1>e, <1>15 DEF Locked
<1>16. ASSUME NEW a \in BOOLEAN, NEW f \in Measurable, VerifyRate(a, f) PROVE Service!Next
  BY <1>a, <1>b, <1>e, <1>g, <1>h, <1>16 DEF VerifyRate, SetError
<1>17. CASE Reset
  <2>1. /\ ~request_event' /\ ~request_pending' /\ target_rate_id' = RATE_ID_NONE
        /\ current_rate_id' = RATE_ID_500M /\ rate_state' = "IDLE"
    BY <1>17 DEF Reset, request_event
  <2>2. RequestedId' = RATE_ID_NONE /\ Phase' = "idle"
    BY <1>b, <2>1 DEF RequestedId
  <2> QED
    BY <2>1, <2>2 DEF Service!Next, Service!Forget
<1>18. ASSUME NEW id \in RateIds, RateRequest(id) PROVE Service!Next
  <2>1. /\ request_event' /\ RequestedId' = id
    BY <1>18 DEF RateRequest, request_event, RequestedId, TypeOK, RequestTypeOK,
                 GpioType
  <2>2. Phase' = Phase /\ UNCHANGED <<target_rate_id, current_rate_id>>
    BY <1>18 DEF RateRequest, Phase, outputs, fsmVars
  <2>3. Service!Ask(id)
    BY <2>1, <2>2 DEF Service!Ask
  <2> QED
    BY <2>3 DEF Service!Next
<1>19. CASE UNCHANGED vars
  BY <1>19 DEF vars, outputs, fsmVars, Service!vars,
               RequestedId, request_event, Phase
<1> QED
  BY <1>1, <1>2, <1>3, <1>4, <1>5, <1>6, <1>7, <1>8, <1>9, <1>10, <1>11,
     <1>12, <1>13, <1>14, <1>15, <1>16, <1>17, <1>18, <1>19 DEF Next, Clock

\* Every behaviour of the controller is one of the service, for every id that
\* may be requested in the middle of a switch: the part of ImplementsService
\* that is not liveness.
THEOREM ServiceImplemented ==
  Spec => Service!Init /\ [][Service!Next]_(Service!vars)
BY ServiceInit, ServiceStep, TypeCorrect, StatusConsistent, PTL DEF Spec

-----------------------------------------------------------------------------
(* How long a switch takes: what is left of it, in edges of the clock *)

AfterVerify   == VERIFY_SETTLE_CYCLES + 1
AfterLocks    == AfterVerify + LOCK_TIMEOUT_CYCLES + 1
AfterRelease  == AfterLocks + RESET_HOLD_CYCLES + 1
EntryEdges    == DRP_TIMEOUT_CYCLES + 1
TableEdges    == MMCM_TABLE_LEN * EntryEdges
AfterTable    == AfterRelease + 2
AfterMmcm     == AfterTable + TableEdges
PortEdges     == DRP_TIMEOUT_CYCLES + 2
AfterGt       == AfterMmcm + 3 * PortEdges
AfterReset    == AfterGt + RESET_HOLD_CYCLES + 1
AfterQuiesce  == AfterReset + TX_QUIESCE_TIMEOUT + 1
SwitchEdges   == AfterQuiesce + 2

\* Edges that the accesses to the GT's port take at most, from the one in hand on.
GtEdgesLeft ==
  CASE gt_step = "READ_OUTDIV"       -> 3 * PortEdges
    [] gt_step = "READ_OUTDIV_WAIT"  -> 3 * PortEdges - 1 - timeout_count
    [] gt_step = "WRITE_OUTDIV"      -> 2 * PortEdges
    [] gt_step = "WRITE_OUTDIV_WAIT" -> 2 * PortEdges - 1 - timeout_count
    [] gt_step = "READBACK"          -> PortEdges
    [] gt_step = "READBACK_WAIT"     -> PortEdges - 1 - timeout_count
    [] OTHER                         -> 0

MmcmEdgesLeft ==
  IF EntryLeft
  THEN (MMCM_TABLE_LEN - mmcm_index) * EntryEdges - timeout_count
  ELSE 0

\* An edge leaves the switch in hand with fewer edges to go.
EdgesLeft ==
  CASE rate_state = "REQUEST"          -> SwitchEdges
    [] rate_state = "VALIDATE"         -> AfterQuiesce + 1
    [] rate_state = "QUIESCE_TX"       -> AfterQuiesce - timeout_count
    [] rate_state = "ASSERT_RESET"     -> AfterReset - reset_hold_count
    [] rate_state = "PROGRAM_GT_DRP"   -> AfterMmcm + GtEdgesLeft
    [] rate_state = "PROGRAM_MMCM_DRP" -> AfterTable + MmcmEdgesLeft
    [] rate_state = "RELEASE_RESET"    -> AfterRelease + 1
    [] rate_state = "WAIT_MMCM_RESET_RELEASE" -> AfterRelease - timeout_count
    [] rate_state = "WAIT_LOCK"        -> AfterLocks - timeout_count
    [] rate_state = "VERIFY_RATE"      -> AfterVerify - verify_count
    [] OTHER                           -> 0

LEMMA StagesType ==
  /\ EntryEdges \in Nat \ {0} /\ PortEdges \in Nat /\ TableEdges \in Nat
  /\ AfterVerify \in Nat /\ AfterLocks \in Nat /\ AfterRelease \in Nat
  /\ AfterTable \in Nat /\ AfterMmcm \in Nat /\ AfterGt \in Nat
  /\ AfterReset \in Nat /\ AfterQuiesce \in Nat /\ SwitchEdges \in Nat
<1> USE ParamAssumption, TableAssumption
<1>1. EntryEdges \in Nat \ {0} /\ PortEdges \in Nat
  BY DEF EntryEdges, PortEdges
<1>2. TableEdges \in Nat
  BY <1>1 DEF TableEdges
<1>3. /\ AfterVerify \in Nat /\ AfterLocks \in Nat /\ AfterRelease \in Nat
      /\ AfterTable \in Nat
  BY DEF AfterVerify, AfterLocks, AfterRelease, AfterTable
<1>4. AfterMmcm \in Nat /\ AfterGt \in Nat
  BY <1>1, <1>2, <1>3 DEF AfterMmcm, AfterGt
<1> QED
  BY <1>1, <1>2, <1>3, <1>4 DEF AfterReset, AfterQuiesce, SwitchEdges

\* The later the stage, the less is left.
LEMMA StagesOrder ==
  /\ 0 < AfterVerify
  /\ AfterVerify < AfterLocks /\ AfterLocks < AfterRelease
  /\ AfterRelease + 1 < AfterTable + 1 /\ AfterTable + TableEdges <= AfterMmcm
  /\ AfterTable > 0 /\ AfterMmcm > 0
  /\ AfterMmcm + 3 * PortEdges <= AfterGt /\ AfterGt < AfterReset
  /\ AfterReset < AfterQuiesce /\ AfterQuiesce + 1 < SwitchEdges
BY StagesType, ParamAssumption
   DEF AfterVerify, AfterLocks, AfterRelease, AfterTable, AfterMmcm, AfterGt,
       AfterReset, AfterQuiesce, SwitchEdges

\* What the rest of the table takes: an entry less is EntryEdges less.
LEMMA RestOfTable ==
  ASSUME NEW i \in 0 .. MMCM_TABLE_LEN - 1
  PROVE  /\ (MMCM_TABLE_LEN - i) * EntryEdges =
              (MMCM_TABLE_LEN - (i + 1)) * EntryEdges + EntryEdges
         /\ (MMCM_TABLE_LEN - (i + 1)) * EntryEdges \in Nat
         /\ (MMCM_TABLE_LEN - i) * EntryEdges <= TableEdges
<1>1. EntryEdges \in Nat /\ MMCM_TABLE_LEN \in Nat
  BY StagesType, TableAssumption
<1>2. /\ \A n, e \in Nat : n * e \in Nat
      /\ \A k, n, m, e \in Nat : k = n + m => k * e = n * e + m * e
  OBVIOUS
<1>3. \A e \in Nat : 1 * e = e
  OBVIOUS
<1>4. PICK rest \in Nat, left \in Nat :
        rest = MMCM_TABLE_LEN - (i + 1) /\ left = MMCM_TABLE_LEN - i
  BY <1>1
<1>5. left = rest + 1 /\ MMCM_TABLE_LEN = left + i /\ i \in Nat /\ 1 \in Nat
  BY <1>1, <1>4
<1>6. left * EntryEdges = rest * EntryEdges + 1 * EntryEdges
  <2>1. \A k, n, m, e \in Nat : k = n + m => k * e = n * e + m * e
    BY <1>2
  <2>2. left = rest + 1 => left * EntryEdges = rest * EntryEdges + 1 * EntryEdges
    BY <1>1, <1>4, <1>5, <2>1
  <2> QED
    BY <1>5, <2>2
<1>7. TableEdges = left * EntryEdges + i * EntryEdges
  <2>1. \A k, n, m, e \in Nat : k = n + m => k * e = n * e + m * e
    BY <1>2
  <2>2. MMCM_TABLE_LEN = left + i
          => MMCM_TABLE_LEN * EntryEdges = left * EntryEdges + i * EntryEdges
    BY <1>1, <1>4, <1>5, <2>1
  <2> QED
    BY <1>5, <2>2 DEF TableEdges
<1>8. /\ rest * EntryEdges \in Nat /\ i * EntryEdges \in Nat
      /\ left * EntryEdges \in Nat
  BY <1>1, <1>2, <1>4, <1>5, Zenon
<1>9. \A a, b, c \in Nat : a = b + c => b <= a
  OBVIOUS
<1>10. left * EntryEdges <= TableEdges
  BY <1>7, <1>8, <1>9, StagesType, Zenon
<1>11. left * EntryEdges = rest * EntryEdges + EntryEdges
  BY <1>1, <1>3, <1>6, Zenon
<1> QED
  BY <1>4, <1>8, <1>10, <1>11, Zenon

\* The wait after RELEASE_RESET begins with a cleared count, and ends at its limit.
HoldBounded ==
  rate_state = "WAIT_MMCM_RESET_RELEASE" => timeout_count <= RESET_HOLD_CYCLES

LEMMA HoldStep ==
  TypeOK /\ HoldBounded /\ [Next]_vars => HoldBounded'
<1> SUFFICES ASSUME TypeOK, HoldBounded, [Next]_vars,
                    rate_state' = "WAIT_MMCM_RESET_RELEASE"
             PROVE  timeout_count' <= RESET_HOLD_CYCLES
  BY DEF HoldBounded
<1> USE ParamAssumption
<1>a. timeout_count \in Nat
  BY DEF TypeOK, TimersTypeOK
<1>1. CASE Clock
  <2>1. \/ ReleaseReset \/ WaitMmcmResetRelease
    BY <1>1 DEF Clock, IdleOrDone, InError, StartRequest, Request, Validate,
       QuiesceTx, SetError, AssertReset, GtStrobe, GtWait, MmcmWrite, fsmVars,
       MmcmWait, MmcmDone, WaitLock, Locked, VerifyRate
  <2>2. \/ timeout_count' = 0
        \/ /\ rate_state = "WAIT_MMCM_RESET_RELEASE"
           /\ timeout_count < RESET_HOLD_CYCLES
           /\ timeout_count' = timeout_count + 1
    <3>1. \/ timeout_count' = 0
          \/ /\ rate_state = "WAIT_MMCM_RESET_RELEASE"
             /\ ~Expired(RESET_HOLD_CYCLES)
             /\ timeout_count' = timeout_count + 1
      BY <2>1, Zenon DEF ReleaseReset, WaitMmcmResetRelease, Tick
    <3> QED
      BY <1>a, <3>1 DEF Expired
  <2> QED
    BY <1>a, <2>2
<1>2. CASE Reset
  BY <1>2 DEF Reset
<1>3. ASSUME NEW id \in RateIds, RateRequest(id)
      PROVE  timeout_count' <= RESET_HOLD_CYCLES
  BY <1>3 DEF RateRequest, timers, fsmVars, HoldBounded
<1>4. CASE UNCHANGED vars
  BY <1>4 DEF vars, timers, fsmVars, HoldBounded
<1> QED
  BY <1>1, <1>2, <1>3, <1>4 DEF Next

Waits == TypeOK /\ WaitsBounded /\ HoldBounded

\* What the ports' waits leave.
LEMMA PortsLeft ==
  ASSUME Waits
  PROVE  /\ rate_state = "PROGRAM_GT_DRP" => GtEdgesLeft \in 0 .. 3 * PortEdges
         /\ rate_state = "PROGRAM_MMCM_DRP" =>
              MmcmEdgesLeft \in 0 .. TableEdges
<1>a. /\ timeout_count \in Nat /\ gt_step \in GtSteps
      /\ mmcm_index \in 0 .. MMCM_TABLE_LEN
  BY DEF Waits, TypeOK, TimersTypeOK, FsmTypeOK
<1>b. DRP_TIMEOUT_CYCLES \in Nat
  BY ParamAssumption
<1>1. ASSUME rate_state = "PROGRAM_GT_DRP"
      PROVE  GtEdgesLeft \in 0 .. 3 * PortEdges
  <2>1. timeout_count <= DRP_TIMEOUT_CYCLES
    BY <1>1 DEF Waits, WaitsBounded
  <2> QED
    BY <1>a, <1>b, <2>1 DEF GtEdgesLeft, PortEdges
<1>2. ASSUME rate_state = "PROGRAM_MMCM_DRP"
      PROVE  MmcmEdgesLeft \in 0 .. TableEdges
  <2>1. timeout_count <= DRP_TIMEOUT_CYCLES
    BY <1>2 DEF Waits, WaitsBounded
  <2>2. CASE ~EntryLeft
    BY <2>2, StagesType DEF MmcmEdgesLeft
  <2>3. CASE EntryLeft
    <3>1. mmcm_index \in 0 .. MMCM_TABLE_LEN - 1
      BY <1>a, <2>3, TableAssumption DEF EntryLeft
    <3> DEFINE left == (MMCM_TABLE_LEN - mmcm_index) * EntryEdges
               rest == (MMCM_TABLE_LEN - (mmcm_index + 1)) * EntryEdges
    <3>2. left = rest + EntryEdges /\ rest \in Nat /\ left <= TableEdges
      BY <3>1, RestOfTable, StagesType
    <3>3. MmcmEdgesLeft = left - timeout_count
      BY <2>3 DEF MmcmEdgesLeft
    <3> HIDE DEF left, rest
    <3> QED
      BY <1>a, <1>b, <2>1, <3>2, <3>3, StagesType DEF EntryEdges
  <2> QED
    BY <2>2, <2>3
<1> QED
  BY <1>1, <1>2

\* A rest has nothing left, a switch at least one edge and at most SwitchEdges.
LEMMA EdgesRange ==
  ASSUME Waits, StatusMatchesState
  PROVE  /\ EdgesLeft \in 0 .. SwitchEdges
         /\ EdgesLeft > 0 <=> status.busy
<1>a. /\ timeout_count \in Nat /\ reset_hold_count \in Nat /\ verify_count \in Nat
      /\ rate_state \in RateStates
  BY DEF Waits, TypeOK, TimersTypeOK, FsmTypeOK
<1>b. /\ rate_state = "QUIESCE_TX" => timeout_count <= TX_QUIESCE_TIMEOUT
      /\ rate_state = "WAIT_LOCK" => timeout_count <= LOCK_TIMEOUT_CYCLES
      /\ reset_hold_count <= RESET_HOLD_CYCLES
      /\ verify_count <= VERIFY_SETTLE_CYCLES
      /\ rate_state = "WAIT_MMCM_RESET_RELEASE" => timeout_count <= RESET_HOLD_CYCLES
  BY DEF Waits, WaitsBounded, HoldBounded
<1>c. status.busy <=> rate_state \notin {"IDLE", "DONE", "ERROR"}
  BY DEF StatusMatchesState
<1> DEFINE Going == EdgesLeft \in 1 .. SwitchEdges
<1> USE ParamAssumption, StagesType, StagesOrder
<1>1. ASSUME rate_state \in {"IDLE", "DONE", "ERROR"} PROVE EdgesLeft = 0
  BY <1>1 DEF EdgesLeft
<1>2. ASSUME rate_state \in {"REQUEST", "VALIDATE", "RELEASE_RESET"} PROVE Going
  <2>1. CASE rate_state = "REQUEST"
    BY <2>1 DEF EdgesLeft
  <2>2. CASE rate_state = "VALIDATE"
    BY <2>2 DEF EdgesLeft
  <2>3. CASE rate_state = "RELEASE_RESET"
    BY <2>3 DEF EdgesLeft
  <2> QED
    BY <1>2, <2>1, <2>2, <2>3
<1>3. ASSUME rate_state = "QUIESCE_TX" PROVE Going
  <2>1. AfterQuiesce = AfterReset + TX_QUIESCE_TIMEOUT + 1
    BY DEF AfterQuiesce
  <2> QED
    BY <1>a, <1>b, <1>3, <2>1 DEF EdgesLeft
<1>4. ASSUME rate_state = "ASSERT_RESET" PROVE Going
  <2>1. AfterReset = AfterGt + RESET_HOLD_CYCLES + 1
    BY DEF AfterReset
  <2> QED
    BY <1>a, <1>b, <1>4, <2>1 DEF EdgesLeft
<1>5. ASSUME rate_state = "PROGRAM_GT_DRP" PROVE Going
  <2>1. GtEdgesLeft \in 0 .. 3 * PortEdges /\ EdgesLeft = AfterMmcm + GtEdgesLeft
    BY <1>5, PortsLeft DEF EdgesLeft
  <2> QED
    BY <2>1
<1>6. ASSUME rate_state = "PROGRAM_MMCM_DRP" PROVE Going
  <2>1. MmcmEdgesLeft \in 0 .. TableEdges /\ EdgesLeft = AfterTable + MmcmEdgesLeft
    BY <1>6, PortsLeft DEF EdgesLeft
  <2> QED
    BY <2>1
<1>7. ASSUME rate_state = "WAIT_MMCM_RESET_RELEASE" PROVE Going
  <2>1. AfterRelease = AfterLocks + RESET_HOLD_CYCLES + 1
    BY DEF AfterRelease
  <2> QED
    BY <1>a, <1>b, <1>7, <2>1 DEF EdgesLeft
<1>8. ASSUME rate_state = "WAIT_LOCK" PROVE Going
  <2>1. AfterLocks = AfterVerify + LOCK_TIMEOUT_CYCLES + 1
    BY DEF AfterLocks
  <2> QED
    BY <1>a, <1>b, <1>8, <2>1 DEF EdgesLeft
<1>9. ASSUME rate_state = "VERIFY_RATE" PROVE Going
  <2>1. AfterVerify = VERIFY_SETTLE_CYCLES + 1
    BY DEF AfterVerify
  <2> QED
    BY <1>a, <1>b, <1>9, <2>1 DEF EdgesLeft
<1>10. rate_state \notin {"IDLE", "DONE", "ERROR"} => Going
  BY <1>a, <1>2, <1>3, <1>4, <1>5, <1>6, <1>7, <1>8, <1>9, Zenon DEF RateStates
<1> QED
  BY <1>1, <1>10, <1>c

\* An edge of the table: a write, a wait that goes on, an answer or a timeout.
LEMMA TableEdge ==
  ASSUME Waits, rate_state = "PROGRAM_MMCM_DRP", rate_state' = "PROGRAM_MMCM_DRP",
         MmcmWrite \/ \E rdy \in BOOLEAN : MmcmWait(rdy)
  PROVE  MmcmEdgesLeft' < MmcmEdgesLeft
<1>a. timeout_count \in Nat /\ timeout_count <= DRP_TIMEOUT_CYCLES /\ EntryLeft
  BY DEF Waits, WaitsBounded, TypeOK, TimersTypeOK, MmcmWrite, MmcmWait
<1>b. /\ mmcm_index \in 0 .. MMCM_TABLE_LEN - 1 /\ DRP_TIMEOUT_CYCLES \in Nat
      /\ MMCM_TABLE_LEN \in Nat
  BY <1>a, TableAssumption, ParamAssumption DEF Waits, TypeOK, FsmTypeOK, EntryLeft
<1> DEFINE left == (MMCM_TABLE_LEN - mmcm_index) * EntryEdges
           rest == (MMCM_TABLE_LEN - (mmcm_index + 1)) * EntryEdges
<1>c. left = rest + EntryEdges /\ rest \in Nat /\ EntryEdges = DRP_TIMEOUT_CYCLES + 1
  BY <1>b, RestOfTable DEF EntryEdges
<1>d. MmcmEdgesLeft = left - timeout_count
  BY <1>a DEF MmcmEdgesLeft
<1>1. \/ mmcm_index' = mmcm_index /\ timeout_count' = timeout_count + 1
      \/ mmcm_index' = mmcm_index + 1 /\ timeout_count' = 0
  <2>1. CASE MmcmWrite
    BY <2>1 DEF MmcmWrite, fsmVars
  <2>2. ASSUME NEW rdy \in BOOLEAN, MmcmWait(rdy)
        PROVE  \/ mmcm_index' = mmcm_index /\ timeout_count' = timeout_count + 1
               \/ mmcm_index' = mmcm_index + 1 /\ timeout_count' = 0
    BY <2>2, Zenon DEF MmcmWait, SetError, Tick
  <2> QED
    BY <2>1, <2>2
<1>2. CASE mmcm_index' = mmcm_index /\ timeout_count' = timeout_count + 1
  <2>1. MmcmEdgesLeft' = left - (timeout_count + 1)
    BY <1>a, <1>2 DEF MmcmEdgesLeft, EntryLeft, EntryEdges
  <2> HIDE DEF left, rest
  <2> QED
    BY <1>a, <1>b, <1>c, <1>d, <2>1
<1>3. CASE mmcm_index' = mmcm_index + 1 /\ timeout_count' = 0
  <2>1. MmcmEdgesLeft' = IF mmcm_index + 1 < MMCM_TABLE_LEN THEN rest - 0 ELSE 0
    BY <1>3 DEF MmcmEdgesLeft, EntryLeft, EntryEdges
  <2> HIDE DEF left, rest
  <2> QED
    BY <1>a, <1>b, <1>c, <1>d, <2>1
<1> QED
  BY <1>1, <1>2, <1>3

\* An edge of the GT's port.
LEMMA PortEdge ==
  ASSUME Waits, rate_state = "PROGRAM_GT_DRP", rate_state' = "PROGRAM_GT_DRP",
         GtStrobe \/ \E rdy \in BOOLEAN : GtWait(rdy)
  PROVE  GtEdgesLeft' < GtEdgesLeft
<1>a. timeout_count \in Nat /\ timeout_count <= DRP_TIMEOUT_CYCLES
  BY DEF Waits, WaitsBounded, TypeOK, TimersTypeOK
<1>b. DRP_TIMEOUT_CYCLES \in Nat
  BY ParamAssumption
<1>1. CASE GtStrobe
  BY <1>a, <1>b, <1>1 DEF GtStrobe, GtEdgesLeft, PortEdges
<1>2. ASSUME NEW rdy \in BOOLEAN, GtWait(rdy)
      PROVE  GtEdgesLeft' < GtEdgesLeft
  <2>1. /\ gt_step \in {"READ_OUTDIV_WAIT", "WRITE_OUTDIV_WAIT", "READBACK_WAIT"}
        /\ \/ /\ gt_step # "READBACK_WAIT"
              /\ gt_step' = IF gt_step = "READ_OUTDIV_WAIT" THEN "WRITE_OUTDIV"
                                                            ELSE "READBACK"
           \/ gt_step' = gt_step /\ timeout_count' = timeout_count + 1
    BY <1>2 DEF GtWait, SetError, Tick
  <2> QED
    BY <1>a, <1>b, <2>1 DEF GtEdgesLeft, PortEdges
<1> QED
  BY <1>1, <1>2

\* Every edge of the clock brings a switch in hand nearer to its end.
LEMMA EdgesStep ==
  ASSUME Waits, Waits', StatusMatchesState, Clock, status.busy
  PROVE  EdgesLeft' < EdgesLeft
<1>a. /\ timeout_count \in Nat /\ reset_hold_count \in Nat /\ verify_count \in Nat
  BY DEF Waits, TypeOK, TimersTypeOK
<1>b. /\ rate_state = "QUIESCE_TX" => timeout_count <= TX_QUIESCE_TIMEOUT
      /\ rate_state = "WAIT_LOCK" => timeout_count <= LOCK_TIMEOUT_CYCLES
      /\ reset_hold_count <= RESET_HOLD_CYCLES
      /\ verify_count <= VERIFY_SETTLE_CYCLES
      /\ rate_state = "WAIT_MMCM_RESET_RELEASE" => timeout_count <= RESET_HOLD_CYCLES
  BY DEF Waits, WaitsBounded, HoldBounded
<1>c. TableEdges \in Nat /\ PortEdges \in Nat /\ EntryEdges \in Nat \ {0}
  BY StagesType
<1>d. AfterMmcm = AfterTable + TableEdges
  BY DEF AfterMmcm
<1>e. EdgesLeft > 0 /\ EdgesLeft \in Nat /\ rate_state \notin {"IDLE", "DONE", "ERROR"}
  BY EdgesRange DEF StatusMatchesState
<1>f. (rate_state' \in {"DONE", "ERROR"}) => EdgesLeft' = 0
  BY DEF EdgesLeft
<1>g. \A n \in Nat, a \in Nat, b \in Int : b < a => n + b < n + a
  OBVIOUS
<1>h. \A n \in Nat : n \in Int
  OBVIOUS
<1> USE ParamAssumption
<1>1. CASE Request
  BY <1>1, StagesType DEF Request, EdgesLeft, SwitchEdges
<1>2. CASE Validate
  BY <1>2, <1>e, <1>f, StagesType DEF Validate, SetError, EdgesLeft
<1>3. ASSUME NEW b \in BOOLEAN, QuiesceTx(b) PROVE EdgesLeft' < EdgesLeft
  <2>1. /\ rate_state = "QUIESCE_TX"
        /\ \/ rate_state' = "ASSERT_RESET" /\ reset_hold_count' = 0
           \/ rate_state' = "ERROR"
           \/ rate_state' = "QUIESCE_TX" /\ timeout_count' = timeout_count + 1
    BY <1>3 DEF QuiesceTx, SetError, Tick
  <2> QED
    BY <1>a, <1>b, <1>e, <1>f, <2>1, StagesType DEF EdgesLeft, AfterQuiesce
<1>4. CASE AssertReset
  <2>1. /\ rate_state = "ASSERT_RESET"
        /\ \/ rate_state' = "PROGRAM_GT_DRP"
           \/ rate_state' = "ASSERT_RESET" /\ reset_hold_count' = reset_hold_count + 1
    BY <1>4 DEF AssertReset
  <2>2. CASE rate_state' = "PROGRAM_GT_DRP"
    <3>1. gt_step' = "READ_OUTDIV"
      BY <1>4, <2>2 DEF AssertReset
    <3>2. EdgesLeft' = AfterMmcm + 3 * PortEdges
      BY <2>2, <3>1 DEF EdgesLeft, GtEdgesLeft, PortEdges, AfterMmcm, AfterTable,
         AfterRelease, AfterLocks, AfterVerify, EntryEdges
    <3> QED
      BY <1>a, <1>b, <1>c, <2>1, <3>2, StagesType DEF EdgesLeft, AfterReset, AfterGt
  <2>3. CASE rate_state' = "ASSERT_RESET" /\ reset_hold_count' = reset_hold_count + 1
    BY <1>a, <2>1, <2>3, StagesType DEF EdgesLeft, AfterReset, AfterGt
  <2> QED
    BY <2>1, <2>2, <2>3
<1>5. ASSUME GtStrobe \/ \E b \in BOOLEAN : GtWait(b) PROVE EdgesLeft' < EdgesLeft
  <2>1. /\ rate_state = "PROGRAM_GT_DRP"
        /\ \/ rate_state' = "PROGRAM_GT_DRP" \/ rate_state' = "ERROR"
           \/ rate_state' = "PROGRAM_MMCM_DRP" /\ mmcm_index' = 0 /\ timeout_count' = 0
    BY <1>5 DEF GtStrobe, GtWait, SetError
  <2>2. CASE rate_state' = "PROGRAM_GT_DRP"
    <3>1. GtEdgesLeft' < GtEdgesLeft /\ GtEdgesLeft \in Nat /\ GtEdgesLeft' \in Nat
      <4>1. GtEdgesLeft \in Nat
        BY <1>c, <2>1, PortsLeft
      <4>2. GtEdgesLeft' \in Nat
        <5>1. timeout_count' \in Nat /\ timeout_count' <= DRP_TIMEOUT_CYCLES
          BY <2>2 DEF Waits, WaitsBounded, TypeOK, TimersTypeOK
        <5> QED
          BY <5>1 DEF GtEdgesLeft, PortEdges
      <4> QED
        BY <1>5, <2>1, <2>2, <4>1, <4>2, PortEdge
    <3>2. EdgesLeft = AfterMmcm + GtEdgesLeft /\ EdgesLeft' = AfterMmcm + GtEdgesLeft'
      BY <2>1, <2>2 DEF EdgesLeft, AfterMmcm, AfterTable, AfterRelease, AfterLocks,
         AfterVerify, EntryEdges
    <3> QED
      BY <1>g, <1>h, <3>1, <3>2, StagesType, Zenon
  <2>3. CASE rate_state' = "PROGRAM_MMCM_DRP" /\ mmcm_index' = 0 /\ timeout_count' = 0
    <3>1. GtEdgesLeft >= 1
      <4>1. gt_step = "READBACK_WAIT" /\ timeout_count <= DRP_TIMEOUT_CYCLES
        BY <1>5, <2>1, <2>3 DEF GtStrobe, GtWait, SetError, Waits, WaitsBounded
      <4> QED
        BY <1>a, <4>1 DEF GtEdgesLeft, PortEdges
    <3>2. EdgesLeft' = AfterTable + MmcmEdgesLeft'
      BY <2>3 DEF EdgesLeft, AfterTable, AfterRelease, AfterLocks, AfterVerify
    <3>3. MmcmEdgesLeft' = TableEdges
      <4>1. 0 < MMCM_TABLE_LEN /\ MMCM_TABLE_LEN - 0 = MMCM_TABLE_LEN
        BY TableAssumption
      <4>2. MmcmEdgesLeft' = (MMCM_TABLE_LEN - 0) * EntryEdges - 0
        BY <2>3, <4>1 DEF MmcmEdgesLeft, EntryLeft, EntryEdges
      <4>3. \A n \in Nat : n - 0 = n
        OBVIOUS
      <4> QED
        BY <1>c, <4>1, <4>2, <4>3, Zenon DEF TableEdges
    <3>4. EdgesLeft = AfterMmcm + GtEdgesLeft /\ GtEdgesLeft \in Nat
      BY <1>c, <2>1, PortsLeft DEF EdgesLeft
    <3> QED
      BY <1>c, <1>d, <3>1, <3>2, <3>3, <3>4, StagesType
  <2> QED
    BY <1>e, <1>f, <2>1, <2>2, <2>3
<1>6. ASSUME MmcmWrite \/ \E b \in BOOLEAN : MmcmWait(b) PROVE EdgesLeft' < EdgesLeft
  <2>1. /\ rate_state = "PROGRAM_MMCM_DRP"
        /\ rate_state' \in {"PROGRAM_MMCM_DRP", "ERROR"}
    BY <1>6 DEF MmcmWrite, MmcmWait, SetError, fsmVars
  <2>2. CASE rate_state' = "PROGRAM_MMCM_DRP"
    <3>1. MmcmEdgesLeft' < MmcmEdgesLeft
      BY <1>6, <2>1, <2>2, TableEdge
    <3>2. MmcmEdgesLeft \in Nat
      BY <1>c, <2>1, PortsLeft
    <3>3. MmcmEdgesLeft' \in Int
      <4>1. mmcm_index' \in Int /\ timeout_count' \in Int
        BY TableAssumption DEF Waits, TypeOK, FsmTypeOK, TimersTypeOK
      <4>2. \A n, m, t \in Int : n * m - t \in Int
        OBVIOUS
      <4>3. /\ MMCM_TABLE_LEN - mmcm_index' \in Int /\ EntryEdges \in Int
        BY <1>c, <4>1, TableAssumption
      <4>4. (MMCM_TABLE_LEN - mmcm_index') * EntryEdges - timeout_count' \in Int
        BY <4>1, <4>2, <4>3, Zenon
      <4> QED
        BY <4>4 DEF MmcmEdgesLeft, EntryEdges
    <3>4. EdgesLeft = AfterTable + MmcmEdgesLeft /\ EdgesLeft' = AfterTable + MmcmEdgesLeft'
      BY <2>1, <2>2 DEF EdgesLeft, AfterTable, AfterRelease, AfterLocks, AfterVerify
    <3> QED
      BY <1>g, <3>1, <3>2, <3>3, <3>4, StagesType, Zenon
  <2> QED
    BY <1>e, <1>f, <2>1, <2>2
<1>7. CASE MmcmDone
  <2>1. /\ rate_state = "PROGRAM_MMCM_DRP" /\ rate_state' = "RELEASE_RESET"
        /\ MmcmEdgesLeft = 0
    BY <1>7 DEF MmcmDone, MmcmEdgesLeft
  <2> QED
    BY <2>1, StagesType DEF EdgesLeft, AfterTable
<1>8. CASE ReleaseReset
  BY <1>8, StagesType DEF ReleaseReset, EdgesLeft
<1>9. CASE WaitMmcmResetRelease
  <2>1. /\ rate_state = "WAIT_MMCM_RESET_RELEASE"
        /\ \/ rate_state' = "WAIT_LOCK" /\ timeout_count' = 0
           \/ rate_state' = "WAIT_MMCM_RESET_RELEASE" /\ timeout_count' = timeout_count + 1
    BY <1>9 DEF WaitMmcmResetRelease, Tick
  <2> QED
    BY <1>a, <1>b, <2>1, StagesType DEF EdgesLeft, AfterRelease
<1>10. ASSUME NEW m \in LockStages, WaitLock(m) PROVE EdgesLeft' < EdgesLeft
  <2>1. /\ rate_state = "WAIT_LOCK"
        /\ \/ rate_state' = "ERROR"
           \/ rate_state' = "WAIT_LOCK" /\ timeout_count' = timeout_count + 1
    BY <1>10 DEF WaitLock, SetError, Tick
  <2> QED
    BY <1>a, <1>b, <1>e, <1>f, <2>1, StagesType DEF EdgesLeft
<1>11. CASE Locked
  BY <1>a, <1>b, <1>11, StagesType DEF Locked, EdgesLeft, AfterLocks
<1>12. ASSUME NEW a \in BOOLEAN, NEW f \in Measurable, VerifyRate(a, f)
       PROVE  EdgesLeft' < EdgesLeft
  <2>1. /\ rate_state = "VERIFY_RATE"
        /\ \/ rate_state' \in {"DONE", "ERROR"}
           \/ rate_state' = "VERIFY_RATE" /\ verify_count' = verify_count + 1
    BY <1>12 DEF VerifyRate, SetError
  <2> QED
    BY <1>a, <1>b, <1>e, <1>f, <2>1, StagesType DEF EdgesLeft
<1> QED
  BY <1>1, <1>2, <1>3, <1>4, <1>5, <1>6, <1>7, <1>8, <1>9, <1>10, <1>11, <1>12,
     <1>e DEF Clock, IdleOrDone, InError

LEMMA AlwaysWaits == Spec => []Waits
<1>1. Init => HoldBounded
  BY DEF Init, HoldBounded
<1>2. Spec => []HoldBounded
  BY <1>1, TypeCorrect, HoldStep, PTL DEF Spec
<1> QED
  BY <1>2, TypeCorrect, Bounded, PTL DEF Waits

\* However many answers and locks stay away, whatever is requested meanwhile: a
\* switch is over, in DONE or in ERROR, within SwitchEdges edges of the clock,
\* since each takes EdgesLeft down.  This is the count behind SwitchTerminates.
THEOREM SwitchBounded ==
  Spec => /\ [](EdgesLeft \in 0 .. SwitchEdges /\ (EdgesLeft > 0 <=> status.busy))
          /\ [][status.busy /\ Clock => EdgesLeft' < EdgesLeft]_vars
<1>1. ASSUME Waits, StatusMatchesState
      PROVE  EdgesLeft \in 0 .. SwitchEdges /\ (EdgesLeft > 0 <=> status.busy)
  BY <1>1, EdgesRange
<1>2. ASSUME Waits, Waits', StatusMatchesState, [Next]_vars
      PROVE  [status.busy /\ Clock => EdgesLeft' < EdgesLeft]_vars
  BY <1>2, EdgesStep
<1> QED
  BY <1>1, <1>2, AlwaysWaits, StatusConsistent, PTL DEF Spec

-----------------------------------------------------------------------------
(* How long a request waits *)

\* A request the state machine has not taken up: on its way, or noticed.
Asked == request_event \/ request_pending

\* Edges until it is taken up at most: those of the switch in hand, and one to
\* notice it.
EdgesToTakeUp == IF request_event THEN EdgesLeft + 1 ELSE EdgesLeft

LEMMA AskedStep ==
  ASSUME Waits, Waits', StatusMatchesState, EdgesLeft' \in Nat, Asked, Clock
  PROVE  \/ rate_state' = "REQUEST"
         \/ Asked' /\ EdgesToTakeUp' < EdgesToTakeUp
<1>a. EdgesLeft \in Nat
  BY EdgesRange, StagesType
<1>b. ~request_event'
  BY ClockCaptures DEF Capture, request_event
<1>c. request_event \in BOOLEAN /\ request_pending \in BOOLEAN
  BY DEF request_event, Waits, TypeOK, RequestTypeOK
<1>d. EdgesToTakeUp' = EdgesLeft'
  BY <1>b, Zenon DEF EdgesToTakeUp
<1>1. CASE status.busy
  <2>1. EdgesLeft' < EdgesLeft
    BY <1>1, EdgesStep
  <2>2. Capture(FALSE)
    BY <1>1 DEF Clock, IdleOrDone, InError, StatusMatchesState, Request, Validate,
       QuiesceTx, AssertReset, GtStrobe, GtWait, MmcmWrite, MmcmWait, MmcmDone,
       ReleaseReset, WaitMmcmResetRelease, WaitLock, Locked, VerifyRate
  <2>3. request_pending'
    BY <2>2 DEF Capture, Asked
  <2>4. \A a, b \in Nat : b < a => b < a + 1
    OBVIOUS
  <2>5. EdgesToTakeUp' < EdgesToTakeUp
    BY <1>a, <1>d, <2>1, <2>4, Zenon DEF EdgesToTakeUp
  <2> QED
    BY <2>3, <2>5, Zenon DEF Asked
<1>2. CASE ~status.busy
  <2>1. IdleOrDone \/ InError
    BY <1>2 DEF Clock, StatusMatchesState, Request, Validate, QuiesceTx,
       AssertReset, GtStrobe, GtWait, MmcmWrite, MmcmWait, MmcmDone,
       ReleaseReset, WaitMmcmResetRelease, WaitLock, Locked, VerifyRate
  <2>2. CASE request_pending
    BY <2>1, <2>2 DEF IdleOrDone, InError, StartRequest
  <2>3. CASE ~request_pending
    <3>1. request_event /\ request_pending' /\ rate_state' = rate_state
      BY <2>1, <2>3 DEF Asked, IdleOrDone, InError, Capture
    <3>2. rate_state \in {"IDLE", "DONE", "ERROR"}
      BY <2>1 DEF IdleOrDone, InError
    <3>3. EdgesLeft' = 0 /\ EdgesLeft = 0
      BY <3>1, <3>2 DEF EdgesLeft
    <3> QED
      BY <1>d, <3>1, <3>3 DEF Asked, EdgesToTakeUp
  <2> QED
    BY <2>2, <2>3
<1> QED
  BY <1>1, <1>2

\* No request is lost, whenever it comes: it stays until the state machine takes
\* it up, at most one edge after the end of the switch in hand, and only a reset
\* of the controller wipes it out.  This is the count behind RequestIsServed.
THEOREM RequestKept ==
  Spec => /\ [][Asked => \/ Asked' \/ rate_state' = "REQUEST" \/ Reset]_vars
          /\ [][Asked /\ Clock => \/ rate_state' = "REQUEST"
                                  \/ EdgesToTakeUp' < EdgesToTakeUp]_vars
<1>1. ASSUME Waits, Waits', StatusMatchesState, (EdgesLeft \in Nat)', [Next]_vars
      PROVE  [Asked => \/ Asked' \/ rate_state' = "REQUEST" \/ Reset]_vars
  <2> SUFFICES ASSUME Asked, Next
               PROVE  Asked' \/ rate_state' = "REQUEST" \/ Reset
    BY <1>1
  <2>1. CASE Clock
    BY <1>1, <2>1, AskedStep
  <2>2. ASSUME NEW id \in RateIds, RateRequest(id)
        PROVE  Asked'
    <3>1. gpio_ctrl'.req = ~gpio_ctrl.req /\ UNCHANGED rate_req_toggle_d
      BY <2>2 DEF RateRequest
    <3>2. gpio_ctrl.req \in BOOLEAN /\ rate_req_toggle_d \in BOOLEAN
      BY <1>1 DEF Waits, TypeOK, RequestTypeOK, GpioType
    <3>3. ~request_event
      BY <2>2 DEF RateRequest
    <3> QED
      BY <3>1, <3>2, <3>3 DEF request_event, Asked
  <2> QED
    BY <2>1, <2>2 DEF Next
<1>2. ASSUME Waits, Waits', StatusMatchesState, (EdgesLeft \in Nat)', [Next]_vars
      PROVE  [Asked /\ Clock => \/ rate_state' = "REQUEST"
                                \/ EdgesToTakeUp' < EdgesToTakeUp]_vars
  BY <1>2, AskedStep
<1>3. Waits /\ StatusMatchesState => EdgesLeft \in Nat
  BY EdgesRange, StagesType
<1> QED
  BY <1>1, <1>2, <1>3, AlwaysWaits, StatusConsistent, PTL DEF Spec
=============================================================================
