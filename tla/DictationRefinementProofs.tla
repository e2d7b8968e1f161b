--------------------- MODULE DictationRefinementProofs ---------------------
(***************************************************************************)
(* DictationPipeline implements DictationService, for any sessions and     *)
(* callers: every step of the pipeline is a step of the service under the  *)
(* mapping SessionStatus, or leaves the service as it is.                  *)
(***************************************************************************)
EXTENDS DictationPipelineProofs

\* What SessionStatus is made of; a step that keeps it is a stuttering step.
mapped == <<active, processing, results, owner, errorReset, receiver>>

\* A step that keeps what SessionStatus is made of is one the service does not see.
LEMMA Stutter ==
  ASSUME UNCHANGED mapped
  PROVE  UNCHANGED Service!svars
BY DEF mapped, Service!svars, SessionStatus

\* The status of a session, from what the pipeline holds of it.
LEMMA StatusOf ==
  ASSUME TypeOK, Coherent, NEW s \in Sessions
  PROVE  /\ SessionStatus[s] = "new" <=> owner[s] = None
         /\ SessionStatus[s] = "recording" <=> active = s
         /\ SessionStatus[s] = "ready" <=> s \in results
         /\ SessionStatus[s] = "processing" <=> processing = s /\ task[s] \in Working
         /\ SessionStatus[s] = "failed" <=> processing = s /\ task[s] = "done"
BY PipelineAssumption
   DEF TypeOK, TaskSteps, Working, Coherent, NotBegunCoherent, NotEndedCoherent,
       RecordingCoherent, WorkingCoherent, ProcessingCoherent, FailedCoherent,
       ResultCoherent, SessionStatus, PipelineAssumption

\* A step that changes the status of s alone, told session by session.
LEMMA OneStatus ==
  ASSUME NEW s \in Sessions, NEW v,
         \A t \in Sessions :
           SessionStatus'[t] = IF t = s THEN v ELSE SessionStatus[t]
  PROVE  SessionStatus' = [SessionStatus EXCEPT ![s] = v]
BY DEF SessionStatus

\* A step that only loses what some sessions hold.
LEMMA DropStep ==
  ASSUME NEW lost \in SUBSET Service!Held,
         UNCHANGED <<owner, receiver>>,
         \A t \in Sessions :
           SessionStatus'[t] = IF t \in lost THEN "dropped" ELSE SessionStatus[t]
  PROVE  Service!SNext
<1>1. Service!Drop(lost)
  BY DEF Service!Drop, SessionStatus
<1> QED
  BY <1>1 DEF Service!SNext

\* The second critical section of cancel loses the session in processing, if
\* any, and the text of s, if it is stored.
LEMMA ResetDrops ==
  ASSUME TypeOK, Coherent, NEW s \in Sessions, CancelReset(s), active # s,
         UNCHANGED <<owner, receiver, errorReset>>
  PROVE  Service!SNext
<1> DEFINE lost == {t \in Sessions : t = processing \/ (t = s /\ t \in results)}
<1>1. ASSUME NEW t \in lost
      PROVE  /\ SessionStatus[t] \in {"processing", "failed", "ready"}
             /\ receiver[t] = None /\ owner[t] # None /\ active # t
  <2>1. CASE t = processing
    BY <2>1, StatusOf, PipelineAssumption
       DEF TypeOK, TaskSteps, Coherent, NotBegunCoherent, NotEndedCoherent,
           RecordingCoherent, WorkingCoherent, ProcessingCoherent, FailedCoherent,
           PipelineAssumption
  <2>2. CASE t # processing
    BY <2>2, StatusOf DEF TypeOK, Coherent, ResultCoherent, NotBegunCoherent
  <2> QED
    BY <2>1, <2>2
<1>2. lost \in SUBSET Service!Held
  BY <1>1 DEF Service!Held
<1>3. ASSUME NEW t \in Sessions
      PROVE  SessionStatus'[t] = IF t \in lost THEN "dropped" ELSE SessionStatus[t]
  <2>1. processing' # t
    BY PipelineAssumption DEF CancelReset, PipelineAssumption
  <2>2. CASE t \in lost
    <3>1. t \notin results'
      BY <2>2, StatusOf, PipelineAssumption
         DEF CancelReset, PipelineAssumption, TypeOK, TaskSteps, Coherent,
             ProcessingCoherent, FailedCoherent, WorkingCoherent, NotEndedCoherent
    <3> QED
      BY <2>1, <2>2, <1>1, <3>1 DEF CancelReset, SessionStatus
  <2>3. CASE t \notin lost
    <3>1. t # processing
      BY <2>3
    <3>2. t \in results' <=> t \in results
      BY <2>3 DEF CancelReset
    <3> HIDE DEF lost
    <3> QED
      BY <2>1, <2>3, <3>1, <3>2 DEF CancelReset, SessionStatus
  <2> QED
    BY <2>2, <2>3
<1> HIDE DEF lost
<1> QED
  BY <1>2, <1>3, DropStep

\* A failure is reported for the session in processing, or not at all.
LEMMA FailureFails ==
  ASSUME TypeOK, Coherent, NEW s \in Sessions, task[s] \in Working,
         FailIfCurrent(s),
         UNCHANGED <<active, processing, results, owner, receiver>>
  PROVE  [Service!SNext]_(Service!svars)
<1>1. CASE IsCurrent(s)
  <2>1. SessionStatus[s] = "processing"
    BY <1>1, StatusOf DEF IsCurrent
  <2>2. errorReset' = [errorReset EXCEPT ![s] = "armed"]
    BY <1>1 DEF FailIfCurrent
  <2>3. ASSUME NEW t \in Sessions
        PROVE  SessionStatus'[t] = IF t = s THEN "failed" ELSE SessionStatus[t]
    BY <1>1, <2>1, <2>2 DEF IsCurrent, SessionStatus, TypeOK
  <2>4. SessionStatus' = [SessionStatus EXCEPT ![s] = "failed"]
    BY <2>3, OneStatus
  <2>5. Service!Fail(s)
    BY <2>1, <2>4 DEF Service!Fail
  <2> QED
    BY <2>5 DEF Service!SNext
<1>2. CASE ~IsCurrent(s)
  BY <1>2, Stutter DEF FailIfCurrent, mapped
<1> QED
  BY <1>1, <1>2

\* Each step of the pipeline is a step of the service, or leaves it as it is: one
\* recording, one session processed, each text to its owner and once (dbus.rs:26-142).
THEOREM RefinesService == Spec => ImplementsService
<1>1. Init => Service!SInit
  BY DEF Init, Service!SInit, SessionStatus
<1>2. TypeOK /\ Coherent /\ [Next]_vars => [Service!SNext]_(Service!svars)
  <2> SUFFICES ASSUME TypeOK, Coherent, [Next]_vars
               PROVE  [Service!SNext]_(Service!svars)
    OBVIOUS
  <2> USE PipelineAssumption
      DEF TypeOK, inner, timers, CallsInProgress, Free, PipelineAssumption, Working,
          Coherent, NotBegunCoherent, NotEndedCoherent, RecordingCoherent,
          WorkingCoherent, ProcessingCoherent, FailedCoherent, ResultCoherent,
          HandlerCoherent, WatchdogCoherent, mapped
  <2>1. CASE UNCHANGED vars
    BY <2>1, Stutter DEF vars
  <2>2. ASSUME NEW o \in Callers, NEW s \in Sessions, Call(o, s)
        PROVE  [Service!SNext]_(Service!svars)
    <3>1. CASE BeginCheck(o, s)
      BY <3>1, Stutter DEF BeginCheck
    <3>2. CASE EndCall(o, s)
      BY <3>2, Stutter DEF EndCall
    <3>3. CASE CancelCall(o, s) /\ active = s
      <4>1. Service!Drop({s})
        BY <3>3 DEF CancelCall, SessionStatus, Service!Drop
      <4>2. s \in Service!Held
        BY <3>3 DEF SessionStatus, Service!Held
      <4> QED
        BY <4>1, <4>2 DEF Service!SNext
    <3>4. CASE CancelCall(o, s) /\ active # s
      BY <3>4, Stutter DEF CancelCall, MayCancel
    <3>5. CASE TakeResult(o, s)
      <4>1. SessionStatus[s] = "ready" /\ receiver' = [receiver EXCEPT ![s] = owner[s]]
        BY <3>5, StatusOf DEF TakeResult
      <4>2. ASSUME NEW t \in Sessions
            PROVE  SessionStatus'[t] = IF t = s THEN "delivered" ELSE SessionStatus[t]
        BY <3>5 DEF TakeResult, SessionStatus
      <4>3. SessionStatus' = [SessionStatus EXCEPT ![s] = "delivered"]
        BY <4>2, OneStatus
      <4>4. Service!Deliver(s)
        BY <3>5, <4>1, <4>3 DEF TakeResult, Service!Deliver
      <4> QED
        BY <4>4 DEF Service!SNext
    <3> QED
      BY <2>2, <3>1, <3>2, <3>3, <3>4, <3>5 DEF Call
  <2>3. ASSUME NEW o \in Callers, NEW s \in Sessions, EndStarts(o, s)
        PROVE  [Service!SNext]_(Service!svars)
    <3>1. CASE EndTake(o, s)
      <4>1. Service!End(s)
        BY <3>1 DEF EndTake, MayEnd, SessionStatus, Service!End
      <4> QED
        BY <4>1 DEF Service!SNext
    <3>2. CASE EndRefused(o, s)
      BY <3>2, Stutter DEF EndRefused
    <3> QED
      BY <2>3, <3>1, <3>2 DEF EndStarts
  <2>4. CASE HandlerStep
    <3>1. CASE BeginGivesUp
      BY <3>1, Stutter DEF BeginGivesUp
    <3>2. CASE BeginCommit
      <4>1. PICK o \in Callers, s \in Sessions :
              o = handler.caller /\ s = handler.session
        BY <3>2 DEF BeginCommit
      <4>2. SessionStatus[s] = "new"
            /\ \A t \in Sessions : SessionStatus[t] # "recording"
        BY <3>2, <4>1, StatusOf DEF BeginCommit, Available
      <4>3. ASSUME NEW t \in Sessions
            PROVE  SessionStatus'[t] = IF t = s THEN "recording" ELSE SessionStatus[t]
        BY <3>2, <4>1 DEF BeginCommit, Available, SessionStatus
      <4>4. SessionStatus' = [SessionStatus EXCEPT ![s] = "recording"]
        BY <4>3, OneStatus
      <4>5. Service!Begin(o, s)
        BY <3>2, <4>1, <4>2, <4>4 DEF BeginCommit, Service!Begin
      <4> QED
        BY <4>5 DEF Service!SNext
    <3>3. CASE CancelFinish
      BY <3>3, ResetDrops DEF CancelFinish
    <3>4. CASE CancelConfirm
      BY <3>4, Stutter DEF CancelConfirm
    <3> QED
      BY <2>4, <3>1, <3>2, <3>3, <3>4 DEF HandlerStep
  <2>5. ASSUME NEW s \in Sessions, TaskStep(s)
        PROVE  [Service!SNext]_(Service!svars)
    <3> USE DEF Advance
    <3>1. CASE CaptureFinished(s)
      BY <3>1, Stutter DEF CaptureFinished
    <3>2. CASE CaptureFailed(s)
      BY <3>2, FailureFails DEF CaptureFailed
    <3>3. CASE TranscribeDone(s)
      BY <3>3, Stutter DEF TranscribeDone
    <3>4. CASE TranscribeFailed(s)
      BY <3>4, FailureFails DEF TranscribeFailed
    <3>5. CASE MarkPolishing(s)
      BY <3>5, Stutter DEF MarkPolishing
    <3>6. CASE TaskAbandoned(s)
      BY <3>6, Stutter DEF TaskAbandoned
    <3>7. CASE StoreResult(s)
      <4>1. PICK expired \in SUBSET results : results' = (results \ expired) \cup {s}
        BY <3>7 DEF StoreResult
      <4>2. expired \in SUBSET {t \in Sessions : SessionStatus[t] = "ready"}
        BY StatusOf
      <4>3. SessionStatus' = [t \in Sessions |->
                                IF t = s THEN "ready"
                                ELSE IF t \in expired THEN "dropped"
                                ELSE SessionStatus[t]]
        BY <3>7, <4>1 DEF StoreResult, StillWanted, IsCurrent, SessionStatus
      <4>4. SessionStatus[s] = "processing"
        BY <3>7, StatusOf DEF StoreResult, StillWanted, IsCurrent
      <4>5. Service!Store(s)
        <5>1. UNCHANGED <<owner, receiver>>
          BY <3>7 DEF StoreResult
        <5>2. \E gone \in SUBSET {t \in Sessions : SessionStatus[t] = "ready"} :
                SessionStatus' = [t \in Sessions |->
                                    IF t = s THEN "ready"
                                    ELSE IF t \in gone THEN "dropped"
                                    ELSE SessionStatus[t]]
          BY <4>2, <4>3, Zenon
        <5> QED BY <4>4, <5>1, <5>2, Zenon DEF Service!Store
      <4> QED
        BY <4>5 DEF Service!SNext
    <3> QED
      BY <2>5, <3>1, <3>2, <3>3, <3>4, <3>5, <3>6, <3>7 DEF TaskStep
  <2>6. ASSUME NEW s \in Sessions, TimerStep(s)
        PROVE  [Service!SNext]_(Service!svars)
    <3>1. CASE WatchdogFires(s) /\ active = s
      <4>1. Service!Drop({s})
        BY <3>1 DEF WatchdogFires, MayCancel, SessionStatus, Service!Drop
      <4>2. s \in Service!Held
        BY <3>1 DEF SessionStatus, Service!Held
      <4> QED
        BY <4>1, <4>2 DEF Service!SNext
    <3>2. CASE WatchdogFires(s) /\ active # s
      BY <3>2, Stutter DEF WatchdogFires, MayCancel
    <3>3. CASE WatchdogResets(s)
      BY <3>3, ResetDrops DEF WatchdogResets
    <3>4. CASE ErrorResets(s) /\ state = "error" /\ IsCurrent(s)
      <4>1. Service!Drop({s})
        BY <3>4 DEF ErrorResets, IsCurrent, SessionStatus, Service!Drop
      <4>2. s \in Service!Held
        BY <3>4 DEF IsCurrent, SessionStatus, Service!Held
      <4> QED
        BY <4>1, <4>2 DEF Service!SNext
    <3>5. CASE ErrorResets(s) /\ ~(state = "error" /\ IsCurrent(s))
      <4>1. UNCHANGED Service!svars
        BY <3>5 DEF ErrorResets, SessionStatus, Service!svars
      <4> QED
        BY <4>1
    <3>6. CASE ExpireResult(s) /\ s \in results
      <4>1. Service!Drop({s})
        BY <3>6 DEF ExpireResult, SessionStatus, Service!Drop
      <4>2. s \in Service!Held
        BY <3>6 DEF SessionStatus, Service!Held
      <4> QED
        BY <4>1, <4>2 DEF Service!SNext
    <3>7. CASE ExpireResult(s) /\ s \notin results
      BY <3>7, Stutter DEF ExpireResult
    <3> QED
      BY <2>6, <3>1, <3>2, <3>3, <3>4, <3>5, <3>6, <3>7 DEF TimerStep
  <2> QED
    BY <2>1, <2>2, <2>3, <2>4, <2>5, <2>6 DEF Next
<1> QED
  BY <1>1, <1>2, TypeCorrect, CoherentAlways, PTL DEF Spec, ImplementsService, Service!SSpec
=============================================================================
