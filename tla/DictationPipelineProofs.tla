---------------------- MODULE DictationPipelineProofs ----------------------
(***************************************************************************)
(* Proofs about DictationPipeline, for any sessions and callers.           *)
(***************************************************************************)
EXTENDS DictationPipeline, TLAPS

\* Every step keeps the types of the variables.
LEMMA TypeStep ==
  ASSUME TypeOK, [Next]_vars
  PROVE  TypeOK'
<1> USE DEF TypeOK, inner, timers, CallsInProgress, Free
<1>1. CASE UNCHANGED vars
  BY <1>1 DEF vars
<1>2. ASSUME NEW o \in Callers, NEW s \in Sessions, Call(o, s)
      PROVE  TypeOK'
  <2>1. CASE BeginCheck(o, s)
    BY <2>1 DEF BeginCheck
  <2>2. CASE EndCall(o, s)
    BY <2>2 DEF EndCall
  <2>3. CASE CancelCall(o, s)
    BY <2>3 DEF CancelCall
  <2>4. CASE TakeResult(o, s)
    BY <2>4 DEF TakeResult, PipelineStates
  <2> QED
    BY <1>2, <2>1, <2>2, <2>3, <2>4 DEF Call
<1>3. ASSUME NEW o \in Callers, NEW s \in Sessions, EndStarts(o, s)
      PROVE  TypeOK'
  <2>1. CASE EndTake(o, s)
    BY <2>1 DEF EndTake, PipelineStates, TaskSteps, Working
  <2>2. CASE EndRefused(o, s)
    BY <2>2 DEF EndRefused
  <2> QED
    BY <1>3, <2>1, <2>2 DEF EndStarts
<1>4. CASE HandlerStep
  <2>1. CASE BeginGivesUp
    BY <2>1 DEF BeginGivesUp
  <2>2. CASE BeginCommit
    BY <2>2 DEF BeginCommit, PipelineStates
  <2>3. CASE CancelFinish
    BY <2>3 DEF CancelFinish, CancelReset, PipelineStates
  <2>4. CASE CancelConfirm
    BY <2>4 DEF CancelConfirm
  <2> QED
    BY <1>4, <2>1, <2>2, <2>3, <2>4 DEF HandlerStep
<1>5. ASSUME NEW s \in Sessions, TaskStep(s)
      PROVE  TypeOK'
  <2> USE DEF Advance, TaskSteps, Working, PipelineStates
  <2>1. CASE CaptureFinished(s)
    BY <2>1 DEF CaptureFinished
  <2>2. CASE CaptureFailed(s)
    BY <2>2 DEF CaptureFailed, FailIfCurrent
  <2>3. CASE TranscribeDone(s)
    BY <2>3 DEF TranscribeDone
  <2>4. CASE TranscribeFailed(s)
    BY <2>4 DEF TranscribeFailed, FailIfCurrent
  <2>5. CASE MarkPolishing(s)
    BY <2>5 DEF MarkPolishing
  <2>6. CASE TaskAbandoned(s)
    BY <2>6 DEF TaskAbandoned
  <2>7. CASE StoreResult(s)
    BY <2>7 DEF StoreResult
  <2> QED
    BY <1>5, <2>1, <2>2, <2>3, <2>4, <2>5, <2>6, <2>7 DEF TaskStep
<1>6. ASSUME NEW s \in Sessions, TimerStep(s)
      PROVE  TypeOK'
  <2> USE DEF PipelineStates
  <2>1. CASE WatchdogFires(s)
    BY <2>1 DEF WatchdogFires
  <2>2. CASE WatchdogResets(s)
    BY <2>2 DEF WatchdogResets, CancelReset
  <2>3. CASE ErrorResets(s)
    BY <2>3 DEF ErrorResets
  <2>4. CASE ExpireResult(s)
    BY <2>4 DEF ExpireResult
  <2> QED
    BY <1>6, <2>1, <2>2, <2>3, <2>4 DEF TimerStep
<1> QED
  BY <1>1, <1>2, <1>3, <1>4, <1>5, <1>6 DEF Next

\* Every variable of the pipeline keeps its type.
THEOREM TypeCorrect == Spec => []TypeOK
<1>1. Init => TypeOK
  BY DEF Init, TypeOK, PipelineStates, Free, TaskSteps
<1>2. TypeOK /\ [Next]_vars => TypeOK'
  BY TypeStep
<1> QED
  BY <1>1, <1>2, PTL DEF Spec

\* At the start nothing was begun.
LEMMA CoherentInitially == Init => Coherent
BY PipelineAssumption
   DEF Init, Free, Working, PipelineAssumption, Coherent, NotBegunCoherent,
       NotEndedCoherent, RecordingCoherent, WorkingCoherent, ProcessingCoherent,
       FailedCoherent, ResultCoherent, HandlerCoherent, WatchdogCoherent

\* The nine parts of Coherent are inductive together, given their types.
LEMMA CoherentStep ==
  ASSUME TypeOK, Coherent, [Next]_vars
  PROVE  Coherent'
<1> USE DEF Coherent, NotBegunCoherent, NotEndedCoherent, RecordingCoherent,
            WorkingCoherent, ProcessingCoherent, FailedCoherent,
            ResultCoherent, HandlerCoherent, WatchdogCoherent
<1> USE PipelineAssumption
    DEF TypeOK, inner, timers, CallsInProgress, Free, PipelineAssumption, Working
<1>1. CASE UNCHANGED vars
  BY <1>1 DEF vars
<1>2. ASSUME NEW o \in Callers, NEW s \in Sessions, Call(o, s)
      PROVE  Coherent'
  <2>1. CASE BeginCheck(o, s)
    BY <2>1 DEF BeginCheck
  <2>2. CASE EndCall(o, s)
    BY <2>2 DEF EndCall
  <2>3. CASE CancelCall(o, s)
    BY <2>3 DEF CancelCall, MayCancel
  <2>4. CASE TakeResult(o, s)
    BY <2>4 DEF TakeResult
  <2> QED
    BY <1>2, <2>1, <2>2, <2>3, <2>4 DEF Call
<1>3. ASSUME NEW o \in Callers, NEW s \in Sessions, EndStarts(o, s)
      PROVE  Coherent'
  <2>1. CASE EndTake(o, s)
    BY <2>1 DEF EndTake, MayEnd
  <2>2. CASE EndRefused(o, s)
    BY <2>2 DEF EndRefused
  <2> QED
    BY <1>3, <2>1, <2>2 DEF EndStarts
<1>4. CASE HandlerStep
  <2>1. CASE BeginGivesUp
    BY <2>1 DEF BeginGivesUp
  <2>2. CASE BeginCommit
    BY <2>2 DEF BeginCommit, Available
  <2>3. CASE CancelFinish
    BY <2>3 DEF CancelFinish, CancelReset, IsCurrent
  <2>4. CASE CancelConfirm
    BY <2>4 DEF CancelConfirm
  <2> QED
    BY <1>4, <2>1, <2>2, <2>3, <2>4 DEF HandlerStep
<1>5. ASSUME NEW s \in Sessions, TaskStep(s)
      PROVE  Coherent'
  <2> USE DEF Advance, TaskSteps, IsCurrent
  <2>1. CASE CaptureFinished(s)
    BY <2>1 DEF CaptureFinished
  <2>2. CASE CaptureFailed(s)
    BY <2>2 DEF CaptureFailed, FailIfCurrent
  <2>3. CASE TranscribeDone(s)
    BY <2>3 DEF TranscribeDone
  <2>4. CASE TranscribeFailed(s)
    BY <2>4 DEF TranscribeFailed, FailIfCurrent
  <2>5. CASE MarkPolishing(s)
    BY <2>5 DEF MarkPolishing
  <2>6. CASE TaskAbandoned(s)
    BY <2>6 DEF TaskAbandoned, StillWanted
  <2>7. CASE StoreResult(s)
    BY <2>7 DEF StoreResult, StillWanted
  <2> QED
    BY <1>5, <2>1, <2>2, <2>3, <2>4, <2>5, <2>6, <2>7 DEF TaskStep
<1>6. ASSUME NEW s \in Sessions, TimerStep(s)
      PROVE  Coherent'
  <2>1. CASE WatchdogFires(s)
    BY <2>1 DEF WatchdogFires, MayCancel
  <2>2. CASE WatchdogResets(s)
    BY <2>2 DEF WatchdogResets, CancelReset, IsCurrent
  <2>3. CASE ErrorResets(s)
    BY <2>3 DEF ErrorResets
  <2>4. CASE ExpireResult(s)
    BY <2>4 DEF ExpireResult
  <2> QED
    BY <1>6, <2>1, <2>2, <2>3, <2>4 DEF TimerStep
<1> QED
  BY <1>1, <1>2, <1>3, <1>4, <1>5, <1>6 DEF Next

\* The variables agree with each other, in every reachable state; the nine
\* parts of Coherent are inductive together, given their types.
THEOREM CoherentAlways == Spec => []Coherent
<1>1. TypeOK /\ Coherent /\ [Next]_vars => Coherent'
  BY CoherentStep
<1>2. Spec => [](TypeOK /\ Coherent)
  BY TypeCorrect, CoherentInitially, <1>1, PTL DEF Spec
<1> QED
  BY <1>2, PTL

\* No step takes the backing of a state away while the state stays.
LEMMA BackedStep ==
  ASSUME TypeOK, Coherent, PhaseBacked, [Next]_vars
  PROVE  PhaseBacked'
<1> USE PipelineAssumption
    DEF TypeOK, inner, timers, CallsInProgress, Free, PipelineAssumption, Working,
        PhaseBacked, CancelUnderWay, Coherent, NotBegunCoherent, NotEndedCoherent,
        RecordingCoherent, WorkingCoherent, ProcessingCoherent, FailedCoherent,
        ResultCoherent, HandlerCoherent, WatchdogCoherent
<1>1. CASE UNCHANGED vars
  BY <1>1 DEF vars
<1>2. ASSUME NEW o \in Callers, NEW s \in Sessions, Call(o, s)
      PROVE  PhaseBacked'
  <2>1. CASE BeginCheck(o, s)
    BY <2>1 DEF BeginCheck
  <2>2. CASE EndCall(o, s)
    BY <2>2 DEF EndCall
  <2>3. CASE CancelCall(o, s)
    BY <2>3 DEF CancelCall, MayCancel
  <2>4. CASE TakeResult(o, s)
    BY <2>4 DEF TakeResult
  <2> QED
    BY <1>2, <2>1, <2>2, <2>3, <2>4 DEF Call
<1>3. ASSUME NEW o \in Callers, NEW s \in Sessions, EndStarts(o, s)
      PROVE  PhaseBacked'
  <2>1. CASE EndTake(o, s)
    BY <2>1 DEF EndTake, MayEnd
  <2>2. CASE EndRefused(o, s)
    BY <2>2 DEF EndRefused
  <2> QED
    BY <1>3, <2>1, <2>2 DEF EndStarts
<1>4. CASE HandlerStep
  <2>1. CASE BeginGivesUp
    BY <2>1 DEF BeginGivesUp
  <2>2. CASE BeginCommit
    BY <2>2 DEF BeginCommit, Available
  <2>3. CASE CancelFinish
    BY <2>3 DEF CancelFinish, CancelReset, IsCurrent
  <2>4. CASE CancelConfirm
    BY <2>4 DEF CancelConfirm
  <2> QED
    BY <1>4, <2>1, <2>2, <2>3, <2>4 DEF HandlerStep
<1>5. ASSUME NEW s \in Sessions, TaskStep(s)
      PROVE  PhaseBacked'
  <2> USE DEF Advance, TaskSteps, IsCurrent
  <2>1. CASE CaptureFinished(s)
    BY <2>1 DEF CaptureFinished
  <2>2. CASE CaptureFailed(s)
    BY <2>2 DEF CaptureFailed, FailIfCurrent
  <2>3. CASE TranscribeDone(s)
    BY <2>3 DEF TranscribeDone
  <2>4. CASE TranscribeFailed(s)
    BY <2>4 DEF TranscribeFailed, FailIfCurrent
  <2>5. CASE MarkPolishing(s)
    BY <2>5 DEF MarkPolishing, StillWanted
  <2>6. CASE TaskAbandoned(s)
    BY <2>6 DEF TaskAbandoned, StillWanted
  <2>7. CASE StoreResult(s)
    BY <2>7 DEF StoreResult, StillWanted
  <2> QED
    BY <1>5, <2>1, <2>2, <2>3, <2>4, <2>5, <2>6, <2>7 DEF TaskStep
<1>6. ASSUME NEW s \in Sessions, TimerStep(s)
      PROVE  PhaseBacked'
  <2>1. CASE WatchdogFires(s)
    BY <2>1 DEF WatchdogFires, MayCancel
  <2>2. CASE WatchdogResets(s)
    BY <2>2 DEF WatchdogResets, CancelReset, IsCurrent
  <2>3. CASE ErrorResets(s)
    BY <2>3 DEF ErrorResets, IsCurrent
  <2>4. CASE ExpireResult(s)
    BY <2>4 DEF ExpireResult
  <2> QED
    BY <1>6, <2>1, <2>2, <2>3, <2>4 DEF TimerStep
<1> QED
  BY <1>1, <1>2, <1>3, <1>4, <1>5, <1>6 DEF Next

\* No state of the pipeline is without what will leave it: the daemon is never
\* wedged.  The parts of Coherent that tell what a session in processing, a
\* failed one and a stored one are, rule out a task, a watchdog or a timer that
\* takes this backing away while the state stays.
THEOREM NeverWedged == Spec => []PhaseBacked
<1>1. Init => PhaseBacked
  BY DEF Init, PhaseBacked
<1>2. TypeOK /\ Coherent /\ PhaseBacked /\ [Next]_vars => PhaseBacked'
  BY BackedStep
<1>3. Spec => [](TypeOK /\ Coherent /\ PhaseBacked)
  BY TypeCorrect, CoherentAlways, <1>1, <1>2, PTL DEF Spec
<1> QED
  BY <1>3, PTL

\* A cancellation that was answered left nothing of its session.
THEOREM CancelIsFinal == Spec => []CancelDiscards
<1>1. TypeOK /\ Coherent => CancelDiscards
  BY DEF TypeOK, CallsInProgress, Free, Coherent, HandlerCoherent, CancelDiscards
<1> QED
  BY <1>1, TypeCorrect, CoherentAlways, PTL
=============================================================================
