------------------------- MODULE DictationPipeline -------------------------
(***************************************************************************)
(* The daemon's dictation pipeline: daemon/src/pipeline.rs, driven by the  *)
(* D-Bus methods of daemon/src/dbus.rs.                                    *)
(*                                                                         *)
(* Every critical section of Pipeline::inner is one action.  The actors    *)
(* that interleave are                                                     *)
(*   - the D-Bus method handlers, which run one at a time and in order of  *)
(*     arrival (the interface is declared spawn = false): handler;         *)
(*   - the task each End call spawns, which drives its session through     *)
(*     capture, recognition and polishing: ending, then task[s];           *)
(*   - the watchdog each Begin spawns, which cancels the session           *)
(*     max_recording_seconds + 2 after Begin: watchdog[s];                 *)
(*   - the 10 s timer that clears a reported error: errorReset[s];         *)
(*   - the 30 s timer that expires a stored result: expiry[s].             *)
(* Durations are abstracted: an armed timer may fire at any moment.  Audio,*)
(* text, options and the error detail are abstracted too; no branch of     *)
(* these sections looks at them.  The signals emitted between the sections *)
(* read and change nothing of the pipeline and are left out.               *)
(*                                                                         *)
(* A session identifier is random (makeSessionId of the addon) and is begun*)
(* at most once; one whose Begin was refused left no trace and may stand   *)
(* for another fresh identifier.                                           *)
(***************************************************************************)
EXTENDS FiniteSets, Naturals

CONSTANTS
  Sessions,   \* session identifiers
  Callers,    \* D-Bus unique names that call the daemon
  None,       \* no session, no caller (Option::None)
  MaxEnding   \* bound: End tasks spawned and not yet started

ASSUME PipelineAssumption ==
  /\ None \notin Sessions
  /\ None \notin Callers
  /\ MaxEnding \in Nat

VARIABLES
  state,       \* Inner.state, as PipelineState::as_str names it
  active,      \* Inner.active: the session that is recording
  processing,  \* Inner.processing: the session after its End
  cancelled,   \* Inner.cancelled
  results,     \* the keys of Inner.results
  owner,       \* owner[s]: the caller stored with session s
  handler,     \* the D-Bus method handler in progress
  ending,      \* <<caller, session>> of the End tasks not yet started
  task,        \* task[s]: where the End task of session s is
  watchdog,    \* watchdog[s]: the task spawned by begin
  errorReset,  \* errorReset[s]: the task spawned by fail_if_current
  expiry,      \* expiry[s]: the task spawned by polish_and_store
  receiver     \* history: the caller TakeResult returned the text of s to

inner == <<state, active, processing, cancelled, results>>
timers == <<watchdog, errorReset, expiry>>
vars == <<state, active, processing, cancelled, results, owner, handler,
          ending, task, watchdog, errorReset, expiry, receiver>>

\* LoadingModel is declared by PipelineState and never assigned.
PipelineStates ==
  {"idle", "recording", "transcribing", "polishing", "result_ready", "error"}

\* The steps of the End task before its session is stored or has failed ...
Working == {"finishing", "transcribing", "transcribed", "polishing"}
\* ... and all of them.
TaskSteps == Working \cup {"none", "done"}

Free == [at |-> "free", caller |-> None, session |-> None]
CallsInProgress == [at : {"starting", "cancelling", "confirming"},
                    caller : Callers, session : Sessions]

TypeOK ==
  /\ state \in PipelineStates
  /\ active \in Sessions \cup {None}
  /\ processing \in Sessions \cup {None}
  /\ cancelled \subseteq Sessions
  /\ results \subseteq Sessions
  /\ owner \in [Sessions -> Callers \cup {None}]
  /\ handler \in CallsInProgress \cup {Free}
  /\ ending \subseteq Callers \X Sessions
  /\ task \in [Sessions -> TaskSteps]
  /\ watchdog \in [Sessions -> {"off", "armed", "resetting", "done"}]
  /\ errorReset \in [Sessions -> {"off", "armed", "done"}]
  /\ expiry \in [Sessions -> {"off", "armed", "done"}]
  /\ receiver \in [Sessions -> Callers \cup {None}]

Init ==
  /\ state = "idle"
  /\ active = None
  /\ processing = None
  /\ cancelled = {}
  /\ results = {}
  /\ owner = [s \in Sessions |-> None]
  /\ handler = Free
  /\ ending = {}
  /\ task = [s \in Sessions |-> "none"]
  /\ watchdog = [s \in Sessions |-> "off"]
  /\ errorReset = [s \in Sessions |-> "off"]
  /\ expiry = [s \in Sessions |-> "off"]
  /\ receiver = [s \in Sessions |-> None]
-----------------------------------------------------------------------------
(***************************************************************************)
(* Begin                                                                   *)
(***************************************************************************)
Available == active = None /\ state = "idle"

\* A Begin call is dispatched and finds the pipeline free.  One that finds it
\* busy is answered with an error and leaves no trace, here and below.
BeginCheck(o, s) ==
  /\ handler.at = "free"
  /\ owner[s] = None
  /\ Available
  /\ handler' = [at |-> "starting", caller |-> o, session |-> s]
  /\ UNCHANGED <<inner, timers, owner, ending, task, receiver>>

\* pw-record could not be started, or the pipeline became busy meanwhile and
\* the new recording is cancelled: the caller gets an error.
BeginGivesUp ==
  /\ handler.at = "starting"
  /\ handler' = Free
  /\ UNCHANGED <<inner, timers, owner, ending, task, receiver>>

\* The recording has started and the pipeline is still free.
BeginCommit ==
  LET s == handler.session IN
  /\ handler.at = "starting"
  /\ Available
  /\ state' = "recording"
  /\ active' = s
  /\ cancelled' = cancelled \ {s}
  /\ owner' = [owner EXCEPT ![s] = handler.caller]
  /\ watchdog' = [watchdog EXCEPT ![s] = "armed"]
  /\ handler' = Free
  /\ UNCHANGED <<processing, results, ending, task, errorReset, expiry, receiver>>
-----------------------------------------------------------------------------
(***************************************************************************)
(* End: the handler only spawns a task                                     *)
(***************************************************************************)
EndCall(o, s) ==
  /\ handler.at = "free"
  /\ Cardinality(ending) < MaxEnding
  /\ ending' = ending \cup {<<o, s>>}
  /\ UNCHANGED <<inner, timers, owner, handler, task, receiver>>

\* The session and the caller are those of the active recording.
MayEnd(o, s) == active = s /\ owner[s] = o

EndTake(o, s) ==
  /\ <<o, s>> \in ending
  /\ MayEnd(o, s)
  /\ ending' = ending \ {<<o, s>>}
  /\ active' = None
  /\ state' = "transcribing"
  /\ processing' = s
  /\ task' = [task EXCEPT ![s] = "finishing"]
  /\ UNCHANGED <<cancelled, results, timers, owner, handler, receiver>>

\* No recording, or another session's: StateChanged(error) is emitted for s.
EndRefused(o, s) ==
  /\ <<o, s>> \in ending
  /\ ~MayEnd(o, s)
  /\ ending' = ending \ {<<o, s>>}
  /\ UNCHANGED <<inner, timers, owner, handler, task, receiver>>

Advance(s, from, to) ==
  /\ task[s] = from
  /\ task' = [task EXCEPT ![s] = to]

\* Recording::finish returned the audio, which goes to the selected recognizer.
CaptureFinished(s) ==
  /\ Advance(s, "finishing", "transcribing")
  /\ UNCHANGED <<inner, timers, owner, handler, ending, receiver>>

IsCurrent(s) == processing = s

\* Mutant of FailIfCurrent: without the test of processing.
FailAlways(s) ==
  /\ state' = "error"
  /\ errorReset' = [errorReset EXCEPT ![s] = "armed"]

\* fail_if_current: the error is shown for 10 s unless the session has been
\* cancelled meanwhile.
FailIfCurrent(s) ==
  IF IsCurrent(s)
  THEN /\ state' = "error"
       /\ errorReset' = [errorReset EXCEPT ![s] = "armed"]
  ELSE UNCHANGED <<state, errorReset>>

\* No audio, or too little of it; the audio reader failed or did not drain.
CaptureFailed(s) ==
  /\ Advance(s, "finishing", "done")
  /\ FailIfCurrent(s)
  /\ UNCHANGED <<active, processing, cancelled, results, watchdog, expiry,
                 owner, handler, ending, receiver>>

TranscribeDone(s) ==
  /\ Advance(s, "transcribing", "transcribed")
  /\ UNCHANGED <<inner, timers, owner, handler, ending, receiver>>

TranscribeFailed(s) ==
  /\ Advance(s, "transcribing", "done")
  /\ FailIfCurrent(s)
  /\ UNCHANGED <<active, processing, cancelled, results, watchdog, expiry,
                 owner, handler, ending, receiver>>

\* Mutant of StillWanted: the cancelled set alone does not tell a session that
\* was replaced, or given up by the cancellation of another.
NotCancelled(s) == s \notin cancelled

\* The session was neither cancelled nor replaced since its End.
StillWanted(s) == s \notin cancelled /\ IsCurrent(s)

\* Mutant of MarkPolishing: the model's own state, which nothing reports.
MarkLoading(s) ==
  /\ Advance(s, "transcribed", "polishing")
  /\ StillWanted(s)
  /\ state' = "loading_model"
  /\ UNCHANGED <<active, processing, cancelled, results, timers, owner,
                 handler, ending, receiver>>

MarkPolishing(s) ==
  /\ Advance(s, "transcribed", "polishing")
  /\ StillWanted(s)
  /\ state' = "polishing"
  /\ UNCHANGED <<active, processing, cancelled, results, timers, owner,
                 handler, ending, receiver>>

\* mark_polishing or polish_and_store finds the session gone: the task ends
\* without a signal, and a cancellation that was waiting for it is consumed.
TaskAbandoned(s) ==
  /\ task[s] \in {"transcribed", "polishing"}
  /\ ~StillWanted(s)
  /\ task' = [task EXCEPT ![s] = "done"]
  /\ cancelled' = cancelled \ {s}
  /\ UNCHANGED <<state, active, processing, results, timers, owner, handler,
                 ending, receiver>>

\* The text, polished or not, is stored.  retain drops the results whose 30 s
\* are over although their own timer has not run yet.
StoreResult(s) ==
  /\ Advance(s, "polishing", "done")
  /\ StillWanted(s)
  /\ \E expired \in SUBSET results : results' = (results \ expired) \cup {s}
  /\ processing' = None
  /\ state' = "result_ready"
  /\ expiry' = [expiry EXCEPT ![s] = "armed"]
  /\ UNCHANGED <<active, cancelled, watchdog, errorReset, owner, handler,
                 ending, receiver>>
-----------------------------------------------------------------------------
(***************************************************************************)
(* TakeResult, Cancel and the timers                                       *)
(***************************************************************************)
\* Mutant of TakeResult: without the test of the result's owner.
TakeAnyResult(o, s) ==
  /\ handler.at = "free"
  /\ s \in results
  /\ results' = results \ {s}
  /\ state' = "idle"
  /\ receiver' = [receiver EXCEPT ![s] = o]
  /\ UNCHANGED <<active, processing, cancelled, timers, owner, handler,
                 ending, task>>

TakeResult(o, s) ==
  /\ handler.at = "free"
  /\ s \in results
  /\ owner[s] = o
  /\ results' = results \ {s}
  /\ state' = "idle"
  /\ receiver' = [receiver EXCEPT ![s] = o]
  /\ UNCHANGED <<active, processing, cancelled, timers, owner, handler,
                 ending, task>>

\* Mutant of MayCancel: only what was ended can be cancelled.
MayCancelEnded(o, s) ==
  owner[s] = o /\ active = None /\ s \in results \cup {processing}

\* The first critical section of cancel lets o cancel s.
MayCancel(o, s) ==
  /\ owner[s] = o
  /\ \/ active = s
     \/ active = None /\ s \in results \cup {processing}

\* Mutants of CancelReset: a result stored meanwhile is kept ...
CancelKeepsResult(s) ==
  /\ cancelled' = IF IsCurrent(s) /\ state # "error"
                  THEN cancelled \cup {s} ELSE cancelled
  /\ processing' = None
  /\ results' = results
  /\ state' = "idle"
  /\ UNCHANGED active

\* ... or the session stays in processing, only marked as cancelled.
CancelOnlyMarks(s) ==
  /\ cancelled' = IF IsCurrent(s) /\ state # "error"
                  THEN cancelled \cup {s} ELSE cancelled
  /\ results' = results \ {s}
  /\ state' = "idle"
  /\ UNCHANGED <<active, processing>>

\* The second one, entered after the recording (if any) was stopped.  It looks
\* at the session again for the cancelled set only: whatever session is being
\* processed by then is given up, and the state becomes idle.  Its test of the
\* result's owner cannot fail, for a session never changes owner.
CancelReset(s) ==
  /\ cancelled' = IF IsCurrent(s) /\ state # "error"
                  THEN cancelled \cup {s} ELSE cancelled
  /\ processing' = None
  /\ results' = results \ {s}
  /\ state' = "idle"
  /\ UNCHANGED active

CancelCall(o, s) ==
  /\ handler.at = "free"
  /\ MayCancel(o, s)
  /\ active' = None
  /\ handler' = [at |-> "cancelling", caller |-> o, session |-> s]
  /\ UNCHANGED <<state, processing, cancelled, results, timers, owner, ending,
                 task, receiver>>

CancelFinish ==
  /\ handler.at = "cancelling"
  /\ CancelReset(handler.session)
  /\ handler' = [handler EXCEPT !.at = "confirming"]
  /\ UNCHANGED <<timers, owner, ending, task, receiver>>

\* The caller gets its answer.
CancelConfirm ==
  /\ handler.at = "confirming"
  /\ handler' = Free
  /\ UNCHANGED <<inner, timers, owner, ending, task, receiver>>

\* max_recording_seconds + 2 after its Begin, the session is cancelled in the
\* name of its owner, whatever it is doing then; no signal is emitted.
WatchdogFires(s) ==
  /\ watchdog[s] = "armed"
  /\ IF MayCancel(owner[s], s)
     THEN /\ active' = None
          /\ watchdog' = [watchdog EXCEPT ![s] = "resetting"]
     ELSE /\ watchdog' = [watchdog EXCEPT ![s] = "done"]
          /\ UNCHANGED active
  /\ UNCHANGED <<state, processing, cancelled, results, errorReset, expiry,
                 owner, handler, ending, task, receiver>>

WatchdogResets(s) ==
  /\ watchdog[s] = "resetting"
  /\ CancelReset(s)
  /\ watchdog' = [watchdog EXCEPT ![s] = "done"]
  /\ UNCHANGED <<errorReset, expiry, owner, handler, ending, task, receiver>>

\* 10 s after a failure.
ErrorResets(s) ==
  /\ errorReset[s] = "armed"
  /\ errorReset' = [errorReset EXCEPT ![s] = "done"]
  /\ IF state = "error" /\ IsCurrent(s)
     THEN processing' = None /\ state' = "idle"
     ELSE UNCHANGED <<processing, state>>
  /\ UNCHANGED <<active, cancelled, results, watchdog, expiry, owner, handler,
                 ending, task, receiver>>

\* Mutant of ExpireResult: the state is left to TakeResult.
ExpireQuietly(s) ==
  /\ expiry[s] = "armed"
  /\ expiry' = [expiry EXCEPT ![s] = "done"]
  /\ results' = results \ {s}
  /\ UNCHANGED <<state, active, processing, cancelled, watchdog, errorReset,
                 owner, handler, ending, task, receiver>>

\* expire_result, 30 s after the result was stored.
ExpireResult(s) ==
  /\ expiry[s] = "armed"
  /\ expiry' = [expiry EXCEPT ![s] = "done"]
  /\ results' = results \ {s}
  /\ state' = IF s \in results /\ state = "result_ready" THEN "idle" ELSE state
  /\ UNCHANGED <<active, processing, cancelled, watchdog, errorReset, owner,
                 handler, ending, task, receiver>>
-----------------------------------------------------------------------------
Call(o, s) ==
  BeginCheck(o, s) \/ EndCall(o, s) \/ CancelCall(o, s) \/ TakeResult(o, s)

HandlerStep ==
  BeginGivesUp \/ BeginCommit \/ CancelFinish \/ CancelConfirm

EndStarts(o, s) == EndTake(o, s) \/ EndRefused(o, s)

TaskStep(s) ==
  \/ CaptureFinished(s) \/ CaptureFailed(s)
  \/ TranscribeDone(s) \/ TranscribeFailed(s)
  \/ MarkPolishing(s) \/ TaskAbandoned(s) \/ StoreResult(s)

TimerStep(s) ==
  WatchdogFires(s) \/ WatchdogResets(s) \/ ErrorResets(s) \/ ExpireResult(s)

Next ==
  \/ \E o \in Callers, s \in Sessions : Call(o, s) \/ EndStarts(o, s)
  \/ HandlerStep
  \/ \E s \in Sessions : TaskStep(s) \/ TimerStep(s)

Spec == Init /\ [][Next]_vars

(***************************************************************************)
(* Callers promise nothing, and neither does speech recognition: the write *)
(* of a request to the local worker has no timeout (worker.rs), so that    *)
(* TranscribeDone and TranscribeFailed may never come.  The daemon's other *)
(* steps are taken: the runtime polls every task, each other await of the  *)
(* End task is bounded by a timeout, and an armed timer fires.             *)
(***************************************************************************)
Fairness ==
  /\ WF_vars(HandlerStep)
  /\ \A o \in Callers, s \in Sessions : WF_vars(EndStarts(o, s))
  /\ \A s \in Sessions :
       /\ WF_vars(TaskStep(s) /\ task[s] # "transcribing")
       /\ WF_vars(WatchdogFires(s) \/ WatchdogResets(s))
       /\ WF_vars(ErrorResets(s))
       /\ WF_vars(ExpireResult(s))

FairSpec == Spec /\ Fairness
-----------------------------------------------------------------------------
(***************************************************************************)
(* Safety                                                                  *)
(***************************************************************************)
\* A cancellation is between its two critical sections.
CancelUnderWay ==
  \/ handler.at = "cancelling"
  \/ \E s \in Sessions : watchdog[s] = "resetting"

\* Whatever state GetStatus reports other than idle, somebody is still there to
\* leave it: a recording or a cancellation about to reset the state, a task at
\* work on the session being processed, the timer that clears the error, the
\* timers of the stored results.  Begin is refused in all these states, so a
\* state without its backing would end dictation until the daemon restarts.
PhaseBacked ==
  /\ state = "recording" => active # None \/ CancelUnderWay
  /\ state \in {"transcribing", "polishing"} =>
       processing # None /\ task[processing] \in Working
  /\ state = "error" => processing # None /\ errorReset[processing] = "armed"
  /\ state = "result_ready" => results # {}
  /\ \A s \in results : expiry[s] = "armed"

\* When Cancel(s) is answered nothing of s is left, whatever its End task, its
\* watchdog and the timers did between the two critical sections of cancel:
\* s is neither recording, nor processed, nor stored, nor ever delivered.
CancelDiscards ==
  handler.at = "confirming" =>
    LET s == handler.session IN
    /\ s \notin results \cup {active, processing}
    /\ receiver[s] = None

(***************************************************************************)
(* Coherence: what makes the properties above inductive.  Each part says   *)
(* what one variable promises about the others.                            *)
(***************************************************************************)
\* A session that was not begun has left no trace.
NotBegunCoherent ==
  \A s \in Sessions : owner[s] = None =>
    task[s] = "none" /\ watchdog[s] = "off" /\ active # s

\* Only EndTake brings a session into processing.
NotEndedCoherent ==
  \A s \in Sessions : task[s] = "none" =>
    /\ s \notin results \cup cancelled \cup {processing}
    /\ receiver[s] = None /\ errorReset[s] = "off" /\ expiry[s] = "off"

\* A recording has not been ended and its watchdog has not fired.
RecordingCoherent ==
  active # None =>
    owner[active] # None /\ task[active] = "none" /\ watchdog[active] = "armed"

WorkingCoherent ==
  \A s \in Sessions : task[s] \in Working =>
    /\ errorReset[s] = "off" /\ expiry[s] = "off"
    /\ s \notin results /\ receiver[s] = None

\* The session in processing is being worked on or has failed.
ProcessingCoherent ==
  processing # None =>
    /\ processing \notin cancelled
    /\ task[processing] = "done" => errorReset[processing] # "off"

\* A failed session has no text.
FailedCoherent ==
  \A s \in Sessions : errorReset[s] # "off" =>
    /\ task[s] = "done" /\ s \notin results
    /\ receiver[s] = None /\ expiry[s] = "off"

\* A text is stored, then delivered to the owner of its session, and leaves
\* processing for good.
ResultCoherent ==
  /\ \A s \in results :
       task[s] = "done" /\ expiry[s] = "armed" /\ receiver[s] = None
  /\ \A s \in Sessions : receiver[s] # None =>
       task[s] = "done" /\ receiver[s] = owner[s] /\ expiry[s] # "off"

\* A session being begun is new; one being cancelled is not recording and, once
\* the cancellation is done, nothing at all.
HandlerCoherent ==
  /\ handler.at = "starting" => owner[handler.session] = None
  /\ handler.at \in {"cancelling", "confirming"} =>
       /\ owner[handler.session] # None
       /\ active # handler.session
       /\ receiver[handler.session] = None
  /\ handler.at = "confirming" =>
       handler.session \notin results \cup {processing}

\* A watchdog between the sections of cancel has stopped its recording.
WatchdogCoherent ==
  \A s \in Sessions : watchdog[s] = "resetting" => active # s

Coherent ==
  /\ NotBegunCoherent /\ NotEndedCoherent /\ RecordingCoherent
  /\ WorkingCoherent /\ ProcessingCoherent /\ FailedCoherent
  /\ ResultCoherent /\ HandlerCoherent /\ WatchdogCoherent

(***************************************************************************)
(* Every step of the pipeline is a step of the service promised to its     *)
(* callers, or changes nothing they can tell.                              *)
(***************************************************************************)
SessionStatus ==
  [s \in Sessions |->
     IF receiver[s] # None THEN "delivered"
     ELSE IF owner[s] = None THEN "new"
     ELSE IF active = s THEN "recording"
     ELSE IF s \in results THEN "ready"
     ELSE IF processing # s THEN "dropped"
     ELSE IF errorReset[s] = "off" THEN "processing" ELSE "failed"]

Service == INSTANCE DictationService WITH status <- SessionStatus

\* One recording, one session in processing, a text only from a session that
\* was neither cancelled nor replaced, delivered at most once and only to the
\* caller of its Begin; nothing that was dropped or delivered comes back.
ImplementsService == Service!SSpec

(***************************************************************************)
(* Liveness                                                                *)
(***************************************************************************)
\* Whatever callers do or leave undone, and even if the recognizer never
\* answers, the daemon becomes idle again.
EventuallyIdle == state # "idle" ~> state = "idle"

\* No recording outlives its watchdog.
MicReleased == \A s \in Sessions : active = s ~> active # s
=============================================================================
