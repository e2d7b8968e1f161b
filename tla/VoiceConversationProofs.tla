----------------------- MODULE VoiceConversationProofs -----------------------
(***************************************************************************)
(* What the addon and the daemon tell one another: a session that was given*)
(* up is dropped, and a text that was handed out reaches its field, for any*)
(* sessions, fields, timeouts and deaths of the daemon.                    *)
(***************************************************************************)
EXTENDS VoiceInputProofs

\* The proofs about the pipeline, whose one caller is the addon here.
Pipeline == INSTANCE DictationPipelineProofs WITH Callers <- {Fcitx}

\* The definitions are the same under both names.
LEMMA SamePipeline ==
  /\ Daemon!TypeOK <=> Pipeline!TypeOK
  /\ Daemon!Coherent <=> Pipeline!Coherent
  /\ Daemon!PhaseBacked <=> Pipeline!PhaseBacked
<1> USE DEF Daemon!Working, Pipeline!Working, Daemon!Free, Pipeline!Free
<1>1. Daemon!TypeOK <=> Pipeline!TypeOK
  BY DEF Daemon!TypeOK, Daemon!PipelineStates, Daemon!TaskSteps,
         Daemon!CallsInProgress, Pipeline!TypeOK, Pipeline!PipelineStates,
         Pipeline!TaskSteps, Pipeline!CallsInProgress
<1>2. Daemon!Coherent <=> Pipeline!Coherent
  BY DEF Daemon!Coherent, Daemon!NotBegunCoherent, Daemon!NotEndedCoherent,
         Daemon!RecordingCoherent, Daemon!WorkingCoherent,
         Daemon!ProcessingCoherent, Daemon!FailedCoherent, Daemon!ResultCoherent,
         Daemon!HandlerCoherent, Daemon!WatchdogCoherent,
         Pipeline!Coherent, Pipeline!NotBegunCoherent, Pipeline!NotEndedCoherent,
         Pipeline!RecordingCoherent, Pipeline!WorkingCoherent,
         Pipeline!ProcessingCoherent, Pipeline!FailedCoherent,
         Pipeline!ResultCoherent, Pipeline!HandlerCoherent,
         Pipeline!WatchdogCoherent
<1>3. Daemon!PhaseBacked <=> Pipeline!PhaseBacked
  BY DEF Daemon!PhaseBacked, Daemon!CancelUnderWay,
         Pipeline!PhaseBacked, Pipeline!CancelUnderWay
<1> QED BY <1>1, <1>2, <1>3

\* ... and so after a step.
LEMMA SamePipelineNext ==
  /\ Daemon!Coherent' <=> Pipeline!Coherent'
  /\ Daemon!PhaseBacked' <=> Pipeline!PhaseBacked'
BY SamePipeline, PTL

\* The daemon in its environment takes the steps of the pipeline, or dies.
LEMMA PipelineStep ==
  ASSUME AddonInv, DaemonTypes, [Next]_vars
  PROVE  Dies \/ [Pipeline!Next]_Pipeline!vars
<1> DEFINE Steps == [Pipeline!Next]_Pipeline!vars
<1> USE DEF Daemon!inner, Pipeline!inner, Daemon!timers, Pipeline!timers,
            Daemon!Free, Pipeline!Free
<1>1. CASE UNCHANGED daemonVars BY <1>1 DEF daemonVars, Pipeline!vars
<1>2. CASE HandlerStep
  <2> DEFINE s == Head(calls).session
  <2>1. ASSUME calls # <<>>, Pipeline!Call(Fcitx, s) PROVE Steps
    <3>1. Head(calls) \in Calls
      BY <2>1, HeadTailProperties DEF AddonInv, AddonTypeOK
    <3>2. s \in Sessions BY <3>1 DEF Calls
    <3> QED BY <2>1, <3>2 DEF Pipeline!Next
  <2>2. CASE ServeBegin
    <3>1. calls # <<>> /\ (Daemon!BeginCheck(Fcitx, s) \/ UNCHANGED daemonVars)
      BY <2>2 DEF ServeBegin, Dispatch
    <3>2. Daemon!BeginCheck(Fcitx, s) => Pipeline!Call(Fcitx, s)
      BY DEF Pipeline!Call, Daemon!BeginCheck, Pipeline!BeginCheck,
             Daemon!Available, Pipeline!Available
    <3> QED BY <1>1, <2>1, <3>1, <3>2
  <2>3. CASE ServeEnd
    <3>1. calls # <<>> /\ Daemon!EndCall(Fcitx, s)
      BY <2>3 DEF ServeEnd, Dispatch
    <3>2. Daemon!EndCall(Fcitx, s) => Pipeline!Call(Fcitx, s)
      <4>1. Daemon!Cardinality(ending) = Pipeline!Cardinality(ending)
        BY DEF Daemon!Cardinality, Pipeline!Cardinality
      <4> QED BY <4>1 DEF Pipeline!Call, Daemon!EndCall, Pipeline!EndCall
    <3> QED BY <2>1, <3>1, <3>2
  <2>4. CASE ServeCancel
    <3>1. calls # <<>> /\ (Daemon!CancelCall(Fcitx, s) \/ UNCHANGED daemonVars)
      BY <2>4 DEF ServeCancel, Dispatch
    <3>2. Daemon!CancelCall(Fcitx, s) => Pipeline!Call(Fcitx, s)
      BY DEF Pipeline!Call, Daemon!CancelCall, Pipeline!CancelCall,
             Daemon!MayCancel, Pipeline!MayCancel
    <3> QED BY <1>1, <2>1, <3>1, <3>2
  <2>5. CASE ServeTakeResult
    <3>1. calls # <<>> /\ (Daemon!TakeResult(Fcitx, s) \/ UNCHANGED daemonVars)
      BY <2>5 DEF ServeTakeResult, Dispatch
    <3>2. Daemon!TakeResult(Fcitx, s) => Pipeline!Call(Fcitx, s)
      BY DEF Pipeline!Call, Daemon!TakeResult, Pipeline!TakeResult
    <3> QED BY <1>1, <2>1, <3>1, <3>2
  <2>6. CASE BeginFails \/ BeginSucceeds \/ CancelResets \/ CancelSucceeds
    <3>1. Pipeline!HandlerStep
      BY <2>6 DEF BeginFails, BeginSucceeds, CancelResets, CancelSucceeds,
           Pipeline!HandlerStep, Daemon!BeginGivesUp, Pipeline!BeginGivesUp,
           Daemon!BeginCommit, Pipeline!BeginCommit, Daemon!Available,
           Pipeline!Available, Daemon!CancelFinish, Pipeline!CancelFinish,
           Daemon!CancelReset, Pipeline!CancelReset, Daemon!IsCurrent,
           Pipeline!IsCurrent, Daemon!CancelConfirm, Pipeline!CancelConfirm
    <3> QED BY <3>1 DEF Pipeline!Next
  <2> QED BY <1>2, <2>2, <2>3, <2>4, <2>5, <2>6 DEF HandlerStep
<1>3. ASSUME NEW s \in Sessions, EndStarts(s) PROVE Steps
  <2>1. Pipeline!EndStarts(Fcitx, s)
    BY <1>3 DEF EndStarts, Pipeline!EndStarts, Daemon!EndTake, Pipeline!EndTake,
         Daemon!MayEnd, Pipeline!MayEnd, Daemon!EndRefused, Pipeline!EndRefused
  <2> QED BY <2>1 DEF Pipeline!Next
<1>4. ASSUME NEW s \in Sessions, EndTaskStep(s) PROVE Steps
  <2>1. Pipeline!TaskStep(s)
    BY <1>4 DEF EndTaskStep, Pipeline!TaskStep, Daemon!Advance, Pipeline!Advance,
         Daemon!IsCurrent, Pipeline!IsCurrent, Daemon!FailIfCurrent,
         Pipeline!FailIfCurrent, Daemon!StillWanted, Pipeline!StillWanted,
         Daemon!CaptureFinished, Pipeline!CaptureFinished, Daemon!CaptureFailed,
         Pipeline!CaptureFailed, Daemon!TranscribeDone, Pipeline!TranscribeDone,
         Daemon!TranscribeFailed, Pipeline!TranscribeFailed, Daemon!MarkPolishing,
         Pipeline!MarkPolishing, Daemon!TaskAbandoned, Pipeline!TaskAbandoned,
         Daemon!StoreResult, Pipeline!StoreResult
  <2> QED BY <2>1 DEF Pipeline!Next
<1>5. ASSUME NEW s \in Sessions, TimerStep(s) PROVE Steps
  <2>1. Pipeline!TimerStep(s)
    BY <1>5 DEF TimerStep, Pipeline!TimerStep, Daemon!WatchdogFires,
         Pipeline!WatchdogFires, Daemon!MayCancel, Pipeline!MayCancel,
         Daemon!WatchdogResets, Pipeline!WatchdogResets, Daemon!CancelReset,
         Pipeline!CancelReset, Daemon!IsCurrent, Pipeline!IsCurrent,
         Daemon!ErrorResets, Pipeline!ErrorResets, Daemon!ExpireResult,
         Pipeline!ExpireResult
  <2> QED BY <2>1 DEF Pipeline!Next
<1>6. CASE AddonStep \/ UNCHANGED vars \/ \E s \in Sessions : Emit(s) \/ EmitRefused(s)
  BY <1>1, <1>6 DEF AddonStep, Emit, EmitRefused, vars
<1> QED BY <1>2, <1>3, <1>4, <1>5, <1>6 DEF Next, DaemonStep

\* So that what was proved of the pipeline holds of the daemon that dies: a new
\* one starts with nothing.
LEMMA DaemonCoherent ==
  ASSUME AddonInv, DaemonTypes, Daemon!Coherent, [Next]_vars
  PROVE  Daemon!Coherent'
<1>1. CASE Dies
  <2>1. /\ active' = None /\ processing' = None /\ results' = {} /\ cancelled' = {}
        /\ handler'.at = "free"
        /\ \A s \in Sessions :
             /\ owner'[s] = None /\ task'[s] = "none" /\ watchdog'[s] = "off"
             /\ errorReset'[s] = "off" /\ expiry'[s] = "off" /\ receiver'[s] = None
    BY <1>1 DEF Dies, Daemon!Free
  <2>2. \A s \in Sessions : s # None BY AddonAssumption
  <2>3. Daemon!NotBegunCoherent' /\ Daemon!NotEndedCoherent'
    BY <2>1, <2>2 DEF Daemon!NotBegunCoherent, Daemon!NotEndedCoherent
  <2>4. Daemon!RecordingCoherent' /\ Daemon!ProcessingCoherent'
    BY <2>1 DEF Daemon!RecordingCoherent, Daemon!ProcessingCoherent
  <2>5. Daemon!WorkingCoherent' /\ Daemon!FailedCoherent'
    BY <2>1 DEF Daemon!WorkingCoherent, Daemon!Working, Daemon!FailedCoherent
  <2>6. Daemon!ResultCoherent' /\ Daemon!HandlerCoherent' /\ Daemon!WatchdogCoherent'
    BY <2>1
       DEF Daemon!ResultCoherent, Daemon!HandlerCoherent, Daemon!WatchdogCoherent
  <2> QED BY <2>3, <2>4, <2>5, <2>6 DEF Daemon!Coherent
<1>2. CASE [Pipeline!Next]_Pipeline!vars
  <2>1. None \notin Sessions /\ None \notin {Fcitx} /\ MaxEnding \in Nat
    BY AddonAssumption, VoiceAssumption DEF Fcitx
  <2> QED BY <1>2, <2>1, SamePipeline, SamePipelineNext, Pipeline!CoherentStep
       DEF DaemonTypes
<1> QED BY <1>1, <1>2, PipelineStep
-----------------------------------------------------------------------------
(***************************************************************************)
(* The calls on their way                                                  *)
(***************************************************************************)
Spoken(s) == \E i \in 1..Len(calls) : calls[i].session = s

\* A call that is sent stands behind the others ...
LEMMA OneMoreCall ==
  ASSUME AddonInv, NEW m \in Calls, calls' = Append(calls, m)
  PROVE  /\ Len(calls) \in Nat /\ Len(calls') = Len(calls) + 1
         /\ \A i \in 1..Len(calls) : i \in 1..Len(calls') /\ calls'[i] = calls[i]
         /\ calls'[Len(calls) + 1] = m
         /\ \A method, s :
              Sent(method, s)' <=> Sent(method, s) \/ (m.method = method /\ m.session = s)
         /\ \A s : Spoken(s)' <=> Spoken(s) \/ m.session = s
<1>1. calls \in Seq(Calls) BY DEF AddonInv, AddonTypeOK
<1>2. /\ Len(calls) \in Nat /\ Len(calls') = Len(calls) + 1
      /\ \A i \in 1..Len(calls) : i \in 1..Len(calls') /\ calls'[i] = calls[i]
      /\ calls'[Len(calls) + 1] = m
  BY <1>1
<1>3. \A i \in 1..Len(calls') : i \in 1..Len(calls) \/ i = Len(calls) + 1
  BY <1>2
<1>4. Len(calls) + 1 \in 1..Len(calls') BY <1>2
<1>5. ASSUME NEW method, NEW s
      PROVE  Sent(method, s)'
               <=> Sent(method, s) \/ (m.method = method /\ m.session = s)
  BY <1>2, <1>3, <1>4 DEF Sent
<1>6. ASSUME NEW s PROVE Spoken(s)' <=> Spoken(s) \/ m.session = s
  BY <1>2, <1>3, <1>4 DEF Spoken
<1> QED BY <1>2, <1>5, <1>6

\* ... and the first one leaves.
LEMMA OneCallLess ==
  ASSUME AddonInv, calls # <<>>, calls' = Tail(calls)
  PROVE  /\ Len(calls) \in Nat /\ Len(calls') = Len(calls) - 1
         /\ 1 \in 1..Len(calls) /\ Head(calls) = calls[1] /\ Head(calls) \in Calls
         /\ \A i \in 1..Len(calls') : i + 1 \in 1..Len(calls) /\ calls'[i] = calls[i + 1]
         /\ \A i \in 2..Len(calls) : i - 1 \in 1..Len(calls') /\ calls[i] = calls'[i - 1]
         /\ \A method, s :
              /\ Sent(method, s)' => Sent(method, s)
              /\ Sent(method, s) =>
                   \/ Sent(method, s)'
                   \/ Head(calls).method = method /\ Head(calls).session = s
         /\ \A s : Spoken(s)' => Spoken(s)
<1>1. calls \in Seq(Calls) BY DEF AddonInv, AddonTypeOK
<1>2. /\ Len(calls) \in Nat /\ Len(calls') = Len(calls) - 1
      /\ 1 \in 1..Len(calls) /\ Head(calls) = calls[1] /\ Head(calls) \in Calls
      /\ \A i \in 1..Len(calls') : i + 1 \in 1..Len(calls) /\ calls'[i] = calls[i + 1]
  BY <1>1, HeadTailProperties
<1>3. \A i \in 2..Len(calls) : i - 1 \in 1..Len(calls') /\ calls[i] = calls'[i - 1]
  <2> TAKE i \in 2..Len(calls)
  <2>1. i - 1 \in 1..Len(calls') /\ (i - 1) + 1 = i BY <1>2
  <2> QED BY <1>2, <2>1
<1>4. \A i \in 1..Len(calls) : i = 1 \/ i \in 2..Len(calls) BY <1>2
<1>5. ASSUME NEW method, NEW s
      PROVE  /\ Sent(method, s)' => Sent(method, s)
             /\ Sent(method, s) =>
                  \/ Sent(method, s)'
                  \/ Head(calls).method = method /\ Head(calls).session = s
  <2>1. ASSUME Sent(method, s)' PROVE Sent(method, s)
    BY <1>2, <2>1 DEF Sent
  <2>2. ASSUME NEW i \in 1..Len(calls), calls[i].method = method, calls[i].session = s,
               i # 1
        PROVE  Sent(method, s)'
    <3>1. PICK j \in 1..Len(calls') : calls[i] = calls'[j] BY <1>3, <1>4, <2>2
    <3> QED BY <2>2, <3>1 DEF Sent
  <2> QED BY <1>2, <2>1, <2>2 DEF Sent
<1>6. ASSUME NEW s PROVE Spoken(s)' => Spoken(s)
  BY <1>2 DEF Spoken
<1> QED BY <1>2, <1>3, <1>5, <1>6
-----------------------------------------------------------------------------
(***************************************************************************)
(* What the addon says                                                     *)
(***************************************************************************)
\* Of a session that is open, and nothing but its Begin after it was closed;
\* whoever gives it up has the daemon told, unless the field is gone.
Speaks ==
  /\ origin' = origin /\ contexts' \subseteq contexts
  /\ \A c \in Contexts : id'[c] \in {id[c], None}
  /\ \/ calls' = calls
     \/ \E m \in Calls :
          calls' = Append(calls, m) /\ m.method # "Begin" /\ Open(m.session)
  /\ \A s \in Sessions :
       fate'[s] = "given_up" /\ origin[s] \in contexts' =>
         fate[s] = "given_up" \/ Sent("Cancel", s)'

\* cancel sends Cancel of the session that is open (natsutypeless.cpp:352-363).
LEMMA CancelSpeaks ==
  ASSUME AddonInv, NEW c \in Contexts, id[c] # None, Cancel(c)
  PROVE  /\ id' = [id EXCEPT ![c] = None]
         /\ \E m \in Calls :
              calls' = Append(calls, m) /\ m.method # "Begin" /\ Open(m.session)
         /\ \A s : s = id[c] => Sent("Cancel", s)'
<1> DEFINE m == [method |-> "Cancel", session |-> id[c], serial |-> 0]
<1>1. m \in Calls BY OpenField DEF Calls, Methods
<1>2. calls' = Append(calls, m) /\ id' = [id EXCEPT ![c] = None]
  BY DEF Cancel, Send, ClearSession
<1>3. m.method = "Cancel" /\ m.session = id[c] /\ Open(id[c]) BY DEF Open
<1> HIDE DEF m
<1>4. \A s : s = id[c] => Sent("Cancel", s)' BY <1>1, <1>2, <1>3, OneMoreCall
<1>5. \E n \in Calls :
        calls' = Append(calls, n) /\ n.method # "Begin" /\ Open(n.session)
  BY <1>1, <1>2, <1>3
<1> QED BY <1>2, <1>4, <1>5

\* callAsync sends End or TakeResult of the session that is open.
LEMMA CallSpeaks ==
  ASSUME AddonInv, NEW c \in Contexts, id[c] # None, NEW method \in Methods,
         method # "Begin", CallAsync(c, method, id[c])
  PROVE  \E m \in Calls :
           calls' = Append(calls, m) /\ m.method # "Begin" /\ Open(m.session)
<1> DEFINE m == [method |-> method, session |-> id[c], serial |-> serial[id[c]] + 1]
<1>1. id[c] \in Sessions BY OpenField
<1>2. m \in Calls BY <1>1 DEF Calls, AddonInv, AddonTypeOK
<1>3. calls' = Append(calls, m) BY DEF CallAsync, Send
<1>4. m.method = method /\ m.session = id[c] /\ Open(id[c]) BY DEF Open
<1> HIDE DEF m
<1> QED BY <1>2, <1>3, <1>4

\* Escape, reset and the loss of focus (natsutypeless.cpp:161-174, 257-261).
LEMMA GiveUpSpeaks ==
  ASSUME AddonInv, NEW c \in Contexts, GiveUp(c), UNCHANGED <<contexts, origin>>
  PROVE  Speaks
<1>1. CASE phase[c] = "Idle" BY <1>1 DEF GiveUp, Speaks
<1>2. CASE phase[c] # "Idle"
  <2>1. id[c] # None BY <1>2 DEF AddonInv, SessionsAgree
  <2>2. Cancel(c) /\ Ends(c, "given_up") BY <1>2 DEF GiveUp
  <2>3. \A s \in Sessions : s # id[c] => fate'[s] = fate[s] BY <2>2 DEF Ends
  <2>4. /\ id' = [id EXCEPT ![c] = None]
        /\ \E m \in Calls :
             calls' = Append(calls, m) /\ m.method # "Begin" /\ Open(m.session)
        /\ \A s : s = id[c] => Sent("Cancel", s)'
    BY <2>1, <2>2, CancelSpeaks
  <2>5. id \in [Contexts -> Sessions \cup {None}] BY DEF AddonInv, AddonTypeOK
  <2> QED BY <2>3, <2>4, <2>5 DEF Speaks
<1> QED BY <1>1, <1>2

\* takeResult has the focus, for the session of its context is open.
LEMMA TakeResultSpeaks ==
  ASSUME AddonInv, NEW c \in Contexts, id[c] # None, NEW p, TakeResult(c, id[c], p),
         UNCHANGED <<contexts, origin, fate>>
  PROVE  Speaks
<1>1. focus = c BY OpenField
<1>2. id' = id BY <1>1 DEF TakeResult, Ignored
<1>3. \/ calls' = calls
      \/ \E m \in Calls :
           calls' = Append(calls, m) /\ m.method # "Begin" /\ Open(m.session)
  BY <1>1, CallSpeaks DEF TakeResult, Ignored, Methods
<1> QED BY <1>2, <1>3 DEF Speaks

\* A callback says nothing, or cancels the session it finds open.
LEMMA AnswerSpeaks ==
  ASSUME AddonInv, NEW c \in Contexts, NEW s \in Sessions, NEW method, NEW outcome,
         Answered(c, method, s, outcome), UNCHANGED <<contexts, origin>>,
         \A t \in Sessions : fate'[t] = "given_up" => fate[t] = "given_up"
  PROVE  Speaks
<1>1. id \in [Contexts -> Sessions \cup {None}] BY DEF AddonInv, AddonTypeOK
<1>2. CASE id[c] # s \/ (method # "TakeResult" /\ outcome = "ok")
  BY <1>2 DEF Answered, Speaks
<1>3. CASE id[c] = s /\ ~(method # "TakeResult" /\ outcome = "ok")
  <2>1. id[c] # None BY <1>3, AddonAssumption
  <2>2. CASE method = "End"
    <3>1. Cancel(c) BY <1>3, <2>2 DEF Answered
    <3> QED BY <1>1, <2>1, <3>1, CancelSpeaks DEF Speaks
  <2>3. CASE method # "End"
    BY <1>1, <1>3, <2>3 DEF Answered, ClearSession, Speaks
  <2> QED BY <2>2, <2>3
<1> QED BY <1>2, <1>3

\* The signals (natsutypeless.cpp:390-439) ...
LEMMA SignalSpeaks == ASSUME AddonInv, StateSignal \/ ResultSignal PROVE Speaks
<1> DEFINE m == Head(mail)
<1> DEFINE s == m.session
<1> DEFINE c == sessions[s]
<1>1. mail # <<>> BY DEF StateSignal, ResultSignal, Arrives
<1>2. m \in Mail BY <1>1, HeadTailProperties DEF AddonInv, AddonTypeOK
<1>3. s \in Sessions /\ c \in Contexts \cup {None}
  BY <1>2 DEF Mail, AddonInv, AddonTypeOK
<1>4. UNCHANGED <<contexts, origin>> BY DEF StateSignal, ResultSignal, history
<1>5. id \in [Contexts -> Sessions \cup {None}] /\ None \notin contexts
  BY AddonAssumption DEF AddonInv, AddonTypeOK
<1>6. CASE Dropped(s) /\ UNCHANGED fate BY <1>4, <1>6 DEF Dropped, Speaks
<1>7. ASSUME c \in contexts PROVE c \in Contexts /\ id[c] = s /\ id[c] # None
  BY <1>3, <1>5, <1>7, AddonAssumption DEF AddonInv, SessionsAgree
<1>8. CASE ResultSignal
  <2>1. CASE c \in contexts
    BY <1>4, <1>7, <1>8, <2>1, TakeResultSpeaks DEF ResultSignal, history
  <2>2. CASE c \notin contexts BY <1>6, <1>8, <2>2 DEF ResultSignal, history
  <2> QED BY <2>1, <2>2
<1>9. CASE StateSignal
  <2>1. CASE ~(c \in contexts /\ id[c] = s) BY <1>6, <1>9, <2>1 DEF StateSignal
  <2>2. CASE c \in contexts /\ id[c] = s
    <3>1. HandleState(c, s, m.value) BY <1>9, <2>2 DEF StateSignal
    <3>2. c \in Contexts /\ id[c] # None BY <1>7, <2>2
    <3>3. CASE UNCHANGED <<id, calls, fate>> BY <1>4, <3>3 DEF Speaks
    <3>4. CASE TakeResult(c, s, "ResultReady") /\ UNCHANGED fate
      BY <1>4, <2>2, <3>2, <3>4, TakeResultSpeaks
    <3>5. CASE ClearSession(c) /\ UNCHANGED <<calls, fate>>
      BY <1>4, <1>5, <3>5 DEF ClearSession, Speaks
    <3>6. CASE Cancel(c) /\ Ends(c, "failed")
      <4>1. \A t \in Sessions : fate'[t] = "given_up" => fate[t] = "given_up"
        BY <3>6 DEF Ends
      <4> QED BY <1>4, <1>5, <3>2, <3>6, <4>1, CancelSpeaks DEF Speaks
    <3> QED BY <3>1, <3>3, <3>4, <3>5, <3>6 DEF HandleState, Ignored
  <2> QED BY <2>1, <2>2
<1> QED BY <1>8, <1>9

\* ... the replies and timeouts ...
LEMMA ReplySpeaks ==
  ASSUME AddonInv, ReplyArrives \/ \E c \in Contexts : CallTimesOut(c) PROVE Speaks
<1>1. CASE ReplyArrives
  <2> DEFINE m == Head(mail)
  <2>1. mail # <<>> /\ UNCHANGED <<contexts, origin, fate>>
    BY <1>1 DEF ReplyArrives
  <2>2. m \in Mail BY <2>1, HeadTailProperties DEF AddonInv, AddonTypeOK
  <2>3. m.session \in Sessions BY <2>2 DEF Mail
  <2>4. CASE Ignored BY <2>1, <2>4 DEF Ignored, Speaks
  <2>5. ASSUME NEW c \in contexts, Answered(c, m.kind, m.session, m.value)
        PROVE  Speaks
    <3>1. c \in Contexts BY DEF AddonInv, AddonTypeOK
    <3> QED BY <2>1, <2>3, <2>5, <3>1, AnswerSpeaks
  <2> QED BY <1>1, <2>4, <2>5 DEF ReplyArrives
<1>2. ASSUME NEW c \in Contexts, CallTimesOut(c) PROVE Speaks
  <2>1. pending[c].session \in Sessions BY <1>2, AddonAssumption DEF CallTimesOut
  <2>2. \A t \in Sessions : fate'[t] = "given_up" => fate[t] = "given_up"
    BY <1>2 DEF CallTimesOut, Ends
  <2> QED BY <1>2, <2>1, <2>2, AnswerSpeaks DEF CallTimesOut
<1> QED BY <1>1, <1>2

\* ... and all that the user does but to begin.
LEMMA UserSpeaks ==
  ASSUME AddonInv, NEW c \in Contexts,
         KeyEnd(c) \/ KeyEscape(c) \/ FocusOut(c) \/ FocusIn(c) \/ Destroyed(c)
  PROVE  Speaks
<1>1. CASE KeyEnd(c)
  <2>1. id[c] # None BY <1>1 DEF KeyEnd, AddonInv, SessionsAgree
  <2> QED BY <1>1, <2>1, CallSpeaks DEF KeyEnd, Speaks, history, Methods
<1>2. CASE KeyEscape(c) \/ FocusOut(c)
  BY <1>2, GiveUpSpeaks DEF KeyEscape, FocusOut
<1>3. CASE FocusIn(c) BY <1>3 DEF FocusIn, Speaks, history
<1>4. CASE Destroyed(c)
  <2>1. id \in [Contexts -> Sessions \cup {None}] BY DEF AddonInv, AddonTypeOK
  <2>2. ASSUME NEW s \in Sessions, fate'[s] = "given_up", origin[s] \in contexts'
        PROVE  fate[s] = "given_up"
    <3>1. s # id[c] BY <1>4, <2>2 DEF Destroyed, AddonInv, OwnSession
    <3> QED BY <1>4, <2>2, <3>1 DEF Destroyed, Ends
  <2> QED BY <1>4, <2>1, <2>2 DEF Destroyed, Speaks
<1> QED BY <1>1, <1>2, <1>3, <1>4
-----------------------------------------------------------------------------
(***************************************************************************)
(* The order of the calls, and what the daemon does with them              *)
(***************************************************************************)
CallsInv == AddonInv /\ DaemonTypes /\ Daemon!Coherent /\ CallsCoherent

\* An open session, and one a call is of, was begun.
LEMMA TalksBegun ==
  ASSUME CallsInv, NEW s \in Sessions, Talks(s) \/ fate[s] = "given_up"
  PROVE  origin[s] # None
<1>1. ASSUME NEW c \in Contexts, id[c] = s PROVE origin[s] # None
  BY <1>1, AddonAssumption DEF CallsInv, AddonInv, OwnSession
<1>2. ASSUME NEW i \in 1..Len(calls), calls[i].session = s PROVE origin[s] # None
  BY <1>2 DEF CallsInv, CallsCoherent, UnknownCoherent
<1>3. fate[s] = "given_up" => origin[s] # None
  BY DEF CallsInv, AddonInv, OwnSession
<1> QED BY <1>1, <1>2, <1>3 DEF Talks, Open

\* The addon keeps it: what it sends but a Begin is of a session that is open
\* (natsutypeless.cpp:237-376).
LEMMA SpeakingKeepsCalls ==
  ASSUME CallsInv, Speaks, UNCHANGED daemonVars
  PROVE  CallsCoherent'
<1> USE DEF CallsInv
<1>1. /\ owner' = owner /\ handler' = handler /\ active' = active
      /\ results' = results /\ processing' = processing
  BY DEF daemonVars
<1>2. CASE calls' = calls
  <2>1. UnknownCoherent'
    BY <1>1, <1>2 DEF CallsCoherent, UnknownCoherent, Speaks
  <2>2. BeginCoherent' BY <1>1, <1>2 DEF CallsCoherent, BeginCoherent, Sent
  <2>3. CallsInOrder'
    BY <1>2 DEF CallsCoherent, CallsInOrder, Speaks
  <2>4. \A s \in Sessions : Talks(s)' => Talks(s)
    BY <1>2, AddonAssumption DEF Talks, Open, Speaks
  <2>5. RecordingAlone'
    BY <1>1, <1>2, <2>4 DEF CallsCoherent, RecordingAlone, Sent
  <2>6. GivenUpCoherent'
    BY <1>1, <1>2 DEF CallsCoherent, GivenUpCoherent, Speaks, CancelOnItsWay,
                      ToBegin, Sent
  <2> QED BY <2>1, <2>2, <2>3, <2>5, <2>6 DEF CallsCoherent
<1>3. ASSUME NEW m \in Calls, calls' = Append(calls, m), m.method # "Begin",
             Open(m.session)
      PROVE  CallsCoherent'
  <2>1. /\ Len(calls) \in Nat /\ Len(calls') = Len(calls) + 1
        /\ \A i \in 1..Len(calls) : i \in 1..Len(calls') /\ calls'[i] = calls[i]
        /\ calls'[Len(calls) + 1] = m
        /\ \A method, s :
             Sent(method, s)' <=> Sent(method, s) \/ (m.method = method /\ m.session = s)
        /\ \A s : Spoken(s)' <=> Spoken(s) \/ m.session = s
    BY <1>3, OneMoreCall
  <2>2. m.session \in Sessions BY DEF Calls
  <2>3. PICK d \in Contexts : id[d] = m.session BY <1>3 DEF Open
  <2>4. \A s \in Sessions : Talks(s)' => Talks(s)
    BY <1>3, <2>1, AddonAssumption DEF Talks, Open, Speaks, Spoken
  <2>5. UnknownCoherent'
    <3>1. ASSUME NEW s \in Sessions, origin'[s] = None
          PROVE  /\ owner'[s] = None /\ handler'.session # s /\ ~Spoken(s)'
      <4>1. origin[s] = None BY <3>1 DEF Speaks
      <4>2. ~Talks(s) BY <4>1, TalksBegun
      <4> QED
        BY <1>1, <2>1, <2>3, <4>1, <4>2
           DEF CallsCoherent, UnknownCoherent, Talks, Open, Spoken
    <3> QED BY <3>1 DEF UnknownCoherent, Spoken
  <2>6. BeginCoherent'
    <3>1. ASSUME NEW i \in 1..Len(calls'), NEW j \in 1..Len(calls'), i < j,
                 calls'[j].method = "Begin"
          PROVE  calls'[i].session # calls'[j].session
      <4>1. j \in 1..Len(calls) BY <1>3, <2>1, <3>1
      <4>2. i \in 1..Len(calls) BY <2>1, <3>1, <4>1
      <4> QED BY <2>1, <3>1, <4>1, <4>2 DEF CallsCoherent, BeginCoherent
    <3>2. \A s \in Sessions : Sent("Begin", s)' =>
            owner'[s] = None /\ handler'.session # s
      BY <1>1, <1>3, <2>1 DEF CallsCoherent, BeginCoherent
    <3> QED BY <3>1, <3>2 DEF BeginCoherent
  <2>7. CallsInOrder'
    <3> SUFFICES ASSUME NEW i \in 1..Len(calls'), calls'[i].method = "Begin"
                 PROVE  /\ \A j \in i + 1..Len(calls') : calls'[j].session # calls'[i].session =>
                             \E k \in i + 1..j :
                               calls'[k].method = "Begin" /\ calls'[k].session = calls'[j].session
                        /\ \A c \in Contexts : id'[c] \notin {None, calls'[i].session} =>
                             \E k \in i + 1..Len(calls') :
                               calls'[k].method = "Begin" /\ calls'[k].session = id'[c]
      BY DEF CallsInOrder
    <3>1. i \in 1..Len(calls) /\ calls[i].method = "Begin" /\ calls'[i] = calls[i]
      BY <1>3, <2>1
    <3>2. ASSUME NEW c \in Contexts, id[c] \notin {None, calls[i].session}
          PROVE  \E k \in i + 1..Len(calls) :
                   calls'[k].method = "Begin" /\ calls'[k].session = id[c]
      <4>1. PICK k \in i + 1..Len(calls) :
              calls[k].method = "Begin" /\ calls[k].session = id[c]
        BY <3>1, <3>2 DEF CallsCoherent, CallsInOrder
      <4>2. k \in 1..Len(calls) BY <2>1, <3>1
      <4> QED BY <2>1, <4>1, <4>2
    <3>3. ASSUME NEW j \in i + 1..Len(calls'), calls'[j].session # calls'[i].session
          PROVE  \E k \in i + 1..j :
                   calls'[k].method = "Begin" /\ calls'[k].session = calls'[j].session
      <4>1. CASE j = Len(calls) + 1
        <5>1. id[d] \notin {None, calls[i].session} /\ id[d] = calls'[j].session
          BY <2>1, <2>2, <2>3, <3>1, <3>3, <4>1, AddonAssumption
        <5>2. PICK k \in i + 1..Len(calls) :
                calls'[k].method = "Begin" /\ calls'[k].session = id[d]
          BY <3>2, <5>1
        <5>3. k \in i + 1..j BY <2>1, <3>1, <4>1
        <5> QED BY <5>1, <5>2, <5>3
      <4>2. CASE j # Len(calls) + 1
        <5>1. j \in i + 1..Len(calls) /\ j \in 1..Len(calls)
          BY <2>1, <3>1, <4>2
        <5>2. PICK k \in i + 1..j :
                calls[k].method = "Begin" /\ calls[k].session = calls[j].session
          BY <2>1, <3>1, <3>3, <5>1 DEF CallsCoherent, CallsInOrder
        <5>3. k \in 1..Len(calls) BY <2>1, <3>1, <5>1
        <5> QED BY <2>1, <5>1, <5>2, <5>3
      <4> QED BY <4>1, <4>2
    <3>4. ASSUME NEW c \in Contexts, id'[c] \notin {None, calls'[i].session}
          PROVE  \E k \in i + 1..Len(calls') :
                   calls'[k].method = "Begin" /\ calls'[k].session = id'[c]
      <4>1. id[c] = id'[c] BY <3>4 DEF Speaks
      <4>2. PICK k \in i + 1..Len(calls) :
              calls'[k].method = "Begin" /\ calls'[k].session = id[c]
        BY <3>1, <3>2, <3>4, <4>1
      <4>3. k \in i + 1..Len(calls') BY <2>1, <3>1
      <4> QED BY <4>1, <4>2, <4>3
    <3> QED BY <3>3, <3>4
  <2>8. RecordingAlone'
    BY <1>1, <1>3, <2>1, <2>4 DEF CallsCoherent, RecordingAlone
  <2>9. GivenUpCoherent'
    <3> SUFFICES ASSUME NEW s \in Sessions, fate'[s] = "given_up",
                        origin'[s] \in contexts'
                 PROVE  \/ CancelOnItsWay(s)'
                        \/ s \notin results' \cup {active', processing'} /\ ~ToBegin(s)'
      BY DEF GivenUpCoherent
    <3>1. origin'[s] = origin[s] /\ origin[s] \in contexts BY DEF Speaks
    <3>2. CASE fate[s] = "given_up"
      <4>1. CancelOnItsWay(s) => CancelOnItsWay(s)'
        BY <1>1, <2>1 DEF CancelOnItsWay
      <4>2. ToBegin(s)' => ToBegin(s) BY <1>1, <1>3, <2>1, <3>1 DEF ToBegin
      <4> QED
        BY <1>1, <3>1, <3>2, <4>1, <4>2 DEF CallsCoherent, GivenUpCoherent
    <3>3. CASE Sent("Cancel", s)' BY <3>3 DEF CancelOnItsWay
    <3> QED BY <3>1, <3>2, <3>3 DEF Speaks
  <2> QED BY <2>5, <2>6, <2>7, <2>8, <2>9 DEF CallsCoherent
<1> QED BY <1>2, <1>3 DEF Speaks

\* A Begin is the first that is said of its session, while no other is open
\* (natsutypeless.cpp:268-305).
LEMMA BeginningKeepsCalls ==
  ASSUME CallsInv, NEW c \in Contexts, NEW s \in Sessions, KeyBegin(c, s),
         UNCHANGED daemonVars
  PROVE  CallsCoherent'
<1> USE DEF CallsInv
<1> DEFINE m == [method |-> "Begin", session |-> s, serial |-> serial[s] + 1]
<1>1. /\ owner' = owner /\ handler' = handler /\ active' = active
      /\ results' = results /\ processing' = processing
  BY DEF daemonVars
<1>2. /\ focus = c /\ phase[c] = "Idle" /\ origin[s] = None
      /\ id' = [id EXCEPT ![c] = s]
      /\ calls' = Append(calls, m)
      /\ origin' = [origin EXCEPT ![s] = c]
      /\ UNCHANGED <<contexts, fate>>
  BY DEF KeyBegin, CallAsync, Send
<1>3. m \in Calls /\ m.method = "Begin" /\ m.session = s
  BY DEF Calls, Methods, AddonInv, AddonTypeOK
<1> HIDE DEF m
<1>4. /\ Len(calls) \in Nat /\ Len(calls') = Len(calls) + 1
      /\ \A i \in 1..Len(calls) : i \in 1..Len(calls') /\ calls'[i] = calls[i]
      /\ calls'[Len(calls) + 1] = m
      /\ \A method, t :
           Sent(method, t)' <=> Sent(method, t) \/ (m.method = method /\ m.session = t)
      /\ \A t : Spoken(t)' <=> Spoken(t) \/ m.session = t
  BY <1>2, <1>3, OneMoreCall
<1>5. \A d \in Contexts : id[d] = None
  BY <1>2, OpenField DEF AddonInv, SessionsAgree
<1>6. \A d \in Contexts : id'[d] \in {None, s}
  BY <1>2, <1>5 DEF AddonInv, AddonTypeOK
<1>7. owner[s] = None /\ handler.session # s /\ ~Spoken(s)
  BY <1>2 DEF CallsCoherent, UnknownCoherent, Spoken
<1>8. \A t \in Sessions : t # s => origin'[t] = origin[t]
  BY <1>2 DEF AddonInv, AddonTypeOK
<1>9. origin'[s] # None BY <1>2, AddonAssumption DEF AddonInv, AddonTypeOK
<1>10. UnknownCoherent'
  <2> SUFFICES ASSUME NEW t \in Sessions, origin'[t] = None
               PROVE  owner'[t] = None /\ handler'.session # t /\ ~Spoken(t)'
    BY DEF UnknownCoherent, Spoken
  <2>1. t # s /\ origin[t] = None BY <1>8, <1>9
  <2> QED
    BY <1>1, <1>3, <1>4, <2>1 DEF CallsCoherent, UnknownCoherent, Spoken
<1>11. BeginCoherent'
  <2>1. ASSUME NEW i \in 1..Len(calls'), NEW j \in 1..Len(calls'), i < j,
               calls'[j].method = "Begin"
        PROVE  calls'[i].session # calls'[j].session
    <3>1. i \in 1..Len(calls) BY <1>4, <2>1
    <3>2. CASE j = Len(calls) + 1
      <4>1. calls[i].session # s BY <1>7, <3>1 DEF Spoken
      <4> QED BY <1>3, <1>4, <3>1, <3>2, <4>1
    <3>3. CASE j \in 1..Len(calls)
      BY <1>4, <2>1, <3>1, <3>3 DEF CallsCoherent, BeginCoherent
    <3> QED BY <1>4, <3>2, <3>3
  <2>2. \A t \in Sessions : Sent("Begin", t)' =>
          owner'[t] = None /\ handler'.session # t
    BY <1>1, <1>3, <1>4, <1>7 DEF CallsCoherent, BeginCoherent
  <2> QED BY <2>1, <2>2 DEF BeginCoherent
<1>12. CallsInOrder'
  <2> SUFFICES ASSUME NEW i \in 1..Len(calls'), calls'[i].method = "Begin"
               PROVE  /\ \A j \in i + 1..Len(calls') : calls'[j].session # calls'[i].session =>
                           \E k \in i + 1..j :
                             calls'[k].method = "Begin" /\ calls'[k].session = calls'[j].session
                      /\ \A d \in Contexts : id'[d] \notin {None, calls'[i].session} =>
                           \E k \in i + 1..Len(calls') :
                             calls'[k].method = "Begin" /\ calls'[k].session = id'[d]
    BY DEF CallsInOrder
  <2>1. ASSUME NEW j \in i + 1..Len(calls'), calls'[j].session # calls'[i].session
        PROVE  \E k \in i + 1..j :
                 calls'[k].method = "Begin" /\ calls'[k].session = calls'[j].session
    <3>1. CASE j = Len(calls) + 1
      <4>1. j \in i + 1..j BY <1>4
      <4> QED BY <1>3, <1>4, <3>1, <4>1
    <3>2. CASE j # Len(calls) + 1
      <4>1. i \in 1..Len(calls) /\ j \in i + 1..Len(calls) /\ j \in 1..Len(calls)
        BY <1>4, <3>2
      <4>2. PICK k \in i + 1..j :
              calls[k].method = "Begin" /\ calls[k].session = calls[j].session
        BY <1>4, <2>1, <4>1 DEF CallsCoherent, CallsInOrder
      <4>3. k \in 1..Len(calls) BY <1>4, <4>1
      <4> QED BY <1>4, <4>1, <4>2, <4>3
    <3> QED BY <3>1, <3>2
  <2>2. ASSUME NEW d \in Contexts, id'[d] \notin {None, calls'[i].session}
        PROVE  \E k \in i + 1..Len(calls') :
                 calls'[k].method = "Begin" /\ calls'[k].session = id'[d]
    <3>1. id'[d] = s BY <1>6, <2>2
    <3>2. i # Len(calls) + 1 BY <1>3, <1>4, <2>2, <3>1
    <3>3. Len(calls) + 1 \in i + 1..Len(calls') BY <1>4, <3>2
    <3> QED BY <1>3, <1>4, <3>1, <3>3
  <2> QED BY <2>1, <2>2
<1>13. RecordingAlone'
  <2> SUFFICES ASSUME NEW t \in Sessions, Talks(t)'
               PROVE  /\ handler'.at = "starting" => t = handler'.session \/ Sent("Begin", t)'
                      /\ active' # None => t = active' \/ owner'[t] = None
    BY DEF RecordingAlone
  <2>1. CASE t = s BY <1>1, <1>3, <1>4, <1>7, <2>1
  <2>2. CASE t # s
    <3>1. Talks(t)
      BY <1>3, <1>4, <1>6, <2>2, AddonAssumption DEF Talks, Open, Spoken
    <3> QED BY <1>1, <1>4, <3>1 DEF CallsCoherent, RecordingAlone
  <2> QED BY <2>1, <2>2
<1>14. GivenUpCoherent'
  <2> SUFFICES ASSUME NEW t \in Sessions, fate'[t] = "given_up",
                      origin'[t] \in contexts'
               PROVE  \/ CancelOnItsWay(t)'
                      \/ t \notin results' \cup {active', processing'} /\ ~ToBegin(t)'
    BY DEF GivenUpCoherent
  <2>1. t # s BY <1>2, TalksBegun
  <2>2. origin'[t] = origin[t] /\ fate[t] = "given_up" /\ origin[t] \in contexts
    BY <1>2, <1>8, <2>1
  <2>3. CancelOnItsWay(t) => CancelOnItsWay(t)'
    BY <1>1, <1>4 DEF CancelOnItsWay
  <2>4. ToBegin(t)' => ToBegin(t) BY <1>1, <1>3, <1>4, <2>1, <2>2 DEF ToBegin
  <2> QED BY <1>1, <2>2, <2>3, <2>4 DEF CallsCoherent, GivenUpCoherent
<1> QED BY <1>10, <1>11, <1>12, <1>13, <1>14 DEF CallsCoherent

\* The part of the daemon that serves no call: its tasks and timers move a
\* session from the recording to the processing and out of it.
Processes ==
  /\ UNCHANGED <<id, origin, contexts, fate, calls, owner, handler>>
  /\ active' \in {active, None}
  /\ processing' \in {processing, active, None}
  /\ results' \subseteq results \cup {processing}

\* Such a step of the daemon changes nothing of what the calls promise.
LEMMA ProcessingKeepsCalls ==
  ASSUME CallsInv, Processes PROVE CallsCoherent'
<1> USE DEF Processes
<1>1. UnknownCoherent' BY DEF CallsInv, CallsCoherent, UnknownCoherent
<1>2. BeginCoherent' BY DEF CallsInv, CallsCoherent, BeginCoherent, Sent
<1>3. CallsInOrder' BY DEF CallsInv, CallsCoherent, CallsInOrder
<1>4. RecordingAlone'
  BY DEF CallsInv, CallsCoherent, RecordingAlone, Talks, Open, Sent
<1>5. GivenUpCoherent'
  <2> SUFFICES ASSUME NEW s \in Sessions, fate[s] = "given_up", origin[s] \in contexts
               PROVE  \/ CancelOnItsWay(s)'
                      \/ s \notin results' \cup {active', processing'} /\ ~ToBegin(s)'
    BY DEF GivenUpCoherent
  <2>1. CancelOnItsWay(s) => CancelOnItsWay(s)' BY DEF CancelOnItsWay, Sent
  <2>2. ToBegin(s)' => ToBegin(s) BY DEF ToBegin, Sent
  <2>3. s # None BY AddonAssumption
  <2> QED BY <2>1, <2>2, <2>3 DEF CallsInv, CallsCoherent, GivenUpCoherent
<1> QED BY <1>1, <1>2, <1>3, <1>4, <1>5 DEF CallsCoherent

\* The order of the calls that are left when the first is dispatched.
LEMMA ServingKeepsOrder ==
  ASSUME CallsInv, calls # <<>>, calls' = Tail(calls), id' = id
  PROVE  /\ CallsInOrder'
         /\ \A i, j \in 1..Len(calls') :
              i < j /\ calls'[j].method = "Begin" => calls'[i].session # calls'[j].session
         /\ \A s : s = Head(calls).session => ~Sent("Begin", s)'
<1> USE DEF CallsInv
<1>1. /\ Len(calls) \in Nat /\ Len(calls') = Len(calls) - 1
      /\ 1 \in 1..Len(calls) /\ Head(calls) = calls[1]
      /\ \A i \in 1..Len(calls') : i + 1 \in 1..Len(calls) /\ calls'[i] = calls[i + 1]
      /\ \A i \in 2..Len(calls) : i - 1 \in 1..Len(calls') /\ calls[i] = calls'[i - 1]
  BY OneCallLess
<1>2. ASSUME NEW i \in 1..Len(calls'), NEW j \in 1..Len(calls'), i < j,
             calls'[j].method = "Begin"
      PROVE  calls'[i].session # calls'[j].session
  <2>1. i + 1 \in 1..Len(calls) /\ j + 1 \in 1..Len(calls) /\ i + 1 < j + 1
    BY <1>1, <1>2
  <2>2. calls'[i] = calls[i + 1] /\ calls'[j] = calls[j + 1] BY <1>1
  <2> QED BY <1>2, <2>1, <2>2 DEF CallsCoherent, BeginCoherent
<1>3. ASSUME NEW s, s = Head(calls).session, Sent("Begin", s)' PROVE FALSE
  <2>1. PICK j \in 1..Len(calls') : calls'[j].method = "Begin" /\ calls'[j].session = s
    BY <1>3 DEF Sent
  <2>2. j + 1 \in 1..Len(calls) /\ calls[j + 1] = calls'[j] /\ 1 < j + 1
    BY <1>1
  <2>3. calls[1].session # calls[j + 1].session
    BY <1>1, <2>1, <2>2 DEF CallsCoherent, BeginCoherent
  <2> QED BY <1>1, <1>3, <2>1, <2>2, <2>3
<1>4. CallsInOrder'
  <2> SUFFICES ASSUME NEW i \in 1..Len(calls'), calls'[i].method = "Begin"
               PROVE  /\ \A j \in i + 1..Len(calls') : calls'[j].session # calls'[i].session =>
                           \E k \in i + 1..j :
                             calls'[k].method = "Begin" /\ calls'[k].session = calls'[j].session
                      /\ \A d \in Contexts : id[d] \notin {None, calls'[i].session} =>
                           \E k \in i + 1..Len(calls') :
                             calls'[k].method = "Begin" /\ calls'[k].session = id[d]
    BY DEF CallsInOrder
  <2>1. /\ i + 1 \in 1..Len(calls) /\ calls'[i] = calls[i + 1]
    BY <1>1
  <2>2. ASSUME NEW j \in i + 1..Len(calls'), calls'[j].session # calls'[i].session
        PROVE  \E k \in i + 1..j :
                 calls'[k].method = "Begin" /\ calls'[k].session = calls'[j].session
    <3>1. /\ j + 1 \in (i + 1) + 1..Len(calls) /\ j \in 1..Len(calls')
          /\ calls'[j] = calls[j + 1]
      BY <1>1
    <3>2. PICK k \in (i + 1) + 1..j + 1 :
            calls[k].method = "Begin" /\ calls[k].session = calls[j + 1].session
      BY <2>1, <2>2, <3>1 DEF CallsCoherent, CallsInOrder
    <3>3. k \in 2..Len(calls) /\ k - 1 \in i + 1..j BY <1>1, <3>1
    <3>4. calls[k] = calls'[k - 1] BY <1>1, <3>3
    <3> QED BY <3>1, <3>2, <3>3, <3>4
  <2>3. ASSUME NEW d \in Contexts, id[d] \notin {None, calls'[i].session}
        PROVE  \E k \in i + 1..Len(calls') :
                 calls'[k].method = "Begin" /\ calls'[k].session = id[d]
    <3>1. PICK k \in (i + 1) + 1..Len(calls) :
            calls[k].method = "Begin" /\ calls[k].session = id[d]
      BY <2>1, <2>3 DEF CallsCoherent, CallsInOrder
    <3>2. k \in 2..Len(calls) /\ k - 1 \in i + 1..Len(calls') BY <1>1
    <3>3. calls[k] = calls'[k - 1] BY <1>1, <3>2
    <3> QED BY <3>1, <3>2, <3>3
  <2> QED BY <2>2, <2>3
<1> QED BY <1>2, <1>3, <1>4

\* The daemon has dropped s, or the Cancel of s will see to it.
Forgotten(s) ==
  \/ CancelOnItsWay(s)
  \/ s \notin results \cup {active, processing} /\ ~ToBegin(s)

\* The parts of what is to be shown, for a step of the daemon.
LEMMA DaemonKeepsCalls ==
  ASSUME CallsInv, UNCHANGED <<id, origin, contexts, fate>>,
         calls' = calls \/ (calls # <<>> /\ calls' = Tail(calls)),
         \A s \in Sessions :
           /\ owner'[s] # owner[s] \/ handler'.session = s =>
                Spoken(s) \/ handler.session = s
           /\ Sent("Begin", s)' => owner'[s] = None /\ handler'.session # s
           /\ Talks(s) =>
                /\ handler'.at = "starting" => s = handler'.session \/ Sent("Begin", s)'
                /\ active' # None => s = active' \/ owner'[s] = None
           /\ origin[s] # None /\ Forgotten(s) => Forgotten(s)'
  PROVE  CallsCoherent'
<1> USE DEF CallsInv
<1>1. \A s : Spoken(s)' => Spoken(s) BY OneCallLess DEF Spoken
<1>2. \A s \in Sessions : Talks(s)' => Talks(s)
  BY <1>1 DEF Talks, Open, Spoken
<1>3. UnknownCoherent'
  BY <1>1 DEF CallsCoherent, UnknownCoherent, Spoken
<1>4. /\ CallsInOrder'
      /\ \A i, j \in 1..Len(calls') :
           i < j /\ calls'[j].method = "Begin" => calls'[i].session # calls'[j].session
  BY ServingKeepsOrder DEF CallsCoherent, CallsInOrder, BeginCoherent
<1>5. BeginCoherent' BY <1>4 DEF BeginCoherent
<1>6. RecordingAlone' BY <1>2 DEF RecordingAlone
<1>7. GivenUpCoherent'
  <2>1. \A s \in Sessions : fate[s] = "given_up" => origin[s] # None BY TalksBegun
  <2> QED BY <2>1 DEF CallsCoherent, GivenUpCoherent, Forgotten
<1> QED BY <1>3, <1>4, <1>5, <1>6, <1>7 DEF CallsCoherent

\* Begin: the sessions that were begun before this one have had their say, so
\* that the pipeline is alone with it (pipeline.rs:96-146).
LEMMA ServeBeginKeepsCalls ==
  ASSUME CallsInv, ServeBegin PROVE CallsCoherent'
<1> USE DEF CallsInv
<1> DEFINE t == Head(calls).session
<1>1. /\ handler.at = "free" /\ calls # <<>> /\ Head(calls).method = "Begin"
      /\ calls' = Tail(calls) /\ UNCHANGED <<id, origin, contexts, fate>>
  BY DEF ServeBegin, Dispatch, fields, history
<1>2. /\ Len(calls) \in Nat /\ 1 \in 1..Len(calls) /\ Head(calls) = calls[1]
      /\ Head(calls) \in Calls
      /\ \A i \in 2..Len(calls) : i - 1 \in 1..Len(calls') /\ calls[i] = calls'[i - 1]
      /\ \A method, s :
           /\ Sent(method, s)' => Sent(method, s)
           /\ Sent(method, s) =>
                \/ Sent(method, s)'
                \/ Head(calls).method = method /\ Head(calls).session = s
  BY <1>1, OneCallLess
<1>3. t \in Sessions /\ Sent("Begin", t) /\ Spoken(t)
  BY <1>1, <1>2 DEF Calls, Sent, Spoken
<1>4. \A s : s = t => ~Sent("Begin", s)' BY <1>1, ServingKeepsOrder
<1>5. \A s \in Sessions : Sent("Cancel", s) => Sent("Cancel", s)' BY <1>1, <1>2
<1>6. /\ UNCHANGED <<owner, active, processing, results>>
      /\ \/ handler' = handler
         \/ /\ handler' = [at |-> "starting", caller |-> Fcitx, session |-> t]
            /\ active = None
  BY <1>1 DEF ServeBegin, Daemon!BeginCheck, Daemon!inner, Daemon!Available, daemonVars
<1>7. \A s \in Sessions :
        Sent("Begin", s)' => s # t /\ owner[s] = None /\ handler.session # s
  BY <1>2, <1>4 DEF CallsCoherent, BeginCoherent
<1>8. ASSUME NEW s \in Sessions, Talks(s), s # t PROVE Sent("Begin", s)'
  <2>1. PICK k \in 1 + 1..Len(calls) : calls[k].method = "Begin" /\ calls[k].session = s
    <3>1. CASE Open(s)
      <4>1. PICK d \in Contexts : id[d] = s BY <3>1 DEF Open
      <4> QED
        BY <1>1, <1>2, <1>8, <4>1, AddonAssumption DEF CallsCoherent, CallsInOrder
    <3>2. ASSUME NEW i \in 1..Len(calls), calls[i].session = s
          PROVE  \E k \in 1 + 1..Len(calls) :
                   calls[k].method = "Begin" /\ calls[k].session = s
      <4>1. i \in 1 + 1..Len(calls) BY <1>2, <1>8, <3>2
      <4>2. PICK k \in 1 + 1..i : calls[k].method = "Begin" /\ calls[k].session = s
        BY <1>1, <1>2, <1>8, <3>2, <4>1 DEF CallsCoherent, CallsInOrder
      <4>3. k \in 1 + 1..Len(calls) BY <1>2, <4>1
      <4> QED BY <4>2, <4>3
    <3> QED BY <1>8, <3>1, <3>2 DEF Talks
  <2>2. k \in 2..Len(calls) BY <1>2
  <2>3. PICK j \in 1..Len(calls') : calls[k] = calls'[j] BY <1>2, <2>2
  <2> QED BY <2>1, <2>3 DEF Sent
<1>9. \A s \in Sessions : ToBegin(s)' /\ origin[s] # None => ToBegin(s)
  BY <1>1, <1>2, <1>3, <1>6 DEF ToBegin
<1>10. \A s \in Sessions : origin[s] # None /\ Forgotten(s) => Forgotten(s)'
  BY <1>1, <1>5, <1>6, <1>9 DEF CancelOnItsWay, Forgotten
<1>11. ASSUME NEW s \in Sessions, Talks(s)
       PROVE  /\ handler'.at = "starting" => s = handler'.session \/ Sent("Begin", s)'
              /\ active' # None => s = active' \/ owner'[s] = None
  BY <1>1, <1>6, <1>8, <1>11 DEF CallsCoherent, RecordingAlone
<1>12. \A s \in Sessions :
         owner'[s] # owner[s] \/ handler'.session = s => Spoken(s) \/ handler.session = s
  BY <1>3, <1>6
<1>13. \A s \in Sessions : Sent("Begin", s)' => owner'[s] = None /\ handler'.session # s
  BY <1>6, <1>7
<1> HIDE DEF t
<1> QED BY <1>1, <1>10, <1>11, <1>12, <1>13, DaemonKeepsCalls

\* Cancel: one that finds its session nowhere leaves nothing of it, for no other
\* session stands in its way (pipeline.rs:337-383).
LEMMA ServeCancelKeepsCalls ==
  ASSUME CallsInv, ServeCancel PROVE CallsCoherent'
<1> USE DEF CallsInv
<1> DEFINE t == Head(calls).session
<1>1. /\ handler.at = "free" /\ calls # <<>> /\ Head(calls).method = "Cancel"
      /\ calls' = Tail(calls) /\ UNCHANGED <<id, origin, contexts, fate>>
  BY DEF ServeCancel, Dispatch, fields, history
<1>2. /\ Len(calls) \in Nat /\ 1 \in 1..Len(calls) /\ Head(calls) = calls[1]
      /\ Head(calls) \in Calls
      /\ \A method, s :
           /\ Sent(method, s)' => Sent(method, s)
           /\ Sent(method, s) =>
                \/ Sent(method, s)'
                \/ Head(calls).method = method /\ Head(calls).session = s
  BY <1>1, OneCallLess
<1>3. t \in Sessions /\ Spoken(t) /\ Talks(t)
  BY <1>1, <1>2 DEF Calls, Spoken, Talks
<1>4. \A s : s = t => ~Sent("Begin", s)' BY <1>1, ServingKeepsOrder
<1>5. \A s : Sent("Begin", s)' <=> Sent("Begin", s) BY <1>1, <1>2
<1>6. /\ UNCHANGED <<owner, processing, results>>
      /\ \/ /\ handler' = [at |-> "cancelling", caller |-> Fcitx, session |-> t]
            /\ active' = None
         \/ /\ handler' = handler /\ active' = active
            /\ ~Daemon!MayCancel(Fcitx, t)
  BY <1>1 DEF ServeCancel, Daemon!CancelCall, Daemon!timers, daemonVars
<1>7. ASSUME ~Daemon!MayCancel(Fcitx, t)
      PROVE  t \notin results \cup {active, processing}
  <2>1. t # None BY <1>3, AddonAssumption
  <2>2. CASE owner[t] # Fcitx
    <3>1. owner[t] = None BY <1>3, <2>2 DEF DaemonTypes, Daemon!TypeOK
    <3> QED
      BY <1>3, <3>1 DEF Daemon!Coherent, Daemon!NotBegunCoherent,
                        Daemon!NotEndedCoherent
  <2>3. CASE owner[t] = Fcitx
    <3>1. active # t /\ (active # None \/ t \notin results \cup {processing})
      BY <1>7, <2>3 DEF Daemon!MayCancel
    <3>2. active # None => t = active
      BY <1>3, <2>3, VoiceAssumption DEF CallsCoherent, RecordingAlone, Fcitx
    <3> QED BY <3>1, <3>2
  <2> QED BY <2>2, <2>3
<1>8. ASSUME NEW s \in Sessions, origin[s] # None, Forgotten(s)
      PROVE  Forgotten(s)'
  <2>1. ~ToBegin(s)' <=> origin[s] # None /\ ~Sent("Begin", s)
    BY <1>1, <1>5, <1>6, <1>8 DEF ToBegin
  <2>2. CASE s = t
    <3>1. ~ToBegin(s)' BY <1>4, <1>5, <1>8, <2>1, <2>2
    <3>2. CASE handler' = [at |-> "cancelling", caller |-> Fcitx, session |-> t]
      BY <2>2, <3>2 DEF Forgotten, CancelOnItsWay
    <3>3. CASE active' = active /\ ~Daemon!MayCancel(Fcitx, t)
      BY <1>6, <1>7, <2>2, <3>1, <3>3 DEF Forgotten
    <3> QED BY <1>6, <3>2, <3>3
  <2>3. CASE s # t
    <3>1. Sent("Cancel", s) => Sent("Cancel", s)' BY <1>2, <2>3
    <3>2. s # None BY AddonAssumption
    <3>3. CancelOnItsWay(s) => CancelOnItsWay(s)'
      BY <1>1, <3>1 DEF CancelOnItsWay
    <3>4. ~ToBegin(s) => ~ToBegin(s)' BY <2>1 DEF ToBegin
    <3> QED BY <1>6, <1>8, <3>2, <3>3, <3>4 DEF Forgotten
  <2> QED BY <2>2, <2>3
<1>9. ASSUME NEW s \in Sessions
      PROVE  /\ owner'[s] # owner[s] \/ handler'.session = s =>
                  Spoken(s) \/ handler.session = s
             /\ Sent("Begin", s)' => owner'[s] = None /\ handler'.session # s
             /\ Talks(s) =>
                  /\ handler'.at = "starting" => s = handler'.session \/ Sent("Begin", s)'
                  /\ active' # None => s = active' \/ owner'[s] = None
  <2>1. Sent("Begin", s)' => owner[s] = None /\ handler.session # s /\ s # t
    BY <1>4, <1>5 DEF CallsCoherent, BeginCoherent
  <2>2. Talks(s) => (active # None => s = active \/ owner[s] = None)
    BY DEF CallsCoherent, RecordingAlone
  <2> HIDE DEF t
  <2> QED BY <1>1, <1>3, <1>6, <2>1, <2>2
<1> QED BY <1>1, <1>8, <1>9, DaemonKeepsCalls

\* The other steps of the methods.
LEMMA HandlerKeepsCalls ==
  ASSUME CallsInv, HandlerStep PROVE CallsCoherent'
<1> USE DEF CallsInv
<1>1. CASE ServeEnd \/ ServeTakeResult
  <2>1. /\ calls # <<>> /\ Head(calls).method \in {"End", "TakeResult"}
        /\ calls' = Tail(calls)
        /\ UNCHANGED <<id, origin, contexts, fate, owner, handler, active, processing>>
        /\ results' \subseteq results
    BY <1>1 DEF ServeEnd, ServeTakeResult, Dispatch, fields, history, daemonVars,
                Daemon!EndCall, Daemon!TakeResult, Daemon!inner, Daemon!timers
  <2>2. \A s : /\ Sent("Begin", s)' <=> Sent("Begin", s)
               /\ Sent("Cancel", s)' <=> Sent("Cancel", s)
    BY <2>1, OneCallLess
  <2>3. \A s \in Sessions : Sent("Begin", s)' => owner[s] = None /\ handler.session # s
    BY <2>2 DEF CallsCoherent, BeginCoherent
  <2>4. \A s \in Sessions : Talks(s) =>
          /\ handler.at = "starting" => s = handler.session \/ Sent("Begin", s)'
          /\ active # None => s = active \/ owner[s] = None
    BY <2>2 DEF CallsCoherent, RecordingAlone
  <2>5. \A s \in Sessions : Forgotten(s) => Forgotten(s)'
    BY <2>1, <2>2 DEF Forgotten, CancelOnItsWay, ToBegin
  <2> QED BY <2>1, <2>3, <2>4, <2>5, DaemonKeepsCalls
<1>2. CASE BeginFails
  <2>1. /\ handler.at = "starting" /\ handler' = Daemon!Free /\ calls' = calls
        /\ UNCHANGED <<id, origin, contexts, fate, owner, active, processing, results>>
    BY <1>2 DEF BeginFails, InHandler, fields, history, Daemon!BeginGivesUp,
                Daemon!inner, Daemon!timers
  <2>2. handler'.at = "free" /\ handler'.session = None BY <2>1 DEF Daemon!Free
  <2>3. \A method, s : Sent(method, s)' <=> Sent(method, s) BY <2>1 DEF Sent
  <2>4. \A s \in Sessions : s # None BY AddonAssumption
  <2>5. \A s \in Sessions : Forgotten(s) => Forgotten(s)'
    BY <2>1, <2>3 DEF Forgotten, CancelOnItsWay, ToBegin, Daemon!Free
  <2>6. \A s \in Sessions : Sent("Begin", s)' => owner[s] = None
    BY <2>3 DEF CallsCoherent, BeginCoherent
  <2>7. \A s \in Sessions : Talks(s) => (active # None => s = active \/ owner[s] = None)
    BY DEF CallsCoherent, RecordingAlone
  <2> QED BY <2>1, <2>2, <2>4, <2>5, <2>6, <2>7, DaemonKeepsCalls
<1>3. CASE BeginSucceeds
  <2> DEFINE t == handler.session
  <2>1. /\ handler.at = "starting" /\ handler' = Daemon!Free /\ calls' = calls
        /\ active' = t /\ owner' = [owner EXCEPT ![t] = handler.caller]
        /\ UNCHANGED <<id, origin, contexts, fate, processing, results>>
    BY <1>3 DEF BeginSucceeds, InHandler, fields, history, Daemon!BeginCommit
  <2>2. handler'.at = "free" /\ handler'.session = None BY <2>1 DEF Daemon!Free
  <2>3. \A method, s : Sent(method, s)' <=> Sent(method, s) BY <2>1 DEF Sent
  <2>4. \A s \in Sessions : s # None BY AddonAssumption
  <2>5. \A s \in Sessions : s # t => owner'[s] = owner[s]
    BY <2>1 DEF DaemonTypes, Daemon!TypeOK
  <2>6. \A s \in Sessions : Sent("Begin", s) => owner[s] = None /\ t # s
    BY DEF CallsCoherent, BeginCoherent
  <2>7. \A s \in Sessions : Talks(s) => s = t \/ Sent("Begin", s)
    BY <2>1 DEF CallsCoherent, RecordingAlone
  <2>8. ASSUME NEW s \in Sessions, Forgotten(s) PROVE Forgotten(s)'
    <3>1. CASE s = t
      <4>1. ToBegin(s) BY <2>1, <3>1 DEF ToBegin
      <4>2. Sent("Cancel", s) BY <2>1, <2>8, <4>1 DEF Forgotten, CancelOnItsWay
      <4> QED BY <2>3, <4>2 DEF Forgotten, CancelOnItsWay
    <3>2. CASE s # t
      <4>1. CancelOnItsWay(s) => CancelOnItsWay(s)'
        BY <2>1, <2>3 DEF CancelOnItsWay
      <4>2. ToBegin(s)' => ToBegin(s) BY <2>1, <2>2, <2>3 DEF ToBegin
      <4> QED BY <2>1, <2>8, <3>2, <4>1, <4>2 DEF Forgotten
    <3> QED BY <3>1, <3>2
  <2>9. ASSUME NEW s \in Sessions
        PROVE  /\ owner'[s] # owner[s] \/ handler'.session = s =>
                    Spoken(s) \/ handler.session = s
               /\ Sent("Begin", s)' => owner'[s] = None /\ handler'.session # s
               /\ Talks(s) =>
                    /\ handler'.at = "starting" =>
                         s = handler'.session \/ Sent("Begin", s)'
                    /\ active' # None => s = active' \/ owner'[s] = None
    <3> HIDE DEF t
    <3>1. owner'[s] # owner[s] \/ handler'.session = s => Spoken(s) \/ t = s
      BY <2>2, <2>4, <2>5
    <3>2. Sent("Begin", s)' => owner'[s] = None /\ handler'.session # s
      BY <2>2, <2>3, <2>4, <2>5, <2>6
    <3>3. Talks(s) => s = active' \/ owner'[s] = None
      BY <2>1, <2>5, <2>6, <2>7
    <3> QED BY <2>2, <3>1, <3>2, <3>3 DEF t
  <2> QED BY <2>1, <2>8, <2>9, DaemonKeepsCalls
<1>4. CASE CancelResets
  <2> DEFINE t == handler.session
  <2>1. /\ handler.at = "cancelling" /\ calls' = calls
        /\ handler'.at = "confirming" /\ handler'.session = t
        /\ processing' = None /\ results' = results \ {t}
        /\ UNCHANGED <<id, origin, contexts, fate, owner, active>>
    BY <1>4 DEF CancelResets, InHandler, fields, history, Daemon!CancelFinish,
                Daemon!CancelReset, DaemonTypes, Daemon!TypeOK,
                Daemon!CallsInProgress, Daemon!Free
  <2>2. \A method, s : Sent(method, s)' <=> Sent(method, s) BY <2>1 DEF Sent
  <2>3. \A s \in Sessions : s # None BY AddonAssumption
  <2>4. active # t
    BY <2>1 DEF Daemon!Coherent, Daemon!HandlerCoherent
  <2>5. \A s \in Sessions : Sent("Begin", s)' => owner[s] = None /\ t # s
    BY <2>2 DEF CallsCoherent, BeginCoherent
  <2>6. \A s \in Sessions : Talks(s) => (active # None => s = active \/ owner[s] = None)
    BY DEF CallsCoherent, RecordingAlone
  <2>7. ASSUME NEW s \in Sessions, origin[s] # None, Forgotten(s) PROVE Forgotten(s)'
    <3>1. ToBegin(s)' <=> Sent("Begin", s) BY <2>1, <2>2, <2>7 DEF ToBegin
    <3>2. CASE s = t
      <4>1. ~ToBegin(s)' BY <2>2, <2>5, <3>1, <3>2
      <4> QED BY <2>1, <2>3, <2>4, <3>2, <4>1 DEF Forgotten
    <3>3. CASE s # t
      <4>1. CancelOnItsWay(s) => CancelOnItsWay(s)'
        BY <2>1, <2>2, <3>3 DEF CancelOnItsWay
      <4>2. ToBegin(s)' => ToBegin(s) BY <3>1 DEF ToBegin
      <4> QED BY <2>1, <2>3, <2>7, <4>1, <4>2 DEF Forgotten
    <3> QED BY <3>2, <3>3
  <2> HIDE DEF t
  <2>8. \A s \in Sessions :
          owner'[s] # owner[s] \/ handler'.session = s => Spoken(s) \/ handler.session = s
    BY <2>1 DEF t
  <2> QED BY <2>1, <2>5, <2>6, <2>7, <2>8, DaemonKeepsCalls
<1>5. CASE CancelSucceeds
  <2>1. /\ handler.at = "confirming" /\ handler' = Daemon!Free /\ calls' = calls
        /\ UNCHANGED <<id, origin, contexts, fate, owner, active, processing, results>>
    BY <1>5 DEF CancelSucceeds, InHandler, fields, history, Daemon!CancelConfirm,
                Daemon!inner, Daemon!timers
  <2>2. handler'.at = "free" /\ handler'.session = None BY <2>1 DEF Daemon!Free
  <2>3. \A method, s : Sent(method, s)' <=> Sent(method, s) BY <2>1 DEF Sent
  <2>4. \A s \in Sessions : s # None BY AddonAssumption
  <2>5. \A s \in Sessions : Forgotten(s) => Forgotten(s)'
    BY <2>1, <2>2, <2>3 DEF Forgotten, CancelOnItsWay, ToBegin
  <2>6. \A s \in Sessions : Sent("Begin", s)' => owner[s] = None
    BY <2>3 DEF CallsCoherent, BeginCoherent
  <2>7. \A s \in Sessions : Talks(s) => (active # None => s = active \/ owner[s] = None)
    BY DEF CallsCoherent, RecordingAlone
  <2> QED BY <2>1, <2>2, <2>4, <2>5, <2>6, <2>7, DaemonKeepsCalls
<1> QED
  BY <1>1, <1>2, <1>3, <1>4, <1>5, ServeBeginKeepsCalls, ServeCancelKeepsCalls
     DEF HandlerStep

\* A daemon that dies takes the calls on their way with it.
LEMMA DyingKeepsCalls == ASSUME CallsInv, Dies PROVE CallsCoherent'
<1>1. /\ calls' = <<>> /\ handler'.at = "free" /\ handler'.session = None
      /\ active' = None /\ processing' = None /\ results' = {}
      /\ \A s \in Sessions : owner'[s] = None
      /\ UNCHANGED <<id, origin, contexts, fate>>
  BY DEF Dies, Daemon!Free, fields, history
<1>2. \A s \in Sessions : s # None BY AddonAssumption
<1>3. \A i : i \notin 1..Len(calls') BY <1>1
<1>4. UnknownCoherent' BY <1>1, <1>2, <1>3 DEF UnknownCoherent
<1>5. BeginCoherent' BY <1>3 DEF BeginCoherent, Sent
<1>6. CallsInOrder' BY <1>3 DEF CallsInOrder
<1>7. RecordingAlone' BY <1>1 DEF RecordingAlone
<1>8. GivenUpCoherent'
  <2> SUFFICES ASSUME NEW s \in Sessions, fate[s] = "given_up"
               PROVE  s \notin results' \cup {active', processing'} /\ ~ToBegin(s)'
    BY <1>1 DEF GivenUpCoherent
  <2>1. origin'[s] # None BY <1>1, TalksBegun
  <2>2. ~ToBegin(s)' BY <1>1, <1>3, <2>1 DEF ToBegin, Sent
  <2> QED BY <1>1, <1>2, <2>2
<1> QED BY <1>4, <1>5, <1>6, <1>7, <1>8 DEF CallsCoherent

\* The End task and the timers (dbus.rs:63-101, pipeline.rs:148-320, 394-425).
LEMMA TasksProcess ==
  ASSUME DaemonTypes, NEW s \in Sessions,
         EndStarts(s) \/ EndTaskStep(s) \/ Emit(s) \/ EmitRefused(s) \/ TimerStep(s)
  PROVE  Processes
<1> USE DEF Processes, addonVars, fields, history, sending, InTask, Tells,
            Daemon!inner, Daemon!timers
<1>1. CASE EndStarts(s)
  BY <1>1 DEF EndStarts, Daemon!EndTake, Daemon!EndRefused, Daemon!MayEnd
<1>2. CASE Daemon!StoreResult(s) /\ InTask
  <2>1. /\ active' = active /\ processing' = None /\ processing = s
        /\ UNCHANGED <<id, origin, contexts, fate, calls, owner, handler>>
        /\ \E expired \in SUBSET results : results' = (results \ expired) \cup {s}
    BY <1>2 DEF Daemon!StoreResult, Daemon!StillWanted, Daemon!IsCurrent
  <2> QED BY <2>1
<1>3. CASE InTask /\ (Daemon!CaptureFinished(s) \/ Daemon!CaptureFailed(s)
                      \/ Daemon!TranscribeDone(s) \/ Daemon!TranscribeFailed(s)
                      \/ Daemon!MarkPolishing(s) \/ Daemon!TaskAbandoned(s))
  BY <1>3 DEF Daemon!CaptureFinished, Daemon!CaptureFailed, Daemon!TranscribeDone,
       Daemon!TranscribeFailed, Daemon!MarkPolishing, Daemon!TaskAbandoned
<1>4. CASE Emit(s) \/ EmitRefused(s)
  BY <1>4 DEF Emit, EmitRefused, daemonVars
<1>5. CASE TimerStep(s)
  <2>1. UNCHANGED <<id, origin, contexts, fate, calls>> BY <1>5 DEF TimerStep
  <2>2. CASE Daemon!WatchdogFires(s) \/ Daemon!ErrorResets(s) \/ Daemon!ExpireResult(s)
    BY <2>1, <2>2
       DEF Daemon!WatchdogFires, Daemon!ErrorResets, Daemon!ExpireResult
  <2>3. CASE Daemon!WatchdogResets(s)
    BY <2>1, <2>3 DEF Daemon!WatchdogResets, Daemon!CancelReset
  <2> QED BY <1>5, <2>2, <2>3 DEF TimerStep
<1> QED BY <1>1, <1>2, <1>3, <1>4, <1>5 DEF EndTaskStep

\* All of it is inductive.
LEMMA CallsInitially == Init => CallsInv
<1> SUFFICES ASSUME Init PROVE CallsInv
  OBVIOUS
<1>1. AddonInv /\ DaemonTypes BY VoiceInitially
<1>2. Daemon!Coherent
  <2>1. Pipeline!Init
    BY DEF Init, Daemon!Init, Pipeline!Init, Daemon!Free, Pipeline!Free
  <2>2. None \notin Sessions /\ None \notin {Fcitx} /\ MaxEnding \in Nat
    BY AddonAssumption, VoiceAssumption DEF Fcitx
  <2> QED BY <2>1, <2>2, SamePipeline, Pipeline!CoherentInitially
<1>3. CallsCoherent
  <2>1. /\ calls = <<>> /\ handler.at = "free" /\ handler.session = None
        /\ active = None
        /\ \A s \in Sessions : owner[s] = None /\ fate[s] = "open"
    BY DEF Init, AddonInit, Daemon!Init, Daemon!Free
  <2>2. \A s \in Sessions : s # None BY AddonAssumption
  <2>3. \A i : i \notin 1..Len(calls) BY <2>1
  <2> QED
    BY <2>1, <2>2, <2>3
       DEF CallsCoherent, UnknownCoherent, BeginCoherent, Sent, CallsInOrder,
           RecordingAlone, GivenUpCoherent
<1> QED BY <1>1, <1>2, <1>3 DEF CallsInv

\* Every step keeps what the calls promise.
LEMMA CallsKept ==
  ASSUME CallsInv, PastTypes, [Next]_vars
  PROVE  CallsInv'
<1>1. AddonInv' /\ DaemonTypes' /\ Daemon!Coherent'
  BY VoiceKept, DaemonCoherent DEF CallsInv
<1>2. ASSUME AddonStep PROVE CallsCoherent'
  <2>1. UNCHANGED daemonVars BY <1>2 DEF AddonStep
  <2>2. CASE \E c \in Contexts, s \in Sessions : KeyBegin(c, s)
    BY <2>1, <2>2, BeginningKeepsCalls
  <2>3. CASE Speaks BY <2>1, <2>3, SpeakingKeepsCalls
  <2> QED
    BY <1>2, <2>2, <2>3, UserSpeaks, SignalSpeaks, ReplySpeaks
       DEF AddonStep, UserStep, BusStep, CallsInv
<1>3. ASSUME DaemonStep PROVE CallsCoherent'
  BY <1>3, HandlerKeepsCalls, TasksProcess, ProcessingKeepsCalls, DyingKeepsCalls
     DEF DaemonStep, CallsInv
<1>4. ASSUME UNCHANGED vars PROVE CallsCoherent'
  BY <1>4, ProcessingKeepsCalls DEF vars, addonVars, daemonVars, Processes
<1> QED BY <1>1, <1>2, <1>3, <1>4 DEF Next, CallsInv

\* "Losing focus cancels the session" (README.md:133), and so do Escape and the
\* reset of a field: whatever the daemon was doing with the session, and however
\* its answers, its signals and the other sessions came in between, it neither
\* records nor processes it nor keeps its text once the Cancel was served.
THEOREM GivenUpDropped == Spec => []GivenUpIsDropped
<1>1. CallsInv => GivenUpIsDropped
  BY DEF CallsInv, CallsCoherent, GivenUpCoherent, GivenUpIsDropped, Calling,
         CancelOnItsWay, Sent
<1> QED BY <1>1, VoiceInitially, VoiceKept, CallsInitially, CallsKept, PTL
        DEF Spec, CallsInv
-----------------------------------------------------------------------------
(***************************************************************************)
(* The signals on their way                                                *)
(***************************************************************************)
TextInv == CallsInv /\ TextCoherent

\* What is over stays over: a session is begun once and ended once.
LEMMA OverBegun ==
  ASSUME CallsInv, NEW s \in Sessions, Over(s)
  PROVE  origin[s] # None /\ ~ToBegin(s)
<1>1. CASE owner[s] = None BY <1>1 DEF Over, ToBegin
<1>2. CASE owner[s] # None
  <2>1. origin[s] # None BY <1>2 DEF CallsInv, CallsCoherent, UnknownCoherent
  <2>2. ~Sent("Begin", s) BY <1>2 DEF CallsInv, CallsCoherent, BeginCoherent
  <2>3. ~(handler.at = "starting" /\ handler.session = s)
    BY <1>2 DEF CallsInv, Daemon!Coherent, Daemon!HandlerCoherent
  <2> QED BY <2>1, <2>2, <2>3 DEF ToBegin
<1> QED BY <1>1, <1>2

\* No step makes the daemon speak again of a session that is over.
LEMMA OverStays ==
  ASSUME CallsInv, [Next]_vars, NEW s \in Sessions, Over(s) PROVE Over(s)'
<1> USE DEF CallsInv
<1>1. origin[s] # None /\ ~ToBegin(s) BY OverBegun
<1>2. s # None BY AddonAssumption
<1>3. task \in [Sessions -> Daemon!TaskSteps] /\ owner \in [Sessions -> {Fcitx, None}]
  BY DEF DaemonTypes, Daemon!TypeOK
<1>4. ASSUME UNCHANGED <<origin, owner>>, ~ToBegin(s)',
             owner[s] # None => task'[s] = "done"
      PROVE  Over(s)'
  BY <1>4 DEF Over
<1>5. CASE AddonStep
  <2>1. UNCHANGED daemonVars BY <1>5 DEF AddonStep
  <2>2. UNCHANGED <<owner, handler, task>> BY <2>1 DEF daemonVars
  <2>3. ASSUME NEW c \in Contexts, NEW t \in Sessions, KeyBegin(c, t) PROVE Over(s)'
    <3>1. origin[t] = None /\ origin' = [origin EXCEPT ![t] = c]
      BY <2>3 DEF KeyBegin
    <3>2. s # t /\ origin'[s] = origin[s]
      BY <1>1, <3>1 DEF AddonInv, AddonTypeOK
    <3> DEFINE m == [method |-> "Begin", session |-> t, serial |-> serial[t] + 1]
    <3>3. m \in Calls /\ m.session = t
      BY DEF Calls, Methods, AddonInv, AddonTypeOK
    <3>4. calls' = Append(calls, m) BY <2>3 DEF KeyBegin, CallAsync, Send
    <3> HIDE DEF m
    <3>5. Sent("Begin", s)' <=> Sent("Begin", s)
      BY <3>2, <3>3, <3>4, OneMoreCall
    <3>6. ~ToBegin(s)' BY <1>1, <2>2, <3>2, <3>5 DEF ToBegin
    <3> QED BY <2>2, <3>6 DEF Over
  <2>4. CASE Speaks
    <3>1. Sent("Begin", s)' <=> Sent("Begin", s)
      <4>1. CASE calls' = calls BY <4>1 DEF Sent
      <4>2. ASSUME NEW m \in Calls, calls' = Append(calls, m), m.method # "Begin"
            PROVE  Sent("Begin", s)' <=> Sent("Begin", s)
        BY <4>2, OneMoreCall
      <4> QED BY <2>4, <4>1, <4>2 DEF Speaks
    <3>2. ~ToBegin(s)' BY <1>1, <2>2, <2>4, <3>1 DEF ToBegin, Speaks
    <3> QED BY <2>2, <3>2 DEF Over
  <2> QED
    BY <1>5, <2>3, <2>4, UserSpeaks, SignalSpeaks, ReplySpeaks
       DEF AddonStep, UserStep, BusStep
<1>6. ASSUME NEW t \in Sessions,
             EndStarts(t) \/ EndTaskStep(t) \/ Emit(t) \/ EmitRefused(t) \/ TimerStep(t)
      PROVE  Over(s)'
  <2>1. UNCHANGED <<origin, calls, owner, handler>>
    BY <1>6, TasksProcess DEF Processes
  <2>2. ~ToBegin(s)' BY <1>1, <2>1 DEF ToBegin, Sent
  <2>3. task[s] = "done" => task'[s] = "done"
    <3>1. active = s => task[s] = "none"
      BY <1>2 DEF Daemon!Coherent, Daemon!RecordingCoherent
    <3>2. CASE EndStarts(t)
      BY <1>3, <3>1, <3>2
         DEF EndStarts, Daemon!EndTake, Daemon!EndRefused, Daemon!MayEnd
    <3>3. CASE EndTaskStep(t)
      BY <1>3, <3>3 DEF EndTaskStep, Daemon!Advance, Daemon!CaptureFinished,
         Daemon!CaptureFailed, Daemon!TranscribeDone, Daemon!TranscribeFailed,
         Daemon!MarkPolishing, Daemon!TaskAbandoned, Daemon!StoreResult
    <3>4. CASE Emit(t) \/ EmitRefused(t)
      BY <3>4 DEF Emit, EmitRefused, daemonVars
    <3>5. CASE TimerStep(t)
      BY <3>5 DEF TimerStep, Daemon!WatchdogFires, Daemon!WatchdogResets,
         Daemon!ErrorResets, Daemon!ExpireResult
    <3> QED BY <1>6, <3>2, <3>3, <3>4, <3>5
  <2> QED BY <2>1, <2>2, <2>3 DEF Over
<1>7. CASE HandlerStep
  <2>1. origin' = origin /\ task' = task
    BY <1>7 DEF HandlerStep, ServeBegin, BeginFails, BeginSucceeds, ServeEnd,
         ServeCancel, CancelResets, CancelSucceeds, ServeTakeResult, Dispatch,
         InHandler, history, daemonVars, Daemon!BeginCheck, Daemon!BeginGivesUp,
         Daemon!BeginCommit, Daemon!EndCall, Daemon!CancelCall,
         Daemon!CancelFinish, Daemon!CancelConfirm, Daemon!TakeResult
  <2>2. Sent("Begin", s)' => Sent("Begin", s)
    <3>1. calls' = calls \/ (calls # <<>> /\ calls' = Tail(calls))
      BY <1>7 DEF HandlerStep, ServeBegin, BeginFails, BeginSucceeds, ServeEnd,
           ServeCancel, CancelResets, CancelSucceeds, ServeTakeResult, Dispatch,
           InHandler
    <3> QED BY <3>1, OneCallLess DEF Sent
  <2>3. CASE ServeBegin
    <3>1. owner' = owner
      BY <2>3 DEF ServeBegin, Daemon!BeginCheck, daemonVars
    <3>2. handler' = handler \/ (handler'.session = Head(calls).session
                                 /\ Head(calls).method = "Begin" /\ calls # <<>>)
      BY <2>3 DEF ServeBegin, Dispatch, Daemon!BeginCheck, daemonVars
    <3>3. ASSUME handler'.session = s, Head(calls).session = handler'.session,
                 Head(calls).method = "Begin", calls # <<>>
          PROVE  FALSE
      <4>1. 1 \in 1..Len(calls) /\ Head(calls) = calls[1]
        BY <3>3 DEF AddonInv, AddonTypeOK
      <4> QED BY <1>1, <3>3, <4>1 DEF ToBegin, Sent
    <3>4. ~ToBegin(s)' BY <1>1, <2>1, <2>2, <3>2, <3>3 DEF ToBegin
    <3> QED BY <2>1, <3>1, <3>4 DEF Over
  <2>4. CASE BeginSucceeds
    <3>1. /\ handler.at = "starting" /\ handler'.at = "free"
          /\ owner' = [owner EXCEPT ![handler.session] = handler.caller]
      BY <2>4 DEF BeginSucceeds, Daemon!BeginCommit, Daemon!Free
    <3>2. owner'[s] = owner[s] BY <1>1, <1>3, <3>1 DEF ToBegin
    <3>3. ~ToBegin(s)' BY <1>1, <2>1, <2>2, <3>1 DEF ToBegin
    <3> QED BY <2>1, <3>2, <3>3 DEF Over
  <2>5. CASE BeginFails \/ ServeEnd \/ ServeCancel \/ CancelResets \/ CancelSucceeds
             \/ ServeTakeResult
    <3>1. owner' = owner
      BY <2>5 DEF BeginFails, ServeEnd, ServeCancel, CancelResets, CancelSucceeds,
           ServeTakeResult, daemonVars, Daemon!BeginGivesUp, Daemon!EndCall,
           Daemon!CancelCall, Daemon!CancelFinish, Daemon!CancelConfirm,
           Daemon!TakeResult
    <3>2. handler' = handler \/ handler'.at # "starting"
      <4>1. CASE CancelResets
        <5>1. handler.at = "cancelling"
              /\ handler' = [handler EXCEPT !.at = "confirming"]
          BY <4>1 DEF CancelResets, Daemon!CancelFinish
        <5> QED
          BY <5>1 DEF DaemonTypes, Daemon!TypeOK, Daemon!CallsInProgress, Daemon!Free
      <4>2. CASE BeginFails \/ ServeEnd \/ ServeCancel \/ CancelSucceeds
                 \/ ServeTakeResult
        BY <4>2 DEF BeginFails, ServeEnd, ServeCancel, CancelSucceeds,
           ServeTakeResult, daemonVars, Daemon!BeginGivesUp, Daemon!EndCall,
           Daemon!CancelCall, Daemon!CancelConfirm, Daemon!TakeResult, Daemon!Free
      <4> QED BY <2>5, <4>1, <4>2
    <3>3. ~ToBegin(s)' BY <1>1, <2>1, <2>2, <3>2 DEF ToBegin
    <3> QED BY <2>1, <3>1, <3>3 DEF Over
  <2> QED BY <1>7, <2>3, <2>4, <2>5 DEF HandlerStep
<1>8. CASE Dies
  <2>1. origin' = origin /\ calls' = <<>> /\ handler'.at = "free" /\ owner'[s] = None
    BY <1>8 DEF Dies, history, Daemon!Free
  <2>2. ~Sent("Begin", s)'
    <3>1. \A i : i \notin 1..Len(calls') BY <2>1
    <3> QED BY <3>1 DEF Sent
  <2> QED BY <1>1, <2>1, <2>2 DEF Over, ToBegin
<1>9. CASE UNCHANGED vars
  BY <1>9 DEF vars, addonVars, daemonVars, Over, ToBegin, Sent
<1> QED BY <1>5, <1>6, <1>7, <1>8, <1>9 DEF Next, DaemonStep

\* What is posted comes behind the mail that is on its way.
Grown ==
  /\ Len(mail) \in Nat /\ Len(mail') \in Nat /\ Len(mail) <= Len(mail')
  /\ \A i \in 1..Len(mail) : mail'[i] = mail[i]

\* A message stands behind the others ...
LEMMA OneMoreMessage ==
  ASSUME AddonInv, NEW m, mail' = mail \o <<m>>
  PROVE  /\ Grown /\ Len(mail') = Len(mail) + 1
         /\ \A i \in 1..Len(mail') : i \in 1..Len(mail) \/ mail'[i] = m
         /\ mail'[Len(mail')] = m /\ Len(mail') \in 1..Len(mail')
<1>1. mail \in Seq(Mail) BY DEF AddonInv, AddonTypeOK
<1> QED BY <1>1 DEF Grown

\* ... and so do two.
LEMMA TwoMoreMessages ==
  ASSUME AddonInv, NEW m, NEW n, mail' = mail \o <<m, n>>
  PROVE  /\ Grown
         /\ \A i \in 1..Len(mail') : i \in 1..Len(mail) \/ mail'[i] \in {m, n}
<1>1. mail \in Seq(Mail) BY DEF AddonInv, AddonTypeOK
<1> QED BY <1>1 DEF Grown

\* Replies are no signals.
LEMMA RepliesAreSilent ==
  ASSUME NEW call \in Calls, NEW outcome, NEW s
  PROVE  /\ ~Moves(Reply(call, outcome), s) /\ ~Asks(Reply(call, outcome), s)
         /\ Reply(call, outcome).kind = call.method
         /\ Reply(call, outcome).session = call.session
BY DEF Moves, Asks, Reply, Calls, Methods

\* Messages that neither ask for a text nor move a phase that is over.
LEMMA PostingKeepsSignals ==
  ASSUME TextInv, UNCHANGED <<fields, history>>, Grown,
         \A s \in Sessions : tosend'[s] = tosend[s] \/ tosend'[s] = <<>>,
         \A s \in Sessions : Over(s) => Over(s)',
         \A s \in Sessions, i \in 1..Len(mail') :
           \/ i \in 1..Len(mail)
           \/ ~Asks(mail'[i], s) /\ (Moves(mail'[i], s) => ~Over(s))
  PROVE  SignalsCoherent' /\ TakingCoherent'
<1> USE DEF TextInv, Grown
<1>1. \A s \in Sessions : \A j \in 1..Len(tosend'[s]) :
        j \in 1..Len(tosend[s]) /\ tosend'[s][j] = tosend[s][j]
          /\ Len(tosend'[s]) = Len(tosend[s])
  <2>1. \A j : j \notin 1..Len(<<>>) OBVIOUS
  <2> QED BY <2>1
<1>2. SignalsCoherent'
  <2> SUFFICES ASSUME NEW s \in Sessions
               PROVE  /\ \A i \in 1..Len(mail') : Asks(mail'[i], s) =>
                           /\ Over(s)'
                           /\ \A j \in i + 1..Len(mail') : ~Moves(mail'[j], s)
                           /\ \A j \in 1..Len(tosend'[s]) : ~Moves(tosend'[s][j], s)
                      /\ \A i \in 1..Len(tosend'[s]) :
                           /\ tosend'[s][i].session = s
                           /\ tosend'[s][i].kind # "TakeResult"
                           /\ Asks(tosend'[s][i], s) =>
                                /\ Over(s)'
                                /\ \A j \in i + 1..Len(tosend'[s]) : ~Moves(tosend'[s][j], s)
    BY DEF SignalsCoherent, Moves, Asks
  <2>1. ASSUME NEW i \in 1..Len(mail'), Asks(mail'[i], s)
        PROVE  /\ Over(s)'
               /\ \A j \in i + 1..Len(mail') : ~Moves(mail'[j], s)
               /\ \A j \in 1..Len(tosend'[s]) : ~Moves(tosend'[s][j], s)
    <3>1. i \in 1..Len(mail) /\ Asks(mail[i], s) BY <2>1
    <3>2. /\ Over(s)
          /\ \A j \in i + 1..Len(mail) : ~Moves(mail[j], s)
          /\ \A j \in 1..Len(tosend[s]) : ~Moves(tosend[s][j], s)
      BY <3>1 DEF TextCoherent, SignalsCoherent
    <3>3. ASSUME NEW j \in i + 1..Len(mail') PROVE ~Moves(mail'[j], s)
      <4>1. j \in 1..Len(mail') BY <3>1
      <4>2. CASE j \in 1..Len(mail)
        <5>1. j \in i + 1..Len(mail) BY <3>1, <4>2
        <5> QED BY <3>2, <4>2, <5>1
      <4>3. CASE j \notin 1..Len(mail) BY <3>2, <4>1, <4>3
      <4> QED BY <4>2, <4>3
    <3> QED BY <1>1, <3>2, <3>3
  <2>2. ASSUME NEW i \in 1..Len(tosend'[s])
        PROVE  /\ tosend'[s][i].session = s
               /\ tosend'[s][i].kind # "TakeResult"
               /\ Asks(tosend'[s][i], s) =>
                    /\ Over(s)'
                    /\ \A j \in i + 1..Len(tosend'[s]) : ~Moves(tosend'[s][j], s)
    <3>1. tosend'[s] = tosend[s]
      <4>1. \A j : j \notin 1..Len(<<>>) OBVIOUS
      <4> QED BY <4>1
    <3> QED BY <3>1 DEF TextCoherent, SignalsCoherent
  <2> QED BY <2>1, <2>2
<1>3. TakingCoherent'
  <2> SUFFICES ASSUME NEW c \in Contexts, id[c] # None, phase[c] = "TakingResult"
               PROVE  /\ Over(id[c])'
                      /\ \A i \in 1..Len(mail') : ~Moves(mail'[i], id[c])
                      /\ \A i \in 1..Len(tosend'[id[c]]) : ~Moves(tosend'[id[c]][i], id[c])
    BY DEF TakingCoherent, fields, Moves
  <2>1. id[c] \in Sessions BY OpenField DEF CallsInv
  <2>2. /\ Over(id[c])
        /\ \A i \in 1..Len(mail) : ~Moves(mail[i], id[c])
        /\ \A i \in 1..Len(tosend[id[c]]) : ~Moves(tosend[id[c]][i], id[c])
    BY DEF TextCoherent, TakingCoherent
  <2>3. id'[c] = id[c] BY DEF fields
  <2>4. Over(id[c])' BY <2>1, <2>2, <2>3
  <2> QED BY <1>1, <2>1, <2>2, <2>4
<1> QED BY <1>2, <1>3

\* The End task of s has new signals to emit; s was not over before.
LEMMA TellingKeepsSignals ==
  ASSUME TextInv, NEW s \in Sessions, NEW messages, mail' = mail,
         tosend' = [tosend EXCEPT ![s] = messages], UNCHANGED <<fields, history>>,
         \A t \in Sessions : Over(t) => Over(t)',
         ~Over(s) \/ messages = <<>>,
         \A i \in 1..Len(messages) :
           /\ messages[i].session = s /\ messages[i].kind # "TakeResult"
           /\ Asks(messages[i], s) =>
                Over(s)' /\ \A j \in i + 1..Len(messages) : ~Moves(messages[j], s)
  PROVE  SignalsCoherent' /\ TakingCoherent'
<1> USE DEF TextInv
<1>1. /\ tosend'[s] = messages
      /\ \A t \in Sessions : t # s => tosend'[t] = tosend[t]
  BY DEF CallsInv, DaemonTypes
<1>2. \A j : j \notin 1..Len(<<>>) OBVIOUS
<1>3. SignalsCoherent'
  <2> SUFFICES ASSUME NEW t \in Sessions
               PROVE  /\ \A i \in 1..Len(mail) : Asks(mail[i], t) =>
                           /\ Over(t)'
                           /\ \A j \in i + 1..Len(mail) : ~Moves(mail[j], t)
                           /\ \A j \in 1..Len(tosend'[t]) : ~Moves(tosend'[t][j], t)
                      /\ \A i \in 1..Len(tosend'[t]) :
                           /\ tosend'[t][i].session = t
                           /\ tosend'[t][i].kind # "TakeResult"
                           /\ Asks(tosend'[t][i], t) =>
                                /\ Over(t)'
                                /\ \A j \in i + 1..Len(tosend'[t]) : ~Moves(tosend'[t][j], t)
    BY DEF SignalsCoherent, Moves, Asks
  <2>1. CASE t # s
    BY <1>1, <2>1 DEF TextCoherent, SignalsCoherent
  <2>2. CASE t = s
    <3>1. ASSUME NEW i \in 1..Len(mail), Asks(mail[i], s)
          PROVE  messages = <<>> /\ Over(s)
                 /\ \A j \in i + 1..Len(mail) : ~Moves(mail[j], s)
      BY <3>1 DEF TextCoherent, SignalsCoherent
    <3> QED BY <1>1, <1>2, <2>2, <3>1
  <2> QED BY <2>1, <2>2
<1>4. TakingCoherent'
  <2> SUFFICES ASSUME NEW c \in Contexts, id[c] # None, phase[c] = "TakingResult"
               PROVE  /\ Over(id[c])'
                      /\ \A i \in 1..Len(mail) : ~Moves(mail[i], id[c])
                      /\ \A i \in 1..Len(tosend'[id[c]]) : ~Moves(tosend'[id[c]][i], id[c])
    BY DEF TakingCoherent, fields, Moves
  <2>1. id[c] \in Sessions BY OpenField DEF CallsInv
  <2>2. /\ Over(id[c])
        /\ \A i \in 1..Len(mail) : ~Moves(mail[i], id[c])
        /\ \A i \in 1..Len(tosend[id[c]]) : ~Moves(tosend[id[c]][i], id[c])
    BY DEF TextCoherent, TakingCoherent
  <2>3. id'[c] = id[c] BY DEF fields
  <2>4. Over(id[c])' BY <2>1, <2>2, <2>3
  <2>5. id[c] # s \/ messages = <<>> BY <2>2
  <2> QED BY <1>1, <1>2, <2>1, <2>2, <2>4, <2>5
<1> QED BY <1>3, <1>4

\* The End task emits the first of its signals.
LEMMA EmittingKeepsSignals ==
  ASSUME TextInv, NEW s \in Sessions, Emit(s), Over(s) => Over(s)',
         \A t \in Sessions : Over(t) => Over(t)'
  PROVE  SignalsCoherent' /\ TakingCoherent' /\ Head(tosend[s]).kind # "TakeResult"
<1> USE DEF TextInv
<1> DEFINE m == Head(tosend[s])
<1>1. /\ tosend[s] # <<>> /\ mail' = mail \o <<m>>
      /\ tosend' = [tosend EXCEPT ![s] = Tail(tosend[s])]
      /\ UNCHANGED <<fields, history>>
  BY DEF Emit, Post
<1>2. tosend \in [Sessions -> Seq(Mail)] BY DEF CallsInv, DaemonTypes
<1>3. tosend[s] \in Seq(Mail) BY <1>2
<1>4. /\ Len(tosend[s]) \in Nat /\ 1 \in 1..Len(tosend[s]) /\ m = tosend[s][1]
      /\ Len(Tail(tosend[s])) = Len(tosend[s]) - 1
      /\ \A i \in 1..Len(tosend[s]) - 1 :
           i + 1 \in 1..Len(tosend[s]) /\ Tail(tosend[s])[i] = tosend[s][i + 1]
  BY <1>1, <1>3, HeadTailProperties
<1>5. /\ tosend'[s] = Tail(tosend[s])
      /\ \A t \in Sessions : t # s => tosend'[t] = tosend[t]
  BY <1>1, <1>2
<1>6. /\ m.session = s /\ m.kind # "TakeResult"
      /\ Asks(m, s) => /\ Over(s)
                       /\ \A j \in 2..Len(tosend[s]) : ~Moves(tosend[s][j], s)
  BY <1>4 DEF TextCoherent, SignalsCoherent
<1>7. \A t \in Sessions : t # s => ~Moves(m, t) /\ ~Asks(m, t)
  BY <1>6 DEF Moves, Asks
<1>8. /\ Len(mail) \in Nat /\ Len(mail') = Len(mail) + 1
      /\ \A i \in 1..Len(mail) : mail'[i] = mail[i]
      /\ mail'[Len(mail) + 1] = m
      /\ \A i \in 1..Len(mail') : i \in 1..Len(mail) \/ i = Len(mail) + 1
  <2>1. mail \in Seq(Mail) BY DEF CallsInv, AddonInv, AddonTypeOK
  <2> HIDE DEF m
  <2> QED BY <1>1, <2>1
<1> HIDE DEF m
<1>9. SignalsCoherent'
  <2> SUFFICES ASSUME NEW t \in Sessions
               PROVE  /\ \A i \in 1..Len(mail') : Asks(mail'[i], t) =>
                           /\ Over(t)'
                           /\ \A j \in i + 1..Len(mail') : ~Moves(mail'[j], t)
                           /\ \A j \in 1..Len(tosend'[t]) : ~Moves(tosend'[t][j], t)
                      /\ \A i \in 1..Len(tosend'[t]) :
                           /\ tosend'[t][i].session = t
                           /\ tosend'[t][i].kind # "TakeResult"
                           /\ Asks(tosend'[t][i], t) =>
                                /\ Over(t)'
                                /\ \A j \in i + 1..Len(tosend'[t]) : ~Moves(tosend'[t][j], t)
    BY DEF SignalsCoherent, Moves, Asks
  <2>1. ASSUME NEW i \in 1..Len(mail'), Asks(mail'[i], t)
        PROVE  /\ Over(t)'
               /\ \A j \in i + 1..Len(mail') : ~Moves(mail'[j], t)
               /\ \A j \in 1..Len(tosend'[t]) : ~Moves(tosend'[t][j], t)
    <3>1. CASE i \in 1..Len(mail)
      <4>1. /\ Over(t)
            /\ \A j \in i + 1..Len(mail) : ~Moves(mail[j], t)
            /\ \A j \in 1..Len(tosend[t]) : ~Moves(tosend[t][j], t)
        BY <1>8, <2>1, <3>1 DEF TextCoherent, SignalsCoherent
      <4>2. ~Moves(m, t) BY <1>4, <1>7, <4>1
      <4>3. ASSUME NEW j \in i + 1..Len(mail') PROVE ~Moves(mail'[j], t)
        <5>1. j \in i + 1..Len(mail) \/ j = Len(mail) + 1 BY <1>8, <3>1
        <5>2. j \in i + 1..Len(mail) => j \in 1..Len(mail) BY <1>8, <3>1
        <5> QED BY <1>8, <4>1, <4>2, <5>1, <5>2
      <4>4. \A j \in 1..Len(tosend'[t]) : ~Moves(tosend'[t][j], t)
        <5>1. CASE t = s BY <1>4, <1>5, <4>1, <5>1
        <5>2. CASE t # s BY <1>5, <4>1, <5>2
        <5> QED BY <5>1, <5>2
      <4> QED BY <4>1, <4>3, <4>4
    <3>2. CASE i = Len(mail) + 1
      <4>1. Asks(m, t) /\ t = s BY <1>7, <1>8, <2>1, <3>2
      <4>2. Over(s)' BY <1>6, <4>1
      <4>3. \A j \in i + 1..Len(mail') : FALSE BY <1>8, <3>2
      <4>4. ASSUME NEW j \in 1..Len(tosend'[s]) PROVE ~Moves(tosend'[s][j], s)
        <5>1. j + 1 \in 2..Len(tosend[s]) /\ tosend'[s][j] = tosend[s][j + 1]
          BY <1>4, <1>5
        <5> QED BY <1>6, <4>1, <5>1
      <4> QED BY <4>1, <4>2, <4>3, <4>4
    <3> QED BY <1>8, <3>1, <3>2
  <2>2. ASSUME NEW i \in 1..Len(tosend'[t])
        PROVE  /\ tosend'[t][i].session = t
               /\ tosend'[t][i].kind # "TakeResult"
               /\ Asks(tosend'[t][i], t) =>
                    /\ Over(t)'
                    /\ \A j \in i + 1..Len(tosend'[t]) : ~Moves(tosend'[t][j], t)
    <3>1. CASE t # s BY <1>5, <3>1 DEF TextCoherent, SignalsCoherent
    <3>2. CASE t = s
      <4>1. /\ i + 1 \in 1..Len(tosend[s]) /\ tosend'[s][i] = tosend[s][i + 1]
            /\ Len(tosend'[s]) = Len(tosend[s]) - 1
        BY <1>4, <1>5, <3>2
      <4>2. ASSUME NEW j \in i + 1..Len(tosend'[s])
            PROVE  /\ j + 1 \in (i + 1) + 1..Len(tosend[s])
                   /\ tosend'[s][j] = tosend[s][j + 1]
        BY <1>4, <1>5, <4>1
      <4>3. /\ tosend[s][i + 1].session = s /\ tosend[s][i + 1].kind # "TakeResult"
            /\ Asks(tosend[s][i + 1], s) =>
                 /\ Over(s)
                 /\ \A j \in (i + 1) + 1..Len(tosend[s]) : ~Moves(tosend[s][j], s)
        BY <4>1 DEF TextCoherent, SignalsCoherent
      <4> QED BY <3>2, <4>1, <4>2, <4>3
    <3> QED BY <3>1, <3>2
  <2> QED BY <2>1, <2>2
<1>10. TakingCoherent'
  <2> SUFFICES ASSUME NEW c \in Contexts, id[c] # None, phase[c] = "TakingResult"
               PROVE  /\ Over(id[c])'
                      /\ \A i \in 1..Len(mail') : ~Moves(mail'[i], id[c])
                      /\ \A i \in 1..Len(tosend'[id[c]]) : ~Moves(tosend'[id[c]][i], id[c])
    BY <1>1 DEF TakingCoherent, fields, Moves
  <2>1. id[c] \in Sessions BY OpenField DEF CallsInv
  <2>2. /\ Over(id[c])
        /\ \A i \in 1..Len(mail) : ~Moves(mail[i], id[c])
        /\ \A i \in 1..Len(tosend[id[c]]) : ~Moves(tosend[id[c]][i], id[c])
    BY DEF TextCoherent, TakingCoherent
  <2>3. id'[c] = id[c] BY <1>1 DEF fields
  <2>4. Over(id[c])' BY <2>1, <2>2, <2>3
  <2>5. ~Moves(m, id[c]) BY <1>4, <1>7, <2>1, <2>2
  <2>6. \A i \in 1..Len(mail') : ~Moves(mail'[i], id[c]) BY <1>8, <2>2, <2>5
  <2>7. \A i \in 1..Len(tosend'[id[c]]) : ~Moves(tosend'[id[c]][i], id[c])
    <3>1. CASE id[c] = s
      <4>1. ASSUME NEW i \in 1..Len(tosend'[s]) PROVE ~Moves(tosend'[s][i], s)
        <5>1. i + 1 \in 1..Len(tosend[s]) /\ tosend'[s][i] = tosend[s][i + 1]
          BY <1>4, <1>5
        <5> QED BY <2>2, <3>1, <5>1
      <4> QED BY <3>1, <4>1
    <3>2. CASE id[c] # s
      <4>1. tosend'[id[c]] = tosend[id[c]] BY <1>5, <2>1, <3>2
      <4> QED BY <2>2, <4>1
    <3> QED BY <3>1, <3>2
  <2> QED BY <2>4, <2>6, <2>7
<1> QED BY <1>6, <1>9, <1>10 DEF m

(***************************************************************************)
(* The answers on their way                                                *)
(***************************************************************************)
\* What the daemon does but TakeResult answers nobody who waits for a text.
LEMMA PostingKeepsAnswers ==
  ASSUME TextInv, UNCHANGED <<fields, history>>, Grown,
         \A i \in 1..Len(mail') : i \in 1..Len(mail) \/ mail'[i].kind # "TakeResult",
         handed' = handed,
         calls' = calls \/ (calls # <<>> /\ calls' = Tail(calls)) \/ calls' = <<>>
  PROVE  AskedOnce' /\ SlotCoherent' /\ AskedCoherent' /\ EndedCoherent'
<1> USE DEF TextInv, CallsInv, Grown
<1>1. PICK n \in {0, 1} : \A i \in 1..Len(calls') :
        i + n \in 1..Len(calls) /\ calls'[i] = calls[i + n]
  <2>1. CASE calls' = calls
    <3>1. Len(calls) \in Nat BY DEF AddonInv, AddonTypeOK
    <3>2. \A i \in 1..Len(calls') : i + 0 \in 1..Len(calls) /\ calls'[i] = calls[i + 0]
      BY <2>1, <3>1
    <3> QED BY <3>2
  <2>2. CASE calls # <<>> /\ calls' = Tail(calls) BY <2>2, OneCallLess
  <2>3. CASE calls' = <<>>
    <3>1. \A i : i \notin 1..Len(calls') BY <2>3
    <3> QED BY <3>1
  <2> QED BY <2>1, <2>2, <2>3
<1>2. \A s \in Sessions : Sent("TakeResult", s)' => Sent("TakeResult", s)
  BY <1>1 DEF Sent
<1>3. \A s \in Sessions, i \in 1..Len(mail') :
        Answer(i, s)' => i \in 1..Len(mail) /\ Answer(i, s)
  BY DEF Answer
<1>4. \A s \in Sessions : Asked(s)' => Asked(s) BY <1>2, <1>3 DEF Asked
<1>5. AskedOnce'
  <2>1. ASSUME NEW i \in 1..Len(calls'), NEW j \in 1..Len(calls'), i # j,
               calls'[i].method = "TakeResult", calls'[j].method = "TakeResult"
        PROVE  calls'[i].session # calls'[j].session
    <3>1. i + n # j + n BY <2>1
    <3>2. /\ i + n \in 1..Len(calls) /\ calls'[i] = calls[i + n]
          /\ j + n \in 1..Len(calls) /\ calls'[j] = calls[j + n]
      BY <1>1
    <3> QED BY <2>1, <3>1, <3>2 DEF TextCoherent, AskedOnce
  <2>2. \A s \in Sessions, i \in 1..Len(mail'), j \in 1..Len(mail') : Answer(i, s)' =>
          ~Sent("TakeResult", s)' /\ (Answer(j, s)' => i = j)
    BY <1>2, <1>3 DEF TextCoherent, AskedOnce
  <2> QED BY <2>1, <2>2 DEF AskedOnce, Answer
<1>6. SlotCoherent' BY DEF TextCoherent, SlotCoherent, fields, history
<1>7. AskedCoherent'
  <2> SUFFICES ASSUME NEW c \in Contexts, id[c] # None, Asked(id[c])'
               PROVE  /\ phase[c] = "TakingResult"
                      /\ pending[c].method = "TakeResult" /\ pending[c].session = id[c]
                      /\ \A i \in 1..Len(calls') :
                           calls'[i].method = "TakeResult" /\ calls'[i].session = id[c] =>
                             calls'[i] = pending[c]
                      /\ id[c] \in handed' =>
                           \E i \in 1..Len(mail') : mail'[i] = Reply(pending[c], "ok")
    BY DEF AskedCoherent, fields, Reply
  <2>1. id[c] \in Sessions BY OpenField
  <2>2. Asked(id[c])
    <3>1. id'[c] = id[c] BY DEF fields
    <3> QED BY <1>4, <2>1, <3>1
  <2>3. /\ phase[c] = "TakingResult"
        /\ pending[c].method = "TakeResult" /\ pending[c].session = id[c]
        /\ \A i \in 1..Len(calls) :
             calls[i].method = "TakeResult" /\ calls[i].session = id[c] =>
               calls[i] = pending[c]
        /\ id[c] \in handed =>
             \E i \in 1..Len(mail) : mail[i] = Reply(pending[c], "ok")
    BY <2>2 DEF TextCoherent, AskedCoherent
  <2>4. \A i \in 1..Len(calls') :
          calls'[i].method = "TakeResult" /\ calls'[i].session = id[c] =>
            calls'[i] = pending[c]
    BY <1>1, <2>3
  <2>5. ASSUME id[c] \in handed'
        PROVE  \E i \in 1..Len(mail') : mail'[i] = Reply(pending[c], "ok")
    <3>1. id[c] \in handed BY <2>1, <2>5
    <3>2. PICK i \in 1..Len(mail) : mail[i] = Reply(pending[c], "ok") BY <2>3, <3>1
    <3>3. i \in 1..Len(mail') OBVIOUS
    <3> QED BY <3>2, <3>3
  <2> QED BY <2>3, <2>4, <2>5
<1>8. EndedCoherent'
  BY <1>4 DEF TextCoherent, EndedCoherent, fields, history, Open
<1> QED BY <1>5, <1>6, <1>7, <1>8

\* TakeResult answers the one call for the text of a session, and whoever waits
\* for it waits for that call (pipeline.rs:322-335).
LEMMA ServeTakeResultKeepsAnswers ==
  ASSUME TextInv, ServeTakeResult
  PROVE  AskedOnce' /\ SlotCoherent' /\ AskedCoherent' /\ EndedCoherent'
<1> USE DEF TextInv, CallsInv
<1> DEFINE m == Head(calls)
<1> DEFINE s == m.session
<1>1. /\ calls # <<>> /\ m.method = "TakeResult" /\ calls' = Tail(calls)
      /\ UNCHANGED <<fields, history>>
  BY DEF ServeTakeResult, Dispatch
<1>2. /\ Len(calls) \in Nat /\ 1 \in 1..Len(calls) /\ m = calls[1] /\ m \in Calls
      /\ \A i \in 1..Len(calls') : i + 1 \in 1..Len(calls) /\ calls'[i] = calls[i + 1]
      /\ \A t : Sent("TakeResult", t)' => Sent("TakeResult", t)
  BY <1>1, OneCallLess
<1>3. s \in Sessions /\ Sent("TakeResult", s) BY <1>1, <1>2 DEF Calls, Sent
<1>5. PICK outcome \in {"ok", "error"} :
        /\ mail' = mail \o <<Reply(m, outcome)>>
        /\ \A t \in Sessions : t # s \/ outcome # "ok" => (t \in handed' <=> t \in handed)
  BY <1>3 DEF ServeTakeResult, Post
<1> DEFINE r == Reply(m, outcome)
<1>6. r.kind = "TakeResult" /\ r.session = s BY <1>1 DEF Reply
<1>7. /\ Len(mail) \in Nat /\ Len(mail') = Len(mail) + 1
      /\ \A i \in 1..Len(mail) : i \in 1..Len(mail') /\ mail'[i] = mail[i]
      /\ Len(mail) + 1 \in 1..Len(mail') /\ mail'[Len(mail) + 1] = r
      /\ \A i \in 1..Len(mail') : i \in 1..Len(mail) \/ i = Len(mail) + 1
  <2>1. mail \in Seq(Mail) BY DEF AddonInv, AddonTypeOK
  <2> HIDE DEF r
  <2> QED BY <1>5, <2>1 DEF r
<1> HIDE DEF m, s, r
<1>8. \A t \in Sessions, i \in 1..Len(mail') :
        Answer(i, t)' => \/ i \in 1..Len(mail) /\ Answer(i, t)
                         \/ i = Len(mail) + 1 /\ t = s
  BY <1>6, <1>7 DEF Answer
<1>9. \A t \in Sessions : Asked(t)' => Asked(t)
  BY <1>2, <1>3, <1>5, <1>8 DEF Asked
<1>10. AskedOnce'
  <2>1. ASSUME NEW i \in 1..Len(calls'), NEW j \in 1..Len(calls'), i # j,
               calls'[i].method = "TakeResult", calls'[j].method = "TakeResult"
        PROVE  calls'[i].session # calls'[j].session
    <3>1. i + 1 # j + 1 BY <2>1
    <3> QED BY <1>2, <2>1, <3>1 DEF TextCoherent, AskedOnce
  <2>2. ASSUME NEW t, t = s PROVE ~Sent("TakeResult", t)'
    <3>1. ASSUME NEW k \in 1..Len(calls'), calls'[k].method = "TakeResult",
                 calls'[k].session = s
          PROVE  FALSE
      <4>1. k + 1 # 1 /\ k + 1 \in 1..Len(calls) /\ calls'[k] = calls[k + 1]
        BY <1>2
      <4>2. calls[k + 1].session # calls[1].session
        BY <1>1, <1>2, <3>1, <4>1 DEF TextCoherent, AskedOnce
      <4> QED BY <1>2, <3>1, <4>1, <4>2 DEF s
    <3> QED BY <2>2, <3>1 DEF Sent
  <2>3. ASSUME NEW t \in Sessions, NEW i \in 1..Len(mail'), Answer(i, t)'
        PROVE  /\ ~Sent("TakeResult", t)'
               /\ \A j \in 1..Len(mail') : Answer(j, t)' => i = j
    <3>1. ASSUME NEW j \in 1..Len(mail), Answer(j, t)
          PROVE  ~Sent("TakeResult", t) /\ t # s
      BY <1>3, <3>1 DEF TextCoherent, AskedOnce
    <3>2. CASE i \in 1..Len(mail) /\ Answer(i, t)
      BY <1>2, <1>8, <3>1, <3>2 DEF TextCoherent, AskedOnce
    <3>3. CASE i = Len(mail) + 1 /\ t = s BY <1>8, <2>2, <3>1, <3>3
    <3> QED BY <1>8, <2>3, <3>2, <3>3
  <2> QED BY <2>1, <2>3 DEF AskedOnce, Answer
<1>11. SlotCoherent' BY <1>1 DEF TextCoherent, SlotCoherent, fields, history
<1>12. AskedCoherent'
  <2> SUFFICES ASSUME NEW c \in Contexts, id[c] # None, Asked(id[c])'
               PROVE  /\ phase[c] = "TakingResult"
                      /\ pending[c].method = "TakeResult" /\ pending[c].session = id[c]
                      /\ \A i \in 1..Len(calls') :
                           calls'[i].method = "TakeResult" /\ calls'[i].session = id[c] =>
                             calls'[i] = pending[c]
                      /\ id[c] \in handed' =>
                           \E i \in 1..Len(mail') : mail'[i] = Reply(pending[c], "ok")
    BY <1>1 DEF AskedCoherent, fields, Reply
  <2>1. id[c] \in Sessions BY OpenField
  <2>2. Asked(id[c])
    <3>1. id'[c] = id[c] BY <1>1 DEF fields
    <3> QED BY <1>9, <2>1, <3>1
  <2>3. /\ phase[c] = "TakingResult"
        /\ pending[c].method = "TakeResult" /\ pending[c].session = id[c]
        /\ \A i \in 1..Len(calls) :
             calls[i].method = "TakeResult" /\ calls[i].session = id[c] =>
               calls[i] = pending[c]
        /\ id[c] \in handed =>
             \E i \in 1..Len(mail) : mail[i] = Reply(pending[c], "ok")
    BY <2>2 DEF TextCoherent, AskedCoherent
  <2>4. \A i \in 1..Len(calls') :
          calls'[i].method = "TakeResult" /\ calls'[i].session = id[c] =>
            calls'[i] = pending[c]
    BY <1>2, <2>3
  <2>5. ASSUME id[c] \in handed'
        PROVE  \E i \in 1..Len(mail') : mail'[i] = Reply(pending[c], "ok")
    <3>1. CASE id[c] = s /\ outcome = "ok"
      <4>1. m = pending[c] BY <1>1, <1>2, <2>3, <3>1 DEF s
      <4>2. mail'[Len(mail) + 1] = Reply(pending[c], "ok") BY <1>7, <3>1, <4>1 DEF r
      <4> QED BY <1>7, <4>2
    <3>2. CASE ~(id[c] = s /\ outcome = "ok")
      <4>1. id[c] \in handed BY <1>5, <2>1, <2>5, <3>2
      <4>2. PICK i \in 1..Len(mail) : mail[i] = Reply(pending[c], "ok") BY <2>3, <4>1
      <4> QED BY <1>7, <4>2
    <3> QED BY <3>1, <3>2
  <2> QED BY <2>3, <2>4, <2>5
<1>13. EndedCoherent'
  BY <1>1, <1>9 DEF TextCoherent, EndedCoherent, fields, history, Open
<1> QED BY <1>10, <1>11, <1>12, <1>13

\* The methods (dbus.rs).
LEMMA HandlerKeepsText ==
  ASSUME TextInv, HandlerStep, \A s \in Sessions : Over(s) => Over(s)'
  PROVE  TextCoherent'
<1> USE DEF TextInv, CallsInv
<1>1. UNCHANGED <<fields, history>> /\ tosend' = tosend
  BY DEF HandlerStep, ServeBegin, BeginFails, BeginSucceeds, ServeEnd, ServeCancel,
         CancelResets, CancelSucceeds, ServeTakeResult, Dispatch, InHandler, sending
<1>2. calls' = calls \/ (calls # <<>> /\ calls' = Tail(calls))
  BY DEF HandlerStep, ServeBegin, BeginFails, BeginSucceeds, ServeEnd, ServeCancel,
         CancelResets, CancelSucceeds, ServeTakeResult, Dispatch, InHandler
<1>3. calls # <<>> => Head(calls) \in Calls
  BY HeadTailProperties DEF AddonInv, AddonTypeOK
<1>4. ASSUME ~ServeTakeResult PROVE handed' = handed
  BY <1>4 DEF HandlerStep, ServeBegin, BeginFails, BeginSucceeds, ServeEnd,
       ServeCancel, CancelResets, CancelSucceeds, InHandler, past
<1>5. handler.at = "starting" =>
        /\ handler.session \in Sessions /\ Begun(handler.session) \in Calls
        /\ Begun(handler.session).method = "Begin"
        /\ ~Over(handler.session)
  <2> SUFFICES ASSUME handler.at = "starting"
               PROVE  /\ handler.session \in Sessions
                      /\ Begun(handler.session) \in Calls
                      /\ Begun(handler.session).method = "Begin"
                      /\ ~Over(handler.session)
    OBVIOUS
  <2>1. handler.session \in Sessions
    BY DEF DaemonTypes, Daemon!TypeOK, Daemon!CallsInProgress, Daemon!Free
  <2>2. owner[handler.session] = None
    BY DEF Daemon!Coherent, Daemon!HandlerCoherent
  <2> QED BY <2>1, <2>2 DEF Begun, Calls, Methods, Over, ToBegin
<1>6. ASSUME ~ServeTakeResult, Grown,
             \A s \in Sessions, i \in 1..Len(mail') :
               \/ i \in 1..Len(mail)
               \/ ~Asks(mail'[i], s) /\ (Moves(mail'[i], s) => ~Over(s)),
             \A i \in 1..Len(mail') :
               i \in 1..Len(mail) \/ mail'[i].kind # "TakeResult"
      PROVE  TextCoherent'
  <2>1. SignalsCoherent' /\ TakingCoherent' BY <1>1, <1>6, PostingKeepsSignals
  <2>2. AskedOnce' /\ SlotCoherent' /\ AskedCoherent' /\ EndedCoherent'
    BY <1>1, <1>2, <1>4, <1>6, PostingKeepsAnswers
  <2> QED BY <2>1, <2>2 DEF TextCoherent
<1>7. ASSUME NEW m, mail' = mail \o <<m>>, ~ServeTakeResult, m.kind # "TakeResult",
             \A s \in Sessions : ~Asks(m, s) /\ ~Moves(m, s)
      PROVE  TextCoherent'
  <2>1. /\ Grown
        /\ \A i \in 1..Len(mail') : i \in 1..Len(mail) \/ mail'[i] = m
    BY <1>7, OneMoreMessage
  <2> QED BY <1>6, <1>7, <2>1
<1>8. ASSUME mail' = mail, ~ServeTakeResult PROVE TextCoherent'
  <2>1. Grown
    <3>1. Len(mail) \in Nat BY DEF AddonInv, AddonTypeOK
    <3> QED BY <1>8, <3>1 DEF Grown
  <2> QED BY <1>6, <1>8, <2>1
<1>9. CASE ServeTakeResult
  <2> DEFINE m == Head(calls)
  <2>1. calls # <<>> BY <1>9 DEF ServeTakeResult, Dispatch
  <2>2. PICK outcome \in {"ok", "error"} : mail' = mail \o <<Reply(m, outcome)>>
    BY <1>9 DEF ServeTakeResult, Post
  <2>3. /\ Grown
        /\ \A i \in 1..Len(mail') : i \in 1..Len(mail) \/ mail'[i] = Reply(m, outcome)
    BY <2>2, OneMoreMessage
  <2>4. \A s : ~Asks(Reply(m, outcome), s) /\ ~Moves(Reply(m, outcome), s)
    BY <1>3, <2>1, RepliesAreSilent
  <2>5. SignalsCoherent' /\ TakingCoherent'
    BY <1>1, <2>3, <2>4, PostingKeepsSignals
  <2> QED BY <1>9, <2>5, ServeTakeResultKeepsAnswers DEF TextCoherent
<1>10. ASSUME ~ServeTakeResult PROVE TextCoherent'
  <2>1. CASE ServeBegin \/ ServeEnd
    <3>1. calls # <<>> /\ Head(calls).method \in {"Begin", "End"}
      BY <2>1 DEF ServeBegin, ServeEnd, Dispatch
    <3>2. mail' = mail \/ \E outcome \in {"ok", "error"} :
                            mail' = mail \o <<Reply(Head(calls), outcome)>>
      BY <2>1 DEF ServeBegin, ServeEnd, Post
    <3>3. \A outcome \in {"ok", "error"} :
            /\ Reply(Head(calls), outcome).kind # "TakeResult"
            /\ \A s \in Sessions : ~Asks(Reply(Head(calls), outcome), s)
                                   /\ ~Moves(Reply(Head(calls), outcome), s)
      BY <1>3, <3>1, RepliesAreSilent
    <3> QED BY <1>7, <1>8, <1>10, <3>2, <3>3
  <2>2. CASE ServeCancel \/ CancelResets
    BY <1>8, <1>10, <2>2 DEF ServeCancel, CancelResets
  <2>3. CASE BeginFails
    <3>1. /\ mail' = mail \o <<Reply(Begun(handler.session), "error")>>
          /\ handler.at = "starting"
      BY <2>3 DEF BeginFails, Post, Daemon!BeginGivesUp
    <3>2. /\ Reply(Begun(handler.session), "error").kind # "TakeResult"
          /\ \A s \in Sessions : ~Asks(Reply(Begun(handler.session), "error"), s)
                                 /\ ~Moves(Reply(Begun(handler.session), "error"), s)
      BY <1>5, <3>1, RepliesAreSilent
    <3> QED BY <1>7, <1>10, <3>1, <3>2
  <2>4. CASE CancelSucceeds
    <3>1. mail' = mail \o <<StateChanged(handler.session, "idle")>>
      BY <2>4 DEF CancelSucceeds, Post
    <3>2. /\ StateChanged(handler.session, "idle").kind # "TakeResult"
          /\ \A s \in Sessions : ~Asks(StateChanged(handler.session, "idle"), s)
                                 /\ ~Moves(StateChanged(handler.session, "idle"), s)
      BY DEF StateChanged, Asks, Moves
    <3> QED BY <1>7, <1>10, <3>1, <3>2
  <2>5. CASE BeginSucceeds
    <3> DEFINE t == handler.session
    <3> DEFINE m == StateChanged(t, "recording")
    <3> DEFINE n == Reply(Begun(t), "ok")
    <3>1. mail' = mail \o <<m, n>> /\ handler.at = "starting"
      BY <2>5 DEF BeginSucceeds, Post, Daemon!BeginCommit
    <3>2. /\ n.kind # "TakeResult" /\ \A s \in Sessions : ~Asks(n, s) /\ ~Moves(n, s)
      BY <1>5, <3>1, RepliesAreSilent
    <3>3. /\ m.kind # "TakeResult"
          /\ \A s \in Sessions : ~Asks(m, s) /\ (Moves(m, s) => s = t)
      BY DEF StateChanged, Asks, Moves
    <3>4. ~Over(t) BY <1>5, <3>1
    <3> HIDE DEF t, m, n
    <3>5. /\ Grown
          /\ \A i \in 1..Len(mail') : i \in 1..Len(mail) \/ mail'[i] \in {m, n}
      BY <3>1, TwoMoreMessages
    <3> QED BY <1>6, <1>10, <3>2, <3>3, <3>4, <3>5
  <2> QED BY <1>10, <2>1, <2>2, <2>3, <2>4, <2>5 DEF HandlerStep
<1> QED BY <1>9, <1>10

\* The End tasks, their signals, the timers and the death of the daemon.
LEMMA TasksKeepText ==
  ASSUME TextInv, \A s \in Sessions : Over(s) => Over(s)',
         \/ \E s \in Sessions : EndStarts(s) \/ EndTaskStep(s) \/ Emit(s)
                               \/ EmitRefused(s) \/ TimerStep(s)
         \/ Dies
  PROVE  TextCoherent'
<1> USE DEF TextInv, CallsInv
<1>1. Len(mail) \in Nat BY DEF AddonInv, AddonTypeOK
<1>2. ASSUME mail' = mail,
             UNCHANGED <<fields, history>>, tosend' = tosend \/ tosend' = [s \in Sessions |-> <<>>],
             handed' = handed,
             calls' = calls \/ calls' = <<>>
      PROVE  TextCoherent'
  <2>1. Grown BY <1>1, <1>2 DEF Grown
  <2>2. \A s \in Sessions : tosend'[s] = tosend[s] \/ tosend'[s] = <<>> BY <1>2
  <2>3. SignalsCoherent' /\ TakingCoherent'
    BY <1>2, <2>1, <2>2, PostingKeepsSignals
  <2>4. handed' = handed BY <1>2
  <2>5. AskedOnce' /\ SlotCoherent' /\ AskedCoherent' /\ EndedCoherent'
    BY <1>2, <2>1, <2>4, PostingKeepsAnswers
  <2> QED BY <2>3, <2>5 DEF TextCoherent
<1>3. ASSUME NEW s \in Sessions, EndStarts(s) \/ TimerStep(s) PROVE TextCoherent'
  <2>1. /\ mail' = mail /\ UNCHANGED <<fields, history>> /\ tosend' = tosend
        /\ calls' = calls
    BY <1>3 DEF EndStarts, TimerStep, InTask, sending, addonVars, fields, history
  <2>2. handed' = handed
    BY <1>3 DEF EndStarts, TimerStep, InTask, past
  <2> QED BY <1>2, <2>1, <2>2
<1>4. ASSUME NEW s \in Sessions, EndTaskStep(s) PROVE TextCoherent'
  <2>1. /\ mail' = mail /\ UNCHANGED <<fields, history>> /\ calls' = calls
    BY <1>4 DEF EndTaskStep, Tells, InTask, addonVars, fields, history
  <2>2. /\ handed' = handed /\ owner' = owner
        /\ task[s] \in Daemon!Working
        /\ Daemon!StoreResult(s) => task'[s] = "done"
    BY <1>4 DEF EndTaskStep, Daemon!CaptureFinished, Daemon!CaptureFailed,
         Daemon!TranscribeDone, Daemon!TranscribeFailed, Daemon!MarkPolishing,
         Daemon!TaskAbandoned, Daemon!StoreResult, Daemon!Advance, Daemon!Working,
         DaemonTypes, Daemon!TypeOK, Tells, InTask, past
  <2>3. owner[s] # None /\ ~Over(s)
    BY <2>2 DEF Daemon!Coherent, Daemon!NotBegunCoherent, Daemon!Working, Over
  <2>4. ASSUME NEW messages, Tells(s, messages),
               \A i \in 1..Len(messages) :
                 /\ messages[i].session = s /\ messages[i].kind # "TakeResult"
                 /\ Asks(messages[i], s) =>
                      Over(s)' /\ \A j \in i + 1..Len(messages) : ~Moves(messages[j], s)
        PROVE  TextCoherent'
    <3>1. SignalsCoherent' /\ TakingCoherent'
      BY <2>1, <2>3, <2>4, TellingKeepsSignals DEF Tells
    <3>2. Grown BY <1>1, <2>1 DEF Grown
    <3>3. AskedOnce' /\ SlotCoherent' /\ AskedCoherent' /\ EndedCoherent'
      BY <2>1, <2>2, <3>2, PostingKeepsAnswers
    <3> QED BY <3>1, <3>3 DEF TextCoherent
  <2>5. \A i : i \notin 1..Len(<<>>) OBVIOUS
  <2>6. ASSUME NEW shown \in {"transcribing", "polishing", "error"},
               Tells(s, <<StateChanged(s, shown)>>)
        PROVE  TextCoherent'
    <3> DEFINE messages == <<StateChanged(s, shown)>>
    <3>1. \A i \in 1..Len(messages) :
            /\ messages[i].session = s /\ messages[i].kind # "TakeResult"
            /\ ~Asks(messages[i], s)
      BY DEF StateChanged, Asks
    <3> HIDE DEF messages
    <3> QED BY <2>4, <2>6, <3>1 DEF messages
  <2>7. CASE Daemon!StoreResult(s)
             /\ Tells(s, <<StateChanged(s, "result_ready"), ResultReady(s)>>)
    <3> DEFINE messages == <<StateChanged(s, "result_ready"), ResultReady(s)>>
    <3>1. Over(s)' BY <2>2, <2>3, <2>7 DEF Over
    <3>2. Len(messages) = 2 OBVIOUS
    <3>3. \A i \in 1..Len(messages) :
            /\ messages[i].session = s /\ messages[i].kind # "TakeResult"
      BY DEF StateChanged, ResultReady
    <3>4. ~Moves(messages[2], s) BY DEF ResultReady, Moves
    <3> HIDE DEF messages
    <3>5. \A i \in 1..Len(messages) : \A j \in i + 1..Len(messages) : j = 2
      BY <3>2
    <3> QED BY <2>4, <2>7, <3>1, <3>3, <3>4, <3>5 DEF messages
  <2> QED BY <1>4, <2>4, <2>5, <2>6, <2>7 DEF EndTaskStep
<1>5. ASSUME NEW s \in Sessions, Emit(s) PROVE TextCoherent'
  <2>1. /\ UNCHANGED <<fields, history>> /\ calls' = calls /\ handed' = handed
        /\ mail' = mail \o <<Head(tosend[s])>>
    BY <1>5 DEF Emit, Post, past
  <2>2. SignalsCoherent' /\ TakingCoherent' /\ Head(tosend[s]).kind # "TakeResult"
    BY <1>5, EmittingKeepsSignals
  <2>3. /\ Grown
        /\ \A i \in 1..Len(mail') : i \in 1..Len(mail) \/ mail'[i] = Head(tosend[s])
    BY <2>1, OneMoreMessage
  <2>4. AskedOnce' /\ SlotCoherent' /\ AskedCoherent' /\ EndedCoherent'
    BY <2>1, <2>2, <2>3, PostingKeepsAnswers
  <2> QED BY <2>2, <2>4 DEF TextCoherent
<1>6. ASSUME NEW s \in Sessions, EmitRefused(s) PROVE TextCoherent'
  <2> DEFINE m == StateChanged(s, "error")
  <2>1. /\ UNCHANGED <<fields, history>> /\ calls' = calls /\ handed' = handed
        /\ mail' = mail \o <<m>> /\ tosend' = tosend
    BY <1>6 DEF EmitRefused, Post, past
  <2>2. m.kind # "TakeResult" /\ \A t : ~Asks(m, t) /\ ~Moves(m, t)
    BY DEF StateChanged, Asks, Moves
  <2> HIDE DEF m
  <2>3. /\ Grown
        /\ \A i \in 1..Len(mail') : i \in 1..Len(mail) \/ mail'[i] = m
    BY <2>1, OneMoreMessage
  <2>4. SignalsCoherent' /\ TakingCoherent'
    BY <2>1, <2>2, <2>3, PostingKeepsSignals
  <2>5. AskedOnce' /\ SlotCoherent' /\ AskedCoherent' /\ EndedCoherent'
    BY <2>1, <2>2, <2>3, PostingKeepsAnswers
  <2> QED BY <2>4, <2>5 DEF TextCoherent
<1>7. CASE Dies BY <1>2, <1>7 DEF Dies
<1> QED BY <1>3, <1>4, <1>5, <1>6, <1>7
-----------------------------------------------------------------------------
(***************************************************************************)
(* What the addon hears                                                    *)
(***************************************************************************)
\* It handles the mail in order, ...
Handled == mail' = mail \/ (mail # <<>> /\ mail' = Tail(mail))

\* What is left was there before, in the same order.
LEMMA OneMessageLess ==
  ASSUME AddonInv, Handled
  PROVE  \E n \in {0, 1} : /\ Len(mail) \in Nat /\ Len(mail') = Len(mail) - n
                           /\ n = 0 <=> mail' = mail
                           /\ \A i \in 1..Len(mail') :
                                i + n \in 1..Len(mail) /\ mail'[i] = mail[i + n]
                           /\ \A i \in n + 1..Len(mail) :
                                i - n \in 1..Len(mail') /\ mail[i] = mail'[i - n]
<1>1. mail \in Seq(Mail) BY DEF AddonInv, AddonTypeOK
<1>2. CASE mail' = mail
  <2>1. Len(mail) \in Nat /\ Len(mail') = Len(mail) - 0 BY <1>1, <1>2
  <2>2. \A i \in 1..Len(mail') : i + 0 \in 1..Len(mail) /\ mail'[i] = mail[i + 0]
    BY <1>2, <2>1
  <2>3. \A i \in 0 + 1..Len(mail) : i - 0 \in 1..Len(mail') /\ mail[i] = mail'[i - 0]
    BY <1>2, <2>1
  <2> QED BY <1>2, <2>1, <2>2, <2>3
<1>3. CASE mail # <<>> /\ mail' = Tail(mail)
  <2>1. /\ Len(mail) \in Nat /\ Len(mail') = Len(mail) - 1 /\ mail' # mail
        /\ \A i \in 1..Len(mail') : i + 1 \in 1..Len(mail) /\ mail'[i] = mail[i + 1]
    <3>1. /\ Len(mail) \in Nat /\ Len(mail') = Len(mail) - 1
          /\ \A i \in 1..Len(mail') : i + 1 \in 1..Len(mail) /\ mail'[i] = mail[i + 1]
      BY <1>1, <1>3, HeadTailProperties
    <3> QED BY <3>1
  <2>2. \A i \in 1 + 1..Len(mail) : i - 1 \in 1..Len(mail') /\ mail[i] = mail'[i - 1]
    <3> TAKE i \in 1 + 1..Len(mail)
    <3>1. i - 1 \in 1..Len(mail') /\ (i - 1) + 1 = i BY <2>1
    <3> QED BY <2>1, <3>1
  <2>3. 1 \in {0, 1} /\ (1 = 0 <=> mail' = mail) BY <2>1
  <2> QED BY <2>1, <2>2, <2>3
<1> QED BY <1>2, <1>3 DEF Handled

\* The signals behind the one that is handled stay in order.
LEMMA HandlingKeepsSignals ==
  ASSUME TextInv, Handled, tosend' = tosend, \A s \in Sessions : Over(s) => Over(s)'
  PROVE  SignalsCoherent'
<1> USE DEF TextInv, CallsInv
<1>1. PICK n \in {0, 1} : /\ Len(mail) \in Nat /\ Len(mail') = Len(mail) - n
                          /\ \A i \in 1..Len(mail') :
                               i + n \in 1..Len(mail) /\ mail'[i] = mail[i + n]
  BY OneMessageLess
<1>2. ASSUME NEW s \in Sessions, NEW i \in 1..Len(mail'), Asks(mail'[i], s)
      PROVE  /\ Over(s)'
             /\ \A j \in i + 1..Len(mail') : ~Moves(mail'[j], s)
             /\ \A j \in 1..Len(tosend[s]) : ~Moves(tosend[s][j], s)
  <2>1. /\ i + n \in 1..Len(mail) /\ mail'[i] = mail[i + n] BY <1>1
  <2>2. /\ Over(s)
        /\ \A j \in i + n + 1..Len(mail) : ~Moves(mail[j], s)
        /\ \A j \in 1..Len(tosend[s]) : ~Moves(tosend[s][j], s)
    BY <1>2, <2>1 DEF TextCoherent, SignalsCoherent
  <2>3. ASSUME NEW j \in i + 1..Len(mail') PROVE ~Moves(mail'[j], s)
    <3>1. j + n \in i + n + 1..Len(mail) /\ mail'[j] = mail[j + n] BY <1>1
    <3> QED BY <2>2, <3>1
  <2> QED BY <2>2, <2>3
<1>3. ASSUME NEW s \in Sessions, NEW i \in 1..Len(tosend[s])
      PROVE  /\ tosend[s][i].session = s /\ tosend[s][i].kind # "TakeResult"
             /\ Asks(tosend[s][i], s) =>
                  /\ Over(s)'
                  /\ \A j \in i + 1..Len(tosend[s]) : ~Moves(tosend[s][j], s)
  BY DEF TextCoherent, SignalsCoherent
<1> QED BY <1>2, <1>3 DEF SignalsCoherent, Moves, Asks

\* ... and what it does about a message, a key or a timeout, but for KeyBegin and
\* a signal that makes it ask for the text, forgets nothing of a session that
\* was asked for unless it ends it.
Listens ==
  /\ origin' = origin /\ Handled
  /\ \/ calls' = calls
     \/ \E m \in Calls : calls' = Append(calls, m) /\ m.method # "TakeResult"
  /\ \A c \in Contexts :
       /\ \/ pending'[c] \in {pending[c], NoCall}
          \/ origin[pending'[c].session] = c
       /\ id'[c] # None =>
            /\ id'[c] = id[c]
            /\ phase'[c] = phase[c] \/ phase'[c] # "TakingResult"
            /\ Asked(id[c]) =>
                 /\ phase'[c] = phase[c] /\ pending'[c] = pending[c]
                 /\ mail' = mail \/ Head(mail) # Reply(pending[c], "ok")
  /\ \A s \in Sessions : fate'[s] = "open" /\ committed'[s] = None /\ ~Open(s)' =>
       \/ fate[s] = "open" /\ committed[s] = None /\ ~Open(s)
       \/ ~Asked(s)'

\* Such a step keeps what is known of the texts.
LEMMA ListeningKeepsText ==
  ASSUME TextInv, Listens, UNCHANGED <<daemonVars, tosend, handed>>,
         \A s \in Sessions : Over(s) => Over(s)'
  PROVE  TextCoherent'
<1> USE DEF TextInv, CallsInv
<1>1. PICK n \in {0, 1} : /\ Len(mail) \in Nat /\ Len(mail') = Len(mail) - n
                          /\ n = 0 <=> mail' = mail
                          /\ \A i \in 1..Len(mail') :
                               i + n \in 1..Len(mail) /\ mail'[i] = mail[i + n]
                          /\ \A i \in n + 1..Len(mail) :
                               i - n \in 1..Len(mail') /\ mail[i] = mail'[i - n]
  BY OneMessageLess DEF Listens
<1>2. handed' = handed OBVIOUS
<1>3. /\ \A s : Sent("TakeResult", s)' <=> Sent("TakeResult", s)
      /\ \A i \in 1..Len(calls') : calls'[i].method = "TakeResult" =>
           i \in 1..Len(calls) /\ calls'[i] = calls[i]
  <2>1. CASE calls' = calls BY <2>1 DEF Sent
  <2>2. ASSUME NEW m \in Calls, calls' = Append(calls, m), m.method # "TakeResult"
        PROVE  /\ \A s : Sent("TakeResult", s)' <=> Sent("TakeResult", s)
               /\ \A i \in 1..Len(calls') : calls'[i].method = "TakeResult" =>
                    i \in 1..Len(calls) /\ calls'[i] = calls[i]
    <3>1. /\ Len(calls) \in Nat /\ Len(calls') = Len(calls) + 1
          /\ \A i \in 1..Len(calls) : i \in 1..Len(calls') /\ calls'[i] = calls[i]
          /\ calls'[Len(calls) + 1] = m
          /\ \A s : Sent("TakeResult", s)' <=> Sent("TakeResult", s)
      BY <2>2, OneMoreCall
    <3> QED BY <2>2, <3>1
  <2> QED BY <2>1, <2>2 DEF Listens
<1>4. \A s \in Sessions, i \in 1..Len(mail') : Answer(i, s)' =>
        i + n \in 1..Len(mail) /\ Answer(i + n, s)
  BY <1>1 DEF Answer
<1>5. \A s \in Sessions : Asked(s)' => Asked(s)
  BY <1>2, <1>3, <1>4 DEF Asked
<1>6. SignalsCoherent' BY HandlingKeepsSignals DEF Listens
<1>7. TakingCoherent'
  <2> SUFFICES ASSUME NEW c \in Contexts, id'[c] # None, phase'[c] = "TakingResult"
               PROVE  /\ Over(id[c])'
                      /\ \A i \in 1..Len(mail') : ~Moves(mail'[i], id'[c])
                      /\ \A i \in 1..Len(tosend[id'[c]]) : ~Moves(tosend[id'[c]][i], id'[c])
    BY DEF TakingCoherent, Moves
  <2>1. id'[c] = id[c] /\ phase[c] = "TakingResult" BY DEF Listens
  <2>2. id[c] \in Sessions BY <2>1, OpenField
  <2>3. /\ Over(id[c])
        /\ \A i \in 1..Len(mail) : ~Moves(mail[i], id[c])
        /\ \A i \in 1..Len(tosend[id[c]]) : ~Moves(tosend[id[c]][i], id[c])
    BY <2>1 DEF TextCoherent, TakingCoherent
  <2>4. Over(id[c])' BY <2>1, <2>2, <2>3
  <2>5. \A i \in 1..Len(mail') : ~Moves(mail'[i], id'[c]) BY <1>1, <2>1, <2>3
  <2> QED BY <2>1, <2>3, <2>4, <2>5
<1>8. AskedOnce'
  <2>1. ASSUME NEW i \in 1..Len(calls'), NEW j \in 1..Len(calls'), i # j,
               calls'[i].method = "TakeResult", calls'[j].method = "TakeResult"
        PROVE  calls'[i].session # calls'[j].session
    <3>1. /\ i \in 1..Len(calls) /\ calls'[i] = calls[i]
          /\ j \in 1..Len(calls) /\ calls'[j] = calls[j]
      BY <1>3, <2>1
    <3> QED BY <2>1, <3>1 DEF TextCoherent, AskedOnce
  <2>2. ASSUME NEW s \in Sessions, NEW i \in 1..Len(mail'), Answer(i, s)'
        PROVE  /\ ~Sent("TakeResult", s)'
               /\ \A j \in 1..Len(mail') : Answer(j, s)' => i = j
    <3>1. i + n \in 1..Len(mail) /\ Answer(i + n, s) BY <1>4, <2>2
    <3>2. ~Sent("TakeResult", s)' BY <1>3, <3>1 DEF TextCoherent, AskedOnce
    <3>3. ASSUME NEW j \in 1..Len(mail'), Answer(j, s)' PROVE i = j
      <4>1. j + n \in 1..Len(mail) /\ Answer(j + n, s) BY <1>4, <3>3
      <4>2. i + n = j + n BY <3>1, <4>1 DEF TextCoherent, AskedOnce
      <4> QED BY <4>2
    <3> QED BY <3>2, <3>3
  <2> QED BY <2>1, <2>2 DEF AskedOnce, Answer
<1>9. SlotCoherent'
  BY DEF TextCoherent, SlotCoherent, Listens
<1>10. AskedCoherent'
  <2> SUFFICES ASSUME NEW c \in Contexts, id'[c] # None, Asked(id[c])'
               PROVE  /\ phase'[c] = "TakingResult"
                      /\ pending'[c].method = "TakeResult" /\ pending'[c].session = id'[c]
                      /\ \A i \in 1..Len(calls') :
                           calls'[i].method = "TakeResult" /\ calls'[i].session = id'[c] =>
                             calls'[i] = pending'[c]
                      /\ id'[c] \in handed' =>
                           \E i \in 1..Len(mail') : mail'[i] = Reply(pending'[c], "ok")
    BY DEF AskedCoherent, Reply
  <2>1. id'[c] = id[c] BY DEF Listens
  <2>2. id[c] \in Sessions BY <2>1, OpenField
  <2>3. Asked(id[c]) BY <1>5, <2>1, <2>2
  <2>4. /\ phase'[c] = phase[c] /\ pending'[c] = pending[c]
        /\ mail' = mail \/ Head(mail) # Reply(pending[c], "ok")
    BY <2>1, <2>3 DEF Listens
  <2>5. /\ phase[c] = "TakingResult"
        /\ pending[c].method = "TakeResult" /\ pending[c].session = id[c]
        /\ \A i \in 1..Len(calls) :
             calls[i].method = "TakeResult" /\ calls[i].session = id[c] =>
               calls[i] = pending[c]
        /\ id[c] \in handed =>
             \E i \in 1..Len(mail) : mail[i] = Reply(pending[c], "ok")
    BY <2>1, <2>3 DEF TextCoherent, AskedCoherent
  <2>6. \A i \in 1..Len(calls') :
          calls'[i].method = "TakeResult" /\ calls'[i].session = id'[c] =>
            calls'[i] = pending'[c]
    BY <1>3, <2>1, <2>4, <2>5
  <2>7. ASSUME id'[c] \in handed'
        PROVE  \E i \in 1..Len(mail') : mail'[i] = Reply(pending'[c], "ok")
    <3>1. PICK i \in 1..Len(mail) : mail[i] = Reply(pending[c], "ok")
      BY <1>2, <2>1, <2>5, <2>7
    <3>2. i \in n + 1..Len(mail)
      <4>1. CASE n = 0 BY <4>1
      <4>2. CASE n = 1
        <5>1. mail' # mail /\ mail # <<>> BY <1>1, <4>2 DEF Listens, Handled
        <5>2. Head(mail) = mail[1] BY <5>1 DEF AddonInv, AddonTypeOK
        <5>3. i # 1 BY <2>4, <3>1, <5>1, <5>2
        <5> QED BY <4>2, <5>3
      <4> QED BY <4>1, <4>2
    <3>3. i - n \in 1..Len(mail') /\ mail[i] = mail'[i - n] BY <1>1, <3>2
    <3> QED BY <2>4, <3>1, <3>3
  <2> QED BY <2>1, <2>4, <2>5, <2>6, <2>7
<1>11. EndedCoherent'
  BY <1>5 DEF TextCoherent, EndedCoherent, Listens
<1> QED BY <1>6, <1>7, <1>8, <1>9, <1>10, <1>11 DEF TextCoherent

\* Without a TakeResult on its way anew no other session is asked for.
LEMMA AskedNotMore ==
  ASSUME AddonInv, Handled, handed' = handed, NEW s,
         \/ calls' = calls
         \/ \E m \in Calls :
              calls' = Append(calls, m) /\ (m.method = "TakeResult" => m.session = s)
  PROVE  \A t \in Sessions : t # s /\ Asked(t)' => Asked(t)
<1> TAKE t \in Sessions
<1>1. ASSUME t # s, Sent("TakeResult", t)' PROVE Sent("TakeResult", t)
  <2>1. CASE calls' = calls BY <1>1, <2>1 DEF Sent
  <2>2. ASSUME NEW m \in Calls, calls' = Append(calls, m),
               m.method = "TakeResult" => m.session = s
        PROVE  Sent("TakeResult", t)
    BY <1>1, <2>2, OneMoreCall
  <2> QED BY <2>1, <2>2
<1>2. ASSUME NEW i \in 1..Len(mail'), Answer(i, t)'
      PROVE  \E j \in 1..Len(mail) : Answer(j, t)
  BY <1>2, OneMessageLess DEF Answer
<1> QED BY <1>1, <1>2 DEF Asked

\* A step that closes the session of a field says why, or it was not asked for.
LEMMA EndingListens ==
  ASSUME TextInv, NEW c \in Contexts, Handled, mail' = mail \/ id[c] # None,
         origin' = origin, handed' = handed,
         \/ calls' = calls
         \/ \E m \in Calls : calls' = Append(calls, m) /\ m.method # "TakeResult",
         id' = [id EXCEPT ![c] = None],
         \A d \in Contexts : pending'[d] \in {pending[d], NoCall},
         \A d \in Contexts : d # c =>
           phase'[d] = phase[d] /\ pending'[d] = pending[d],
         \A s \in Sessions : s # id[c] =>
           fate'[s] = fate[s] /\ committed'[s] = committed[s],
         \A s \in Sessions : s = id[c] =>
           fate'[s] # "open" \/ committed'[s] # None \/ ~Asked(s)'
  PROVE  Listens
<1> USE DEF TextInv, CallsInv
<1>1. id \in [Contexts -> Sessions \cup {None}] BY DEF AddonInv, AddonTypeOK
<1>2. ASSUME NEW d \in Contexts, id'[d] # None
      PROVE  /\ id'[d] = id[d]
             /\ phase'[d] = phase[d] /\ pending'[d] = pending[d] /\ mail' = mail
  <2>1. d # c /\ id'[d] = id[d] BY <1>1, <1>2
  <2>2. id[c] = None BY <1>2, <2>1, OpenField
  <2> QED BY <2>1, <2>2
<1>3. ASSUME NEW s \in Sessions, s # id[c], ~Open(s)' PROVE ~Open(s)
  BY <1>1, <1>3 DEF Open
<1> QED BY <1>2, <1>3 DEF Listens

\* A step that keeps the sessions of the fields.
LEMMA StayingListens ==
  ASSUME TextInv, Handled, UNCHANGED <<id, history>>,
         \/ calls' = calls
         \/ \E m \in Calls : calls' = Append(calls, m) /\ m.method # "TakeResult",
         \A c \in Contexts :
           /\ \/ pending'[c] \in {pending[c], NoCall}
              \/ origin[pending'[c].session] = c
           /\ id[c] # None =>
                /\ phase'[c] = phase[c] \/ phase'[c] # "TakingResult"
                /\ Asked(id[c]) =>
                     /\ phase'[c] = phase[c] /\ pending'[c] = pending[c]
                     /\ mail' = mail \/ Head(mail) # Reply(pending[c], "ok")
  PROVE  Listens
BY DEF Listens, history, Open

\* cancel says nothing of a text.
LEMMA CancelEnds ==
  ASSUME AddonInv, NEW c \in Contexts, id[c] # None, Cancel(c)
  PROVE  /\ id' = [id EXCEPT ![c] = None]
         /\ \A d \in Contexts : d # c => phase'[d] = phase[d]
         /\ \E m \in Calls : calls' = Append(calls, m) /\ m.method # "TakeResult"
<1> DEFINE m == [method |-> "Cancel", session |-> id[c], serial |-> 0]
<1>1. m \in Calls /\ m.method # "TakeResult" BY OpenField DEF Calls, Methods
<1>2. calls' = Append(calls, m) BY DEF Cancel, Send
<1> HIDE DEF m
<1>3. /\ id' = [id EXCEPT ![c] = None] /\ phase' = [phase EXCEPT ![c] = "Idle"]
  BY DEF Cancel, ClearSession
<1> QED BY <1>1, <1>2, <1>3 DEF AddonInv, AddonTypeOK

\* The user ends or gives up sessions and asks for no text
\* (natsutypeless.cpp:161-174, 237-266, 321-363).
LEMMA UserListens ==
  ASSUME TextInv, handed' = handed, NEW c \in Contexts,
         KeyEnd(c) \/ KeyEscape(c) \/ FocusOut(c) \/ FocusIn(c) \/ Destroyed(c)
  PROVE  Listens
<1> USE DEF TextInv, CallsInv
<1>1. /\ pending \in [Contexts -> Calls \cup {NoCall}]
      /\ phase \in [Contexts -> Phases] /\ id \in [Contexts -> Sessions \cup {None}]
  BY DEF AddonInv, AddonTypeOK
<1>2. CASE KeyEnd(c)
  <2>1. id[c] # None BY <1>2 DEF KeyEnd, AddonInv, SessionsAgree
  <2>2. /\ id[c] \in Sessions /\ origin[id[c]] = c
        /\ \A d \in Contexts : d # c => id[d] = None
    BY <2>1, OpenField DEF AddonInv, OwnSession
  <2> DEFINE m == [method |-> "End", session |-> id[c], serial |-> serial[id[c]] + 1]
  <2>3. m \in Calls /\ m.method # "TakeResult" /\ m.session = id[c]
    BY <2>2 DEF Calls, Methods, AddonInv, AddonTypeOK
  <2>4. /\ calls' = Append(calls, m) /\ pending' = [pending EXCEPT ![c] = m]
        /\ phase' = [phase EXCEPT ![c] = "Transcribing"]
        /\ phase[c] \in {"Starting", "Recording"}
        /\ UNCHANGED <<id, history>> /\ mail' = mail
    BY <1>2 DEF KeyEnd, CallAsync, Send
  <2> HIDE DEF m
  <2>5. ~Asked(id[c]) BY <2>1, <2>4 DEF TextCoherent, AskedCoherent
  <2>6. \A d \in Contexts :
          /\ pending'[d] = pending[d] \/ origin[pending'[d].session] = d
          /\ id[d] # None => phase'[d] # "TakingResult" /\ ~Asked(id[d])
    BY <1>1, <2>2, <2>3, <2>4, <2>5
  <2> QED BY <2>3, <2>4, <2>6, StayingListens DEF Handled
<1>3. CASE KeyEscape(c) \/ FocusOut(c)
  <2>1. /\ GiveUp(c) /\ UNCHANGED <<slots, mail, origin, committed>>
    BY <1>3 DEF KeyEscape, FocusOut
  <2>2. CASE phase[c] = "Idle"
    BY <2>1, <2>2, StayingListens DEF GiveUp, Handled, history, slots
  <2>3. CASE phase[c] # "Idle"
    <3>1. id[c] # None BY <2>3 DEF AddonInv, SessionsAgree
    <3>2. Cancel(c) /\ Ends(c, "given_up") BY <2>1, <2>3 DEF GiveUp
    <3>3. /\ id' = [id EXCEPT ![c] = None]
          /\ \A d \in Contexts : d # c => phase'[d] = phase[d]
          /\ \E m \in Calls : calls' = Append(calls, m) /\ m.method # "TakeResult"
      BY <3>1, <3>2, CancelEnds
    <3>4. \A s \in Sessions :
            IF s = id[c] THEN fate'[s] = "given_up" ELSE fate'[s] = fate[s]
      BY <3>2 DEF Ends
    <3> QED BY <2>1, <3>3, <3>4, EndingListens DEF Handled, slots
  <2> QED BY <2>2, <2>3
<1>4. CASE FocusIn(c)
  BY <1>4, StayingListens DEF FocusIn, Handled, slots
<1>5. CASE Destroyed(c)
  <2>1. /\ id' = [id EXCEPT ![c] = None] /\ phase' = [phase EXCEPT ![c] = "Idle"]
        /\ pending' = [pending EXCEPT ![c] = NoCall]
        /\ UNCHANGED <<calls, mail, origin, committed>>
        /\ \A s \in Sessions :
             IF s = id[c] THEN fate'[s] = "given_up" ELSE fate'[s] = fate[s]
    BY <1>5 DEF Destroyed, Ends
  <2>2. \A d \in Contexts :
          /\ pending'[d] \in {pending[d], NoCall}
          /\ d # c => phase'[d] = phase[d] /\ pending'[d] = pending[d]
    BY <1>1, <2>1
  <2> QED BY <2>1, <2>2, EndingListens DEF Handled
<1> QED BY <1>2, <1>3, <1>4, <1>5

\* The first message is not one of those behind it.
LEMMA HeadOfMail ==
  ASSUME AddonInv, mail # <<>>
  PROVE  /\ Head(mail) \in Mail /\ Head(mail) = mail[1] /\ 1 \in 1..Len(mail)
         /\ Head(mail).session \in Sessions
<1>1. mail \in Seq(Mail) BY DEF AddonInv, AddonTypeOK
<1>2. Head(mail) \in Mail /\ Head(mail) = mail[1] /\ 1 \in 1..Len(mail)
  BY <1>1, HeadTailProperties
<1> QED BY <1>2 DEF Mail

\* takeResult asks for the text of the session of the field, for the first time
\* (natsutypeless.cpp:441-465).
Asking(c) ==
  /\ id[c] # None /\ phase[c] # "TakingResult"
  /\ mail # <<>> /\ Asks(Head(mail), id[c]) /\ mail' = Tail(mail)
  /\ phase' = [phase EXCEPT ![c] = "TakingResult"]
  /\ CallAsync(c, "TakeResult", id[c])
  /\ UNCHANGED <<id, history>>

\* A signal is listened to, or it makes the addon ask for the text: while the
\* text is waited for, no signal moves the phase back.
LEMMA SignalListens ==
  ASSUME TextInv, handed' = handed, StateSignal \/ ResultSignal
  PROVE  Listens \/ \E c \in Contexts : Asking(c)
<1> USE DEF TextInv, CallsInv
<1> DEFINE m == Head(mail)
<1> DEFINE s == m.session
<1> DEFINE c == sessions[s]
<1>1. mail # <<>> /\ mail' = Tail(mail) /\ m.kind \in {"StateChanged", "ResultReady"}
  BY DEF StateSignal, ResultSignal, Arrives
<1>2. s \in Sessions /\ m = mail[1] /\ 1 \in 1..Len(mail) BY <1>1, HeadOfMail
<1>3. c \in Contexts \cup {None} BY <1>2 DEF AddonInv, AddonTypeOK
<1>4. UNCHANGED <<origin, committed>> BY DEF StateSignal, ResultSignal, history
<1>5. /\ id \in [Contexts -> Sessions \cup {None}] /\ None \notin contexts
      /\ phase \in [Contexts -> Phases]
      /\ pending \in [Contexts -> Calls \cup {NoCall}]
  BY AddonAssumption DEF AddonInv, AddonTypeOK
<1>6. \A d \in Contexts : m # Reply(pending[d], "ok")
  BY <1>1, <1>5 DEF Reply, Calls, NoCall, Methods
<1>7. Handled BY <1>1 DEF Handled
<1>8. ASSUME UNCHANGED <<phase, id, slots, calls, fate>> PROVE Listens
  BY <1>4, <1>6, <1>7, <1>8, StayingListens DEF history, slots
<1>9. ASSUME c \in contexts PROVE c \in Contexts /\ id[c] = s /\ id[c] # None
  BY <1>2, <1>3, <1>5, <1>9, AddonAssumption DEF AddonInv, SessionsAgree
<1>10. ASSUME NEW p, c \in contexts, TakeResult(c, s, p), UNCHANGED fate,
              p = "TakingResult" \/ phase[c] # "TakingResult", Asks(m, s)
       PROVE  Listens \/ Asking(c)
  <2>1. c \in Contexts /\ id[c] = s /\ id[c] # None /\ focus = c
    BY <1>9, <1>10, OpenField
  <2>2. CASE p = "TakingResult"
    BY <1>8, <1>10, <2>1, <2>2 DEF TakeResult, Ignored
  <2>3. CASE p # "TakingResult"
    BY <1>1, <1>4, <1>10, <2>1, <2>3 DEF TakeResult, Asking, history
  <2> QED BY <2>2, <2>3
<1>11. CASE ResultSignal
  <2>1. Asks(m, s) BY <1>11 DEF ResultSignal, Arrives, Asks
  <2>2. CASE c \in contexts
    <3>1. TakeResult(c, s, phase[c]) /\ UNCHANGED fate
      BY <1>11, <2>2 DEF ResultSignal, history
    <3> QED BY <1>9, <1>10, <2>1, <2>2, <3>1
  <2>3. CASE c \notin contexts
    BY <1>8, <1>11, <2>3 DEF ResultSignal, Dropped, history
  <2> QED BY <2>2, <2>3
<1>12. CASE StateSignal
  <2>1. CASE c \notin contexts
    BY <1>8, <1>12, <2>1 DEF StateSignal, Dropped
  <2>2. CASE c \in contexts
    <3>1. c \in Contexts /\ id[c] = s /\ id[c] # None BY <1>9, <2>2
    <3>2. HandleState(c, s, m.value) BY <1>12, <2>2, <3>1 DEF StateSignal
    <3>3. ASSUME phase[c] # "TakingResult" PROVE ~Asked(id[c])
      BY <3>1, <3>3 DEF TextCoherent, AskedCoherent
    <3>4. ASSUME Moves(m, s) PROVE phase[c] # "TakingResult"
      BY <1>2, <3>1, <3>4 DEF TextCoherent, TakingCoherent
    <3>5. m.kind = "StateChanged" BY <1>12 DEF StateSignal, Arrives
    <3>6. ASSUME m.value \in DOMAIN Shown,
                 phase' = [phase EXCEPT ![c] = Shown[m.value]],
                 UNCHANGED <<id, slots, sessions, calls, fate>>
          PROVE  Listens
      <4>1. m.value \in {"recording", "transcribing", "polishing"}
            /\ Shown[m.value] # "TakingResult"
        BY <3>6 DEF Shown
      <4>2. ~Asked(id[c]) BY <3>3, <3>4, <3>5, <4>1 DEF Moves
      <4>3. \A d \in Contexts : d # c => id[d] = None BY <3>1, OpenField
      <4> HIDE DEF m, s, c
      <4> QED
        BY <1>4, <1>5, <1>6, <1>7, <3>6, <4>1, <4>2, <4>3, StayingListens
           DEF history, slots
    <3>7. ASSUME m.value = "result_ready", TakeResult(c, s, "ResultReady"),
                 UNCHANGED fate
          PROVE  Listens \/ Asking(c)
      <4>1. Moves(m, s) /\ Asks(m, s) BY <3>5, <3>7 DEF Moves, Asks
      <4> QED BY <1>10, <2>2, <3>4, <3>7, <4>1
    <3>8. ASSUME phase[c] # "TakingResult", ClearSession(c),
                 UNCHANGED <<slots, calls, fate>>
          PROVE  Listens
      <4>1. /\ id' = [id EXCEPT ![c] = None] /\ phase' = [phase EXCEPT ![c] = "Idle"]
            /\ calls' = calls /\ pending' = pending /\ fate' = fate
        BY <3>8 DEF ClearSession, slots
      <4>2. ~Asked(id[c]) BY <3>3, <3>8
      <4> HIDE DEF m, s, c
      <4>3. \A t \in Sessions : Asked(t)' => Asked(t)
        BY <1>7, <4>1, AskedNotMore, AddonAssumption
      <4>4. \A t \in Sessions : t = id[c] => ~Asked(t)' BY <4>2, <4>3
      <4> QED BY <1>4, <1>5, <1>7, <3>1, <4>1, <4>4, EndingListens
    <3>9. ASSUME Cancel(c), Ends(c, "failed"), UNCHANGED slots PROVE Listens
      <4>1. /\ id' = [id EXCEPT ![c] = None]
            /\ \A d \in Contexts : d # c => phase'[d] = phase[d]
            /\ \E n \in Calls : calls' = Append(calls, n) /\ n.method # "TakeResult"
        BY <3>1, <3>9, CancelEnds
      <4>2. \A t \in Sessions :
              IF t = id[c] THEN fate'[t] = "failed" ELSE fate'[t] = fate[t]
        BY <3>9 DEF Ends
      <4> HIDE DEF m, s, c
      <4> QED BY <1>4, <1>7, <3>1, <3>9, <4>1, <4>2, EndingListens DEF slots
    <3> QED BY <3>1, <3>2, <3>6, <3>7, <3>8, <3>9, <1>8 DEF HandleState, Ignored
  <2> QED BY <2>1, <2>2
<1> QED BY <1>11, <1>12

\* A callback that closes its session gives the text, shows an error, or is of a
\* call before the text was asked for (natsutypeless.cpp:305-318,
\* 336-349, 465-496).
LEMMA AnswerListens ==
  ASSUME TextInv, Handled, handed' = handed, NEW c \in Contexts,
         pending[c] # NoCall, NEW outcome,
         Answered(c, pending[c].method, pending[c].session, outcome),
         UNCHANGED <<focus, origin>>,
         \A s \in Sessions : s # id[c] => fate'[s] = fate[s],
         pending[c].session # id[c] => fate' = fate,
         \/ mail' = mail /\ outcome = "error"
              /\ \A s \in Sessions :
                   s = id[c] /\ pending[c].session = s => fate'[s] = "timed_out"
         \/ mail # <<>> /\ mail' = Tail(mail) /\ fate' = fate
              /\ Head(mail) = Reply(pending[c], outcome)
  PROVE  Listens
<1> USE DEF TextInv, CallsInv
<1> DEFINE s == pending[c].session
<1> DEFINE method == pending[c].method
<1>1. /\ id \in [Contexts -> Sessions \cup {None}]
      /\ phase \in [Contexts -> Phases]
      /\ pending \in [Contexts -> Calls \cup {NoCall}]
      /\ committed \in [Sessions -> Contexts \cup {None}]
  BY DEF AddonInv, AddonTypeOK
<1>2. s \in Sessions /\ method \in Methods /\ origin[s] = c /\ s # None
  BY <1>1, AddonAssumption DEF TextCoherent, SlotCoherent, Calls
<1>3. pending' = [pending EXCEPT ![c] = NoCall] BY DEF Answered
<1>4. CASE id[c] # s \/ (method # "TakeResult" /\ outcome = "ok")
  <2>1. UNCHANGED <<phase, id, calls, committed>> BY <1>4 DEF Answered
  <2>2. fate' = fate
    <3>1. CASE mail' = mail /\ outcome = "error" BY <1>4, <3>1
    <3>2. CASE fate' = fate BY <3>2
    <3> QED BY <3>1, <3>2
  <2>3. ASSUME Asked(id[c]), id[c] # None PROVE FALSE
    BY <1>4, <2>3 DEF TextCoherent, AskedCoherent
  <2>4. ASSUME NEW d \in Contexts, d # c, id[d] # None
        PROVE  mail' = mail \/ Head(mail) # Reply(pending[d], "ok")
    <3>1. ASSUME Head(mail) = Reply(pending[c], outcome),
                 Head(mail) = Reply(pending[d], "ok")
          PROVE  FALSE
      <4>1. pending[d].session = s /\ pending[d].method = method
        BY <3>1 DEF Reply
      <4>2. pending[d] # NoCall BY <1>2, <4>1 DEF NoCall
      <4>3. origin[s] = d BY <4>1, <4>2 DEF TextCoherent, SlotCoherent
      <4> QED BY <1>2, <2>4, <4>3
    <3> QED BY <3>1
  <2>5. \A d \in Contexts :
          /\ pending'[d] \in {pending[d], NoCall}
          /\ d # c => pending'[d] = pending[d]
    BY <1>1, <1>3
  <2> HIDE DEF s, method
  <2> QED BY <2>1, <2>2, <2>3, <2>4, <2>5, StayingListens DEF history
<1>5. CASE id[c] = s /\ (method = "TakeResult" \/ outcome # "ok")
  <2>1. id[c] # None /\ focus = c BY <1>2, <1>5, OpenField
  <2>2. CASE method # "TakeResult"
    <3>1. ~Asked(id[c]) BY <2>1, <2>2 DEF TextCoherent, AskedCoherent
    <3>2. /\ id' = [id EXCEPT ![c] = None] /\ committed' = committed
          /\ \A d \in Contexts : d # c => phase'[d] = phase[d]
          /\ \/ calls' = calls
             \/ \E m \in Calls : calls' = Append(calls, m) /\ m.method # "TakeResult"
      <4>1. CASE method = "End"
        <5>1. Cancel(c) /\ committed' = committed BY <1>5, <2>2, <4>1 DEF Answered
        <5> QED BY <2>1, <5>1, CancelEnds
      <4>2. CASE method # "End"
        <5>1. ClearSession(c) /\ committed' = committed /\ calls' = calls
          BY <1>5, <2>2, <4>2 DEF Answered
        <5> QED BY <1>1, <5>1 DEF ClearSession
      <4> QED BY <4>1, <4>2
    <3>3. \A t \in Sessions : Asked(t)' => Asked(t)
      <4> HIDE DEF s, method
      <4> QED BY <3>2, AskedNotMore, AddonAssumption
    <3>4. \A t \in Sessions : t = id[c] => ~Asked(t)' BY <3>1, <3>3
    <3>5. \A d \in Contexts :
            /\ pending'[d] \in {pending[d], NoCall}
            /\ d # c => pending'[d] = pending[d]
      BY <1>1, <1>3
    <3> HIDE DEF s, method
    <3> QED BY <2>1, <3>2, <3>4, <3>5, EndingListens
  <2>3. CASE method = "TakeResult"
    <3>1. /\ id' = [id EXCEPT ![c] = None] /\ phase' = [phase EXCEPT ![c] = "Idle"]
          /\ calls' = calls
          /\ committed' = IF outcome = "ok" /\ focus = c
                          THEN [committed EXCEPT ![s] = c] ELSE committed
      BY <1>5, <2>3 DEF Answered, ClearSession
    <3>2. \A d \in Contexts :
            /\ pending'[d] \in {pending[d], NoCall}
            /\ d # c => phase'[d] = phase[d] /\ pending'[d] = pending[d]
      BY <1>1, <1>3, <3>1
    <3>3. \A t \in Sessions : t # id[c] => committed'[t] = committed[t]
      BY <1>1, <1>5, <3>1
    <3>4. ASSUME outcome # "ok", mail # <<>>, mail' = Tail(mail),
                 Head(mail) = Reply(pending[c], outcome)
          PROVE  \A t \in Sessions : t = s => ~Asked(t)'
      <4>1. Answer(1, s) /\ 1 \in 1..Len(mail) /\ mail[1].value = outcome
        BY <2>3, <3>4, HeadOfMail DEF Answer, Reply
      <4>2. ~Sent("TakeResult", s) /\ \A j \in 1..Len(mail) : Answer(j, s) => j = 1
        BY <1>2, <4>1 DEF TextCoherent, AskedOnce
      <4>3. s \notin handed
        <5> SUFFICES ASSUME s \in handed PROVE FALSE
          OBVIOUS
        <5>1. PICK i \in 1..Len(mail) : mail[i] = Reply(pending[c], "ok")
          BY <1>5, <2>1 DEF TextCoherent, AskedCoherent, Asked
        <5>2. Answer(i, s) /\ mail[i].value = "ok" BY <2>3, <5>1 DEF Answer, Reply
        <5> QED BY <3>4, <4>1, <4>2, <5>2
      <4>4. \A j \in 1..Len(mail') : j + 1 \in 1..Len(mail) /\ mail'[j] = mail[j + 1]
        <5>1. mail \in Seq(Mail) BY DEF AddonInv, AddonTypeOK
        <5> QED BY <3>4, <5>1, HeadTailProperties
      <4>5. ASSUME NEW t \in Sessions, t = s, NEW j \in 1..Len(mail'), Answer(j, t)'
            PROVE  FALSE
        <5>1. Answer(j + 1, s) BY <4>4, <4>5 DEF Answer
        <5>2. j + 1 = 1 BY <4>2, <4>4, <5>1
        <5> QED BY <5>2
      <4>6. \A t \in Sessions : t = s => ~Sent("TakeResult", t)'
        BY <3>1, <4>2 DEF Sent
      <4> QED BY <4>3, <4>5, <4>6 DEF Asked
    <3>5. \A t \in Sessions : t = id[c] =>
            fate'[t] # "open" \/ committed'[t] # None \/ ~Asked(t)'
      <4>1. CASE outcome = "ok"
        <5>1. c # None BY AddonAssumption
        <5> QED BY <1>1, <1>5, <2>1, <3>1, <4>1, <5>1
      <4>2. CASE outcome # "ok" /\ mail # <<>> /\ mail' = Tail(mail)
                  /\ Head(mail) = Reply(pending[c], outcome)
        <5>1. \A t \in Sessions : t = s => ~Asked(t)' BY <3>4, <4>2
        <5> QED BY <1>5, <5>1
      <4>3. CASE \A t \in Sessions :
                   t = id[c] /\ pending[c].session = t => fate'[t] = "timed_out"
        <5>1. \A t \in Sessions : t = s => fate'[t] = "timed_out" BY <1>5, <4>3
        <5> QED BY <1>5, <5>1
      <4> QED BY <4>1, <4>2, <4>3
    <3> HIDE DEF s, method
    <3> QED BY <2>1, <3>1, <3>2, <3>3, <3>5, EndingListens
  <2> QED BY <2>2, <2>3
<1> QED BY <1>4, <1>5

\* A reply finds the callback of its own call, for a slot is of a session begun in
\* its field.
LEMMA ReplyListens ==
  ASSUME TextInv, handed' = handed,
         ReplyArrives \/ \E c \in Contexts : CallTimesOut(c)
  PROVE  Listens
<1> USE DEF TextInv, CallsInv
<1>1. CASE ReplyArrives
  <2> DEFINE m == Head(mail)
  <2>1. /\ mail # <<>> /\ mail' = Tail(mail) /\ m.kind \in Methods
        /\ UNCHANGED <<focus, origin, fate>>
    BY <1>1 DEF ReplyArrives
  <2>2. CASE (\A c \in contexts : ~Awaits(c, m)) /\ Ignored /\ UNCHANGED committed
    <3>1. ASSUME NEW c \in Contexts, id[c] # None PROVE m # Reply(pending[c], "ok")
      <4>1. ~Awaits(c, m) BY <2>2, <3>1, OpenField
      <4> QED BY <4>1 DEF Awaits, Reply
    <3> QED
      BY <2>1, <2>2, <3>1, StayingListens DEF Ignored, slots, history, Handled
  <2>3. ASSUME NEW c \in contexts, Awaits(c, m), Answered(c, m.kind, m.session, m.value)
        PROVE  Listens
    <3>1. c \in Contexts BY DEF AddonInv, AddonTypeOK
    <3>2. m = Reply(pending[c], m.value) BY <2>3 DEF Awaits
    <3>3. m.kind = pending[c].method /\ m.session = pending[c].session
      BY <3>2 DEF Reply
    <3>4. pending[c] # NoCall BY <2>1, <3>3 DEF NoCall, Methods
    <3>5. Answered(c, pending[c].method, pending[c].session, m.value)
      BY <2>3, <3>3
    <3> QED BY <2>1, <3>1, <3>2, <3>4, <3>5, AnswerListens DEF Handled
  <2> QED BY <1>1, <2>2, <2>3 DEF ReplyArrives
<1>2. ASSUME NEW c \in Contexts, CallTimesOut(c) PROVE Listens
  <2>1. /\ pending[c].session \in Slow
        /\ IF pending[c].session = id[c] THEN Ends(c, "timed_out") ELSE UNCHANGED fate
        /\ Answered(c, pending[c].method, pending[c].session, "error")
        /\ UNCHANGED <<focus, mail, origin>>
    BY <1>2 DEF CallTimesOut
  <2>2. pending[c] # NoCall BY <2>1, AddonAssumption DEF NoCall
  <2>3. \A s \in Sessions :
          /\ s # id[c] => fate'[s] = fate[s]
          /\ s = id[c] /\ pending[c].session = s => fate'[s] = "timed_out"
    BY <2>1 DEF Ends
  <2> QED BY <2>1, <2>2, <2>3, AnswerListens DEF Handled
<1> QED BY <1>1, <1>2

\* The one call for the text: the daemon has no more to say of the session, and
\* nothing was asked before.
LEMMA AskingKeepsText ==
  ASSUME TextInv, NEW c \in Contexts, Asking(c), UNCHANGED <<daemonVars, tosend, handed>>,
         \A s \in Sessions : Over(s) => Over(s)'
  PROVE  TextCoherent'
<1> USE DEF TextInv, CallsInv
<1>1. /\ id[c] \in Sessions /\ origin[id[c]] = c
      /\ \A d \in Contexts : d # c => id[d] = None
  BY OpenField DEF Asking, AddonInv, OwnSession
<1>2. PICK s \in Sessions : s = id[c] BY <1>1
<1> DEFINE m == [method |-> "TakeResult", session |-> s, serial |-> serial[s] + 1]
<1>3. m \in Calls /\ m.method = "TakeResult" /\ m.session = s
  BY DEF Calls, Methods, AddonInv, AddonTypeOK
<1>4. /\ calls' = Append(calls, m) /\ pending' = [pending EXCEPT ![c] = m]
      /\ phase' = [phase EXCEPT ![c] = "TakingResult"]
      /\ id' = id /\ origin' = origin /\ fate' = fate /\ committed' = committed
      /\ mail # <<>> /\ mail' = Tail(mail) /\ Asks(Head(mail), s)
      /\ phase[c] # "TakingResult" /\ handed' = handed /\ tosend' = tosend
  BY <1>2 DEF Asking, CallAsync, Send, history, daemonVars
<1> HIDE DEF m
<1>5. ~Asked(s) BY <1>1, <1>2, <1>4, AddonAssumption DEF TextCoherent, AskedCoherent
<1>6. \A t \in Sessions : t # s /\ Asked(t)' => Asked(t)
  BY <1>3, <1>4, AskedNotMore DEF Handled
<1>7. SignalsCoherent' BY <1>4, HandlingKeepsSignals DEF Handled
<1>8. /\ Len(calls) \in Nat /\ Len(calls') = Len(calls) + 1
      /\ \A i \in 1..Len(calls) : i \in 1..Len(calls') /\ calls'[i] = calls[i]
      /\ calls'[Len(calls) + 1] = m
      /\ \A t : Sent("TakeResult", t)' <=> Sent("TakeResult", t) \/ t = s
  BY <1>3, <1>4, OneMoreCall
<1>9. /\ Len(mail) \in Nat
      /\ \A i \in 1..Len(mail') : i + 1 \in 1..Len(mail) /\ mail'[i] = mail[i + 1]
  <2>1. mail \in Seq(Mail) BY DEF AddonInv, AddonTypeOK
  <2> QED BY <1>4, <2>1, HeadTailProperties
<1>10. TakingCoherent'
  <2>1. Asks(mail[1], s) /\ 1 \in 1..Len(mail) BY <1>4, HeadOfMail
  <2>2. /\ Over(s)
        /\ \A j \in 1 + 1..Len(mail) : ~Moves(mail[j], s)
        /\ \A j \in 1..Len(tosend[s]) : ~Moves(tosend[s][j], s)
    BY <2>1 DEF TextCoherent, SignalsCoherent
  <2>3. \A i \in 1..Len(mail') : ~Moves(mail'[i], s)
    <3> TAKE i \in 1..Len(mail')
    <3>1. i + 1 \in 1 + 1..Len(mail) /\ mail'[i] = mail[i + 1] BY <1>9
    <3> QED BY <2>2, <3>1
  <2> SUFFICES ASSUME NEW d \in Contexts, id'[d] # None, phase'[d] = "TakingResult"
               PROVE  /\ Over(id[d])'
                      /\ \A i \in 1..Len(mail') : ~Moves(mail'[i], id'[d])
                      /\ \A i \in 1..Len(tosend[id'[d]]) : ~Moves(tosend[id'[d]][i], id'[d])
    BY <1>4 DEF TakingCoherent, Moves
  <2>4. id'[d] = s BY <1>1, <1>2, <1>4
  <2>5. Over(id[d])' BY <2>2, <2>4
  <2> QED BY <2>2, <2>3, <2>4, <2>5
<1>11. AskedOnce'
  <2>1. \A i \in 1..Len(calls) : calls[i].method = "TakeResult" => calls[i].session # s
    BY <1>5 DEF Asked, Sent
  <2>2. ASSUME NEW i \in 1..Len(calls'), NEW j \in 1..Len(calls'), i # j,
               calls'[i].method = "TakeResult", calls'[j].method = "TakeResult"
        PROVE  calls'[i].session # calls'[j].session
    <3>1. \A k \in 1..Len(calls') : k \in 1..Len(calls) \/ k = Len(calls) + 1
      BY <1>8
    <3> QED BY <1>3, <1>8, <2>1, <2>2, <3>1 DEF TextCoherent, AskedOnce
  <2>3. ASSUME NEW t \in Sessions, NEW i \in 1..Len(mail'), Answer(i, t)'
        PROVE  /\ ~Sent("TakeResult", t)'
               /\ \A j \in 1..Len(mail') : Answer(j, t)' => i = j
    <3>1. i + 1 \in 1..Len(mail) /\ Answer(i + 1, t) BY <1>9, <2>3 DEF Answer
    <3>2. t # s BY <1>5, <3>1 DEF Asked
    <3>3. ~Sent("TakeResult", t)' BY <1>8, <3>1, <3>2 DEF TextCoherent, AskedOnce
    <3>4. ASSUME NEW j \in 1..Len(mail'), Answer(j, t)' PROVE i = j
      <4>1. j + 1 \in 1..Len(mail) /\ Answer(j + 1, t) BY <1>9, <3>4 DEF Answer
      <4>2. i + 1 = j + 1 BY <3>1, <4>1 DEF TextCoherent, AskedOnce
      <4> QED BY <4>2
    <3> QED BY <3>3, <3>4
  <2> QED BY <2>2, <2>3 DEF AskedOnce, Answer
<1>12. SlotCoherent'
  <2>1. pending \in [Contexts -> Calls \cup {NoCall}] BY DEF AddonInv, AddonTypeOK
  <2> QED BY <1>1, <1>2, <1>3, <1>4, <2>1 DEF TextCoherent, SlotCoherent
<1>13. AskedCoherent'
  <2> SUFFICES ASSUME NEW d \in Contexts, id'[d] # None
               PROVE  /\ phase'[d] = "TakingResult"
                      /\ pending'[d].method = "TakeResult" /\ pending'[d].session = id'[d]
                      /\ \A i \in 1..Len(calls') :
                           calls'[i].method = "TakeResult" /\ calls'[i].session = id'[d] =>
                             calls'[i] = pending'[d]
                      /\ id'[d] \notin handed'
    BY DEF AskedCoherent, Reply
  <2>1. d = c /\ id'[d] = s BY <1>1, <1>2, <1>4
  <2>2. phase'[d] = "TakingResult" /\ pending'[d] = m
    BY <1>4, <2>1 DEF AddonInv, AddonTypeOK
  <2>3. s \notin handed' /\ ~Sent("TakeResult", s) BY <1>4, <1>5 DEF Asked
  <2>4. ASSUME NEW i \in 1..Len(calls'), calls'[i].method = "TakeResult",
               calls'[i].session = s
        PROVE  calls'[i] = m
    <3>1. i \in 1..Len(calls) \/ i = Len(calls) + 1 BY <1>8
    <3> QED BY <1>8, <2>3, <2>4, <3>1 DEF Sent
  <2> QED BY <1>3, <2>1, <2>2, <2>3, <2>4
<1>14. EndedCoherent'
  <2>1. \A t \in Sessions : ~Open(t)' => t # s /\ ~Open(t) BY <1>2, <1>4 DEF Open
  <2> QED BY <1>4, <1>6, <2>1 DEF TextCoherent, EndedCoherent
<1> QED BY <1>7, <1>10, <1>11, <1>12, <1>13, <1>14 DEF TextCoherent

\* A new session was not asked for before.
LEMMA BeginningKeepsText ==
  ASSUME TextInv, NEW c \in Contexts, NEW s \in Sessions, KeyBegin(c, s),
         UNCHANGED <<daemonVars, tosend, handed>>, \A t \in Sessions : Over(t) => Over(t)'
  PROVE  TextCoherent'
<1> USE DEF TextInv, CallsInv
<1> DEFINE m == [method |-> "Begin", session |-> s, serial |-> serial[s] + 1]
<1>1. m \in Calls /\ m.method = "Begin" /\ m.session = s
  BY DEF Calls, Methods, AddonInv, AddonTypeOK
<1>2. /\ calls' = Append(calls, m) /\ pending' = [pending EXCEPT ![c] = m]
      /\ phase' = [phase EXCEPT ![c] = "Starting"] /\ id' = [id EXCEPT ![c] = s]
      /\ focus = c /\ phase[c] = "Idle" /\ origin[s] = None
      /\ origin' = [origin EXCEPT ![s] = c] /\ fate' = fate /\ committed' = committed
      /\ mail' = mail /\ handed' = handed /\ tosend' = tosend
  BY DEF KeyBegin, CallAsync, Send, daemonVars
<1> HIDE DEF m
<1>3. \A d \in Contexts : id[d] = None
  BY <1>2, OpenField DEF AddonInv, SessionsAgree
<1>4. /\ phase \in [Contexts -> Phases] /\ id \in [Contexts -> Sessions \cup {None}]
      /\ pending \in [Contexts -> Calls \cup {NoCall}]
      /\ origin \in [Sessions -> Contexts \cup {None}]
  BY DEF AddonInv, AddonTypeOK
<1>5. \A t \in Sessions : Asked(t)' => Asked(t)
  BY <1>1, <1>2, AskedNotMore, AddonAssumption DEF Handled
<1>6. \A t \in Sessions : ~Open(t) BY <1>3, AddonAssumption DEF Open
<1>7. ~Asked(s)
  BY <1>2, <1>6 DEF AddonInv, OwnSession, TextCoherent, EndedCoherent
<1>8. SignalsCoherent' BY <1>2, HandlingKeepsSignals DEF Handled
<1>9. \A d \in Contexts : id'[d] # None => d = c /\ id'[d] = s BY <1>2, <1>3, <1>4
<1>10. TakingCoherent' BY <1>2, <1>4, <1>9 DEF TakingCoherent
<1>11. AskedOnce'
  <2>1. /\ \A i \in 1..Len(calls') : calls'[i].method = "TakeResult" =>
             i \in 1..Len(calls) /\ calls'[i] = calls[i]
        /\ \A t : Sent("TakeResult", t)' <=> Sent("TakeResult", t)
    <3>1. /\ Len(calls) \in Nat /\ Len(calls') = Len(calls) + 1
          /\ \A i \in 1..Len(calls) : i \in 1..Len(calls') /\ calls'[i] = calls[i]
          /\ calls'[Len(calls) + 1] = m
          /\ \A t : Sent("TakeResult", t)' <=> Sent("TakeResult", t)
      BY <1>1, <1>2, OneMoreCall
    <3>2. \A i \in 1..Len(calls') : i \in 1..Len(calls) \/ i = Len(calls) + 1
      BY <3>1
    <3> QED BY <1>1, <3>1, <3>2
  <2>2. ASSUME NEW i \in 1..Len(calls'), NEW j \in 1..Len(calls'), i # j,
               calls'[i].method = "TakeResult", calls'[j].method = "TakeResult"
        PROVE  calls'[i].session # calls'[j].session
    BY <2>1, <2>2 DEF TextCoherent, AskedOnce
  <2>3. \A t \in Sessions, i \in 1..Len(mail), j \in 1..Len(mail) :
          Answer(i, t)' => ~Sent("TakeResult", t)' /\ (Answer(j, t)' => i = j)
    BY <1>2, <2>1 DEF TextCoherent, AskedOnce, Answer
  <2> QED BY <1>2, <2>2, <2>3 DEF AskedOnce, Answer
<1>12. SlotCoherent'
  <2> SUFFICES ASSUME NEW d \in Contexts, pending'[d] # NoCall
               PROVE  origin'[pending'[d].session] = d
    BY DEF SlotCoherent, NoCall
  <2>1. CASE d = c BY <1>1, <1>2, <1>4, <2>1
  <2>2. CASE d # c
    <3>1. pending'[d] = pending[d] BY <1>2, <1>4, <2>2
    <3>2. origin[pending[d].session] = d /\ d # None
      BY <3>1, AddonAssumption DEF TextCoherent, SlotCoherent
    <3> QED BY <1>2, <1>4, <3>1, <3>2
  <2> QED BY <2>1, <2>2
<1>13. AskedCoherent'
  <2>1. \A t \in Sessions : t = s => ~Asked(t)' BY <1>5, <1>7
  <2> SUFFICES ASSUME NEW d \in Contexts, id'[d] # None, Asked(id[d])' PROVE FALSE
    BY DEF AskedCoherent
  <2>2. id'[d] = s BY <1>9
  <2> QED BY <2>1, <2>2
<1>14. EndedCoherent'
  BY <1>2, <1>5, <1>6 DEF TextCoherent, EndedCoherent
<1> QED BY <1>8, <1>10, <1>11, <1>12, <1>13, <1>14 DEF TextCoherent

\* Nothing is on its way at the start.
LEMMA TextInitially == Init => TextInv
<1> SUFFICES ASSUME Init PROVE TextInv
  OBVIOUS
<1>1. /\ calls = <<>> /\ mail = <<>>
      /\ \A s \in Sessions : tosend[s] = <<>> /\ s \notin handed
      /\ \A c \in Contexts : id[c] = None /\ pending[c] = NoCall
  BY DEF Init, AddonInit, Daemon!Init
<1>2. \A i : i \notin 1..Len(<<>>) OBVIOUS
<1>3. \A s \in Sessions : ~Asked(s) BY <1>1, <1>2 DEF Asked, Sent, Answer
<1>4. SignalsCoherent /\ TakingCoherent /\ AskedOnce
  BY <1>1, <1>2 DEF SignalsCoherent, TakingCoherent, AskedOnce
<1>5. SlotCoherent /\ AskedCoherent /\ EndedCoherent
  BY <1>1, <1>3 DEF SlotCoherent, AskedCoherent, EndedCoherent
<1> QED BY <1>4, <1>5, CallsInitially DEF TextInv, TextCoherent

\* Every step keeps what is known of the texts.
LEMMA TextKept ==
  ASSUME TextInv, PastTypes, [Next]_vars
  PROVE  TextInv'
<1> USE DEF TextInv
<1>1. CallsInv' BY CallsKept
<1>2. \A s \in Sessions : Over(s) => Over(s)' BY OverStays
<1>3. ASSUME AddonStep PROVE TextCoherent'
  <2>1. UNCHANGED <<daemonVars, tosend, handed>>
    BY <1>3 DEF AddonStep, sending, past
  <2>2. CASE \E c \in Contexts, s \in Sessions : KeyBegin(c, s)
    BY <1>2, <2>1, <2>2, BeginningKeepsText
  <2>3. CASE Listens BY <1>2, <2>1, <2>3, ListeningKeepsText
  <2>4. CASE \E c \in Contexts : Asking(c) BY <1>2, <2>1, <2>4, AskingKeepsText
  <2> QED
    BY <1>3, <2>1, <2>2, <2>3, <2>4, UserListens, SignalListens, ReplyListens
       DEF AddonStep, UserStep, BusStep
<1>4. ASSUME DaemonStep PROVE TextCoherent'
  BY <1>2, <1>4, HandlerKeepsText, TasksKeepText DEF DaemonStep
<1>5. ASSUME UNCHANGED vars PROVE TextCoherent'
  <2>1. UNCHANGED <<daemonVars, tosend, handed, fields, history, calls, mail>>
    BY <1>5 DEF vars, addonVars, sending, past, fields, history
  <2>2. Listens BY <2>1, StayingListens DEF Handled, fields
  <2> QED BY <1>2, <2>1, <2>2, ListeningKeepsText
<1> QED BY <1>1, <1>3, <1>4, <1>5 DEF Next

\* What the calls, the signals and the answers on their way promise of the addon
\* and of the daemon holds throughout, whatever dies or times out between: the
\* protocol of dbus.rs:28-142 and natsutypeless.cpp:237-497 as an invariant.
THEOREM ConversationAlways == Spec => []Conversation
<1>1. TextInv => Conversation BY DEF TextInv, CallsInv, Conversation
<1> QED BY <1>1, VoiceInitially, VoiceKept, TextInitially, TextKept, PTL
        DEF Spec, TextInv, CallsInv

\* A text that the daemon handed out, and of which it keeps no copy
\* (pipeline.rs:322-335), is committed to its field or on its way to the callback
\* that waits for it, unless the user gave the session up, was shown an error or
\* waited too long: the text is asked for once though two signals announce it,
\* and no signal, answer or later session closes the session before it comes
\* (natsutypeless.cpp:390-497).
THEOREM HandedOutTextArrives == Spec => []TextReachesField
<1>1. TextInv => TextReachesField
  <2> SUFFICES ASSUME TextInv, NEW s \in Sessions, s \in handed,
                      fate[s] = "open", committed[s] = None
               PROVE  TextExpected(s)
    BY DEF TextReachesField
  <2>1. Asked(s) BY DEF Asked
  <2>2. Open(s) BY <2>1 DEF TextInv, TextCoherent, EndedCoherent
  <2>3. PICK c \in Contexts : id[c] = s BY <2>2 DEF Open
  <2>4. id[c] # None BY <2>3, AddonAssumption
  <2>5. c \in contexts /\ origin[s] = c
    BY <2>3, <2>4, OpenField DEF TextInv, CallsInv, AddonInv, OwnSession
  <2>6. /\ pending[c].method = "TakeResult"
        /\ \E i \in 1..Len(mail) : mail[i] = Reply(pending[c], "ok")
    BY <2>1, <2>3, <2>4 DEF TextInv, TextCoherent, AskedCoherent
  <2> QED BY <2>3, <2>5, <2>6 DEF TextExpected
<1> QED BY <1>1, VoiceInitially, VoiceKept, TextInitially, TextKept, PTL
        DEF Spec, TextInv, CallsInv
-----------------------------------------------------------------------------
\* The daemon that dies starts again idle, with nothing to wait for.
LEMMA DaemonBacked ==
  ASSUME AddonInv, DaemonTypes, Daemon!Coherent, Daemon!PhaseBacked, [Next]_vars
  PROVE  Daemon!PhaseBacked'
<1>1. CASE Dies BY <1>1 DEF Dies, Daemon!PhaseBacked, Daemon!CancelUnderWay
<1>2. CASE [Pipeline!Next]_Pipeline!vars
  <2>1. None \notin Sessions /\ None \notin {Fcitx} /\ MaxEnding \in Nat
    BY AddonAssumption, VoiceAssumption DEF Fcitx
  <2> QED BY <1>2, <2>1, SamePipeline, SamePipelineNext, Pipeline!BackedStep
       DEF DaemonTypes
<1> QED BY <1>1, <1>2, PipelineStep

\* Whatever calls the addon sends, gives up or forgets, no state of the daemon is
\* without what will leave it (pipeline.rs:96-146, 337-383, 394-425): no user
\* is refused by a daemon that waits for nothing.
THEOREM DictationStaysPossible == Spec => []Daemon!PhaseBacked
<1>1. Init => Daemon!PhaseBacked
  BY DEF Init, Daemon!Init, Daemon!PhaseBacked
<1>2. CallsInv /\ Daemon!PhaseBacked /\ [Next]_vars => Daemon!PhaseBacked'
  BY DaemonBacked DEF CallsInv
<1>3. Spec => [](CallsInv /\ Daemon!PhaseBacked)
  BY <1>1, <1>2, VoiceInitially, VoiceKept, CallsInitially, CallsKept, PTL
     DEF Spec, CallsInv
<1> QED BY <1>3, PTL
=============================================================================
