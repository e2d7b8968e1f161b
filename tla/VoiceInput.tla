------------------------------ MODULE VoiceInput ------------------------------
(***************************************************************************)
(* Voice input end to end: the addon (Addon), the session bus and the      *)
(* daemon (DictationPipeline with its D-Bus methods, dbus.rs).             *)
(*                                                                         *)
(* The daemon serves the calls one at a time, in order; what it sends      *)
(* reaches the addon in the order it is sent.  A task that ends a session  *)
(* emits its signals after the critical section they tell of, so that      *)
(* other steps come between: tosend[s].  The daemon may die and is         *)
(* restarted by systemd or D-Bus activation; everything it knew is lost.   *)
(***************************************************************************)
EXTENDS Addon

CONSTANTS
  Overtime,   \* sessions that may outlast their watchdog or their result
  MaxEnding,  \* bound: End tasks spawned and not yet started
  MaxMail,    \* bound: messages on their way when the daemon serves or emits
  MaxDeaths   \* bound: how often the daemon dies

ASSUME VoiceAssumption ==
  /\ Overtime \subseteq Sessions
  /\ MaxEnding \in Nat
  /\ MaxMail \in Nat \ {0}
  /\ MaxDeaths \in Nat
  /\ None # "fcitx"

VARIABLES
  state, active, processing, cancelled, results, owner, handler, ending,
  task, watchdog, errorReset, expiry, receiver,  \* of DictationPipeline
  tosend,   \* tosend[s]: signals the End task of session s has yet to emit
  refused,  \* sessions whose End was refused, before that is told
  handed,   \* history: sessions whose text the daemon replied to the addon
  deaths    \* how often the daemon died

Fcitx == "fcitx"
Daemon == INSTANCE DictationPipeline WITH Callers <- {Fcitx}

daemonVars == <<state, active, processing, cancelled, results, owner, handler,
                ending, task, watchdog, errorReset, expiry, receiver>>
sending == <<tosend, refused>>
past == <<handed, deaths>>
vars == <<addonVars, daemonVars, sending, past>>

TypeOK ==
  /\ AddonTypeOK
  /\ Daemon!TypeOK
  /\ tosend \in [Sessions -> Seq(Mail)]
  /\ refused \subseteq Sessions
  /\ handed \subseteq Sessions
  /\ deaths \in 0..MaxDeaths

Init ==
  /\ AddonInit
  /\ Daemon!Init
  /\ tosend = [s \in Sessions |-> <<>>]
  /\ refused = {}
  /\ handed = {}
  /\ deaths = 0
-----------------------------------------------------------------------------
(***************************************************************************)
(* The daemon's methods                                                    *)
(***************************************************************************)
Post(messages) == mail' = mail \o messages

\* The next call is one of this method, and is dispatched.
Dispatch(method) ==
  /\ handler.at = "free"
  /\ calls # <<>>
  /\ Head(calls).method = method
  /\ Len(mail) < MaxMail
  /\ calls' = Tail(calls)
  /\ UNCHANGED <<fields, history, sending, deaths>>

ServeBegin ==
  LET s == Head(calls).session IN
  /\ Dispatch("Begin")
  /\ IF Daemon!Available
     THEN Daemon!BeginCheck(Fcitx, s) /\ UNCHANGED mail
     ELSE UNCHANGED daemonVars /\ Post(<<Reply(Head(calls), "error")>>)
  /\ UNCHANGED handed

\* The call of Begin is the first of its session.
Begun(s) == [method |-> "Begin", session |-> s, serial |-> 1]

InHandler == UNCHANGED <<fields, history, calls, sending, past>>

BeginFails ==
  /\ Daemon!BeginGivesUp
  /\ Post(<<Reply(Begun(handler.session), "error")>>)
  /\ InHandler

BeginSucceeds ==
  LET s == handler.session IN
  /\ Daemon!BeginCommit
  /\ Post(<<StateChanged(s, "recording"), Reply(Begun(s), "ok")>>)
  /\ InHandler

\* A second End of the same session waits for the first to be started (bound).
ServeEnd ==
  LET s == Head(calls).session IN
  /\ Dispatch("End")
  /\ <<Fcitx, s>> \notin ending
  /\ Daemon!EndCall(Fcitx, s)
  /\ Post(<<Reply(Head(calls), "ok")>>)
  /\ UNCHANGED handed

ServeCancel ==
  LET s == Head(calls).session IN
  /\ Dispatch("Cancel")
  /\ IF Daemon!MayCancel(Fcitx, s)
     THEN Daemon!CancelCall(Fcitx, s)
     ELSE UNCHANGED daemonVars
  /\ UNCHANGED <<mail, handed>>

CancelResets == Daemon!CancelFinish /\ InHandler /\ UNCHANGED mail

CancelSucceeds ==
  /\ Daemon!CancelConfirm
  /\ Post(<<StateChanged(handler.session, "idle")>>)
  /\ InHandler

ServeTakeResult ==
  LET s == Head(calls).session IN
  /\ Dispatch("TakeResult")
  /\ IF s \in results
     THEN /\ Daemon!TakeResult(Fcitx, s)
          /\ Post(<<Reply(Head(calls), "ok")>>)
          /\ handed' = handed \cup {s}
     ELSE /\ UNCHANGED <<daemonVars, handed>>
          /\ Post(<<Reply(Head(calls), "error")>>)

HandlerStep ==
  \/ ServeBegin \/ BeginFails \/ BeginSucceeds \/ ServeEnd
  \/ ServeCancel \/ CancelResets \/ CancelSucceeds \/ ServeTakeResult
-----------------------------------------------------------------------------
(***************************************************************************)
(* The End task, its signals and the timers                                *)
(***************************************************************************)
InTask == UNCHANGED <<addonVars, refused, past>>

Tells(s, messages) ==
  /\ tosend[s] = <<>>
  /\ tosend' = [tosend EXCEPT ![s] = messages]
  /\ InTask

EndStarts(s) ==
  \/ Daemon!EndTake(Fcitx, s) /\ UNCHANGED sending /\ InTask
  \/ /\ Daemon!EndRefused(Fcitx, s)
     /\ refused' = refused \cup {s}
     /\ UNCHANGED <<addonVars, tosend, past>>

EndTaskStep(s) ==
  \/ Daemon!CaptureFinished(s) /\ Tells(s, <<StateChanged(s, "transcribing")>>)
  \/ Daemon!CaptureFailed(s) /\ Tells(s, <<StateChanged(s, "error")>>)
  \/ Daemon!TranscribeDone(s) /\ Tells(s, <<>>)
  \/ Daemon!TranscribeFailed(s) /\ Tells(s, <<StateChanged(s, "error")>>)
  \/ Daemon!MarkPolishing(s) /\ Tells(s, <<StateChanged(s, "polishing")>>)
  \/ Daemon!StoreResult(s)
     /\ Tells(s, <<StateChanged(s, "result_ready"), ResultReady(s)>>)
  \/ Daemon!TaskAbandoned(s) /\ Tells(s, <<>>)

Emit(s) ==
  /\ tosend[s] # <<>>
  /\ Len(mail) < MaxMail
  /\ Post(<<Head(tosend[s])>>)
  /\ tosend' = [tosend EXCEPT ![s] = Tail(@)]
  /\ UNCHANGED <<fields, history, calls, daemonVars, refused, past>>

\* Mutant of EmitRefused: the refusal of End is not told.
RefuseSilently(s) ==
  /\ s \in refused
  /\ refused' = refused \ {s}
  /\ UNCHANGED <<addonVars, daemonVars, tosend, past>>

EmitRefused(s) ==
  /\ s \in refused
  /\ Len(mail) < MaxMail
  /\ Post(<<StateChanged(s, "error")>>)
  /\ refused' = refused \ {s}
  /\ UNCHANGED <<fields, history, calls, daemonVars, tosend, past>>

TimerStep(s) ==
  /\ \/ Daemon!ErrorResets(s)
     \/ /\ s \in Overtime
        /\ \/ Daemon!WatchdogFires(s) \/ Daemon!WatchdogResets(s)
           \/ Daemon!ExpireResult(s)
  /\ UNCHANGED <<addonVars, sending, past>>

\* The daemon dies.  The calls it had not answered are answered by the bus with
\* an error, which CallTimesOut stands for (sessions in Slow): a death between
\* taking a text and sending it is a call that was never served.  What it sent
\* arrives.
Dies ==
  /\ deaths < MaxDeaths
  /\ deaths' = deaths + 1
  /\ state' = "idle" /\ active' = None /\ processing' = None
  /\ cancelled' = {} /\ results' = {} /\ ending' = {} /\ handler' = Daemon!Free
  /\ owner' = [s \in Sessions |-> None]
  /\ task' = [s \in Sessions |-> "none"]
  /\ watchdog' = [s \in Sessions |-> "off"]
  /\ errorReset' = [s \in Sessions |-> "off"]
  /\ expiry' = [s \in Sessions |-> "off"]
  /\ receiver' = [s \in Sessions |-> None]
  /\ tosend' = [s \in Sessions |-> <<>>]
  /\ refused' = {}
  /\ calls' = <<>>
  /\ UNCHANGED <<fields, history, mail, handed>>
-----------------------------------------------------------------------------
AddonStep ==
  /\ UserStep \/ BusStep \/ \E c \in Contexts : CallTimesOut(c)
  /\ UNCHANGED <<daemonVars, sending, past>>

DaemonStep ==
  \/ HandlerStep
  \/ \E s \in Sessions :
       EndStarts(s) \/ EndTaskStep(s) \/ Emit(s) \/ EmitRefused(s) \/ TimerStep(s)
  \/ Dies

Next == AddonStep \/ DaemonStep

Spec == Init /\ [][Next]_vars

(***************************************************************************)
(* The bus delivers, the daemon's tasks are polled.  Here the recognizer   *)
(* is taken to answer or to fail; the user promises nothing.               *)
(***************************************************************************)
Fairness ==
  /\ WF_vars(BusStep /\ UNCHANGED <<daemonVars, sending, past>>)
  /\ WF_vars(HandlerStep)
  /\ \A s \in Sessions :
       /\ WF_vars(EndStarts(s))
       /\ WF_vars(EndTaskStep(s))
       /\ WF_vars(Emit(s))
       /\ WF_vars(EmitRefused(s))
       /\ WF_vars(TimerStep(s))

FairSpec == Spec /\ Fairness
-----------------------------------------------------------------------------
\* The map sessions_ and the states of the contexts agree, and a session lives
\* in the context that has the focus.  takeResult relies on it: it commits to
\* the context it finds in sessions_ without asking for its session.
SessionsAgree ==
  /\ \A s \in Sessions : sessions[s] \in contexts => id[sessions[s]] = s
  /\ \A c \in Contexts : id[c] # None => sessions[id[c]] = c /\ focus = c
  /\ \A c \in Contexts : id[c] = None <=> phase[c] = "Idle"

\* "Losing focus cancels the session. A stale result is never committed into a
\* different window." (README.md)
CommitsToItsOwn ==
  [][\A s \in Sessions : committed'[s] # committed[s] =>
       /\ committed'[s] = origin[s] /\ committed[s] = None
       /\ fate[s] = "open" /\ focus = origin[s]]_vars

\* The reply with the text of s will find its session and its callback.
TextExpected(s) ==
  LET c == origin[s] IN
  /\ c \in contexts
  /\ id[c] = s
  /\ pending[c].method = "TakeResult"
  /\ \E i \in 1..Len(mail) : mail[i] = Reply(pending[c], "ok")

\* The text the daemon handed out reaches its field, though the daemon die right
\* after, unless the user gave the session up, was shown an error, or the call
\* took too long: the addon keeps its session, and asks for the text once,
\* although two signals announce it.
TextReachesField ==
  \A s \in Sessions :
    s \in handed /\ fate[s] = "open" => committed[s] # None \/ TextExpected(s)

\* Cancel(s), or a call before it, is on its way.
Calling(s) ==
  \/ \E i \in 1..Len(calls) : calls[i].session = s
  \/ handler.session = s

\* What the user gave up is dropped by the daemon once it served the Cancel:
\* it is not recorded, not processed, and its text not kept.
GivenUpIsDropped ==
  \A s \in Sessions :
    fate[s] = "given_up" /\ ~Calling(s) /\ origin[s] \in contexts =>
      s \notin results \cup {active, processing}

(***************************************************************************)
(* Coherence: what makes the two properties above inductive.  Each part    *)
(* says what the messages on their way promise about both ends.            *)
(***************************************************************************)
Sent(method, s) ==
  \E i \in 1..Len(calls) : calls[i].method = method /\ calls[i].session = s

\* Some context is at session s.
Open(s) == \E c \in Contexts : id[c] = s

\* The addon may have the daemon told of s.
Talks(s) == Open(s) \/ \E i \in 1..Len(calls) : calls[i].session = s

\* Begin(s) is on its way, or has yet to be sent.
ToBegin(s) ==
  \/ origin[s] = None
  \/ Sent("Begin", s)
  \/ handler.at = "starting" /\ handler.session = s

\* A session the user has not begun is unknown to the bus and to the daemon.
UnknownCoherent ==
  \A s \in Sessions : origin[s] = None =>
    /\ owner[s] = None /\ handler.session # s
    /\ \A i \in 1..Len(calls) : calls[i].session # s

\* Begin is the first call of its session, and is served once.
BeginCoherent ==
  /\ \A i, j \in 1..Len(calls) :
       i < j /\ calls[j].method = "Begin" => calls[i].session # calls[j].session
  /\ \A s \in Sessions : Sent("Begin", s) => owner[s] = None /\ handler.session # s

\* The sessions follow one another: behind the Begin of one, nothing is said of
\* another unless its own Begin is said there too ...
CallsInOrder ==
  \A i \in 1..Len(calls) : calls[i].method = "Begin" =>
    /\ \A j \in i + 1..Len(calls) : calls[j].session # calls[i].session =>
         \E k \in i + 1..j :
           calls[k].method = "Begin" /\ calls[k].session = calls[j].session
    /\ \A c \in Contexts : id[c] \notin {None, calls[i].session} =>
         \E k \in i + 1..Len(calls) :
           calls[k].method = "Begin" /\ calls[k].session = id[c]

\* ... so that a call which finds another session recording is of one that was
\* never begun.
RecordingAlone ==
  \A s \in Sessions : Talks(s) =>
    /\ handler.at = "starting" => s = handler.session \/ Sent("Begin", s)
    /\ active # None => s = active \/ owner[s] = None

\* The Cancel of a session that was given up has not been served.
CancelOnItsWay(s) ==
  Sent("Cancel", s) \/ (handler.at = "cancelling" /\ handler.session = s)

GivenUpCoherent ==
  \A s \in Sessions : fate[s] = "given_up" /\ origin[s] \in contexts =>
    \/ CancelOnItsWay(s)
    \/ s \notin results \cup {active, processing} /\ ~ToBegin(s)

\* A signal that moves the phase on, and one that asks for the text.
Moves(m, s) ==
  /\ m.kind = "StateChanged" /\ m.session = s
  /\ m.value \in {"recording", "transcribing", "polishing", "result_ready"}
Asks(m, s) ==
  /\ m.session = s
  /\ m.kind = "ResultReady" \/ (m.kind = "StateChanged" /\ m.value = "result_ready")

\* The daemon has nothing to say of s any more but errors.
Over(s) == IF owner[s] = None THEN ~ToBegin(s) ELSE task[s] = "done"

\* Once a signal asks for the text nothing moves the phase of its session.
SignalsCoherent ==
  \A s \in Sessions :
    /\ \A i \in 1..Len(mail) : Asks(mail[i], s) =>
         /\ Over(s)
         /\ \A j \in i + 1..Len(mail) : ~Moves(mail[j], s)
         /\ \A j \in 1..Len(tosend[s]) : ~Moves(tosend[s][j], s)
    /\ \A i \in 1..Len(tosend[s]) :
         /\ tosend[s][i].session = s /\ tosend[s][i].kind # "TakeResult"
         /\ Asks(tosend[s][i], s) =>
              Over(s) /\ \A j \in i + 1..Len(tosend[s]) : ~Moves(tosend[s][j], s)

TakingCoherent ==
  \A c \in Contexts : id[c] # None /\ phase[c] = "TakingResult" =>
    /\ Over(id[c])
    /\ \A i \in 1..Len(mail) : ~Moves(mail[i], id[c])
    /\ \A i \in 1..Len(tosend[id[c]]) : ~Moves(tosend[id[c]][i], id[c])

\* The text of s was asked for, and neither given nor refused to the addon yet.
Answer(i, s) == mail[i].kind = "TakeResult" /\ mail[i].session = s
Asked(s) ==
  \/ Sent("TakeResult", s) \/ s \in handed
  \/ \E i \in 1..Len(mail) : Answer(i, s)

\* It is asked for once.
AskedOnce ==
  /\ \A i, j \in 1..Len(calls) :
       /\ i # j
       /\ calls[i].method = "TakeResult" /\ calls[j].method = "TakeResult"
       => calls[i].session # calls[j].session
  /\ \A s \in Sessions, i, j \in 1..Len(mail) : Answer(i, s) =>
       ~Sent("TakeResult", s) /\ (Answer(j, s) => i = j)

\* The slot of a context is of a session begun there.
SlotCoherent ==
  \A c \in Contexts : pending[c] # NoCall => origin[pending[c].session] = c

\* An open session whose text was asked for waits for it, and a text that was
\* handed out is on its way.
AskedCoherent ==
  \A c \in Contexts : id[c] # None /\ Asked(id[c]) =>
    /\ phase[c] = "TakingResult"
    /\ pending[c].method = "TakeResult" /\ pending[c].session = id[c]
    /\ \A i \in 1..Len(calls) :
         calls[i].method = "TakeResult" /\ calls[i].session = id[c] =>
           calls[i] = pending[c]
    /\ id[c] \in handed =>
         \E i \in 1..Len(mail) : mail[i] = Reply(pending[c], "ok")

\* A session that ended without text, error or being given up was not asked.
EndedCoherent ==
  \A s \in Sessions : fate[s] = "open" /\ committed[s] = None /\ ~Open(s) => ~Asked(s)

CallsCoherent ==
  UnknownCoherent /\ BeginCoherent /\ CallsInOrder /\ RecordingAlone
    /\ GivenUpCoherent

TextCoherent ==
  SignalsCoherent /\ TakingCoherent /\ AskedOnce /\ SlotCoherent /\ AskedCoherent
    /\ EndedCoherent

Conversation == Daemon!Coherent /\ CallsCoherent /\ TextCoherent

(***************************************************************************)
(* Liveness                                                                *)
(***************************************************************************)
\* A key that was released ends: the addon commits the text, shows an error or
\* is told to stop, whatever became of the callback of Begin, which End
\* replaced.  (Not for a session that outlasts its watchdog: the daemon drops
\* it without a signal.)
Settles == \A c \in Contexts : phase[c] = "Transcribing" ~> phase[c] = "Idle"

(***************************************************************************)
(* What the documentation says and the code does not do                    *)
(***************************************************************************)
\* "The Fcitx client must keep its session alive until it has consumed the
\* reply containing text" (dbus.rs): no error is shown for a session whose text
\* was handed out.
TextNotDropped ==
  \A s \in Sessions : s \in handed => fate[s] # "failed"

\* Of polishing: "Any failure commits the local transcript" (ARCHITECTURE.md).
\* A watchdog that fires then drops the session and tells nobody: no text, and
\* a field that waits until the user presses Escape.
PolishingEnds == \A c \in Contexts : phase[c] = "Polishing" ~> phase[c] = "Idle"
=============================================================================
