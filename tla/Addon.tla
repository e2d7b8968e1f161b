-------------------------------- MODULE Addon --------------------------------
(***************************************************************************)
(* The fcitx5 addon: fcitx5-addon/src/natsutypeless.cpp.                   *)
(*                                                                         *)
(* fcitx5 runs one event loop: a key, a change of focus, a D-Bus signal, a *)
(* reply or a timeout is handled to its end before the next, so that every *)
(* handler is one action.  Method calls leave for the daemon in calls and  *)
(* what the daemon sends comes in mail, both in order, as on the bus.      *)
(*                                                                         *)
(* A fresh random identifier (makeSessionId) is a session not yet used.    *)
(* The bus is there (bus_ is not null); status texts, options and the      *)
(* daemon's configuration are left out, for no branch here looks at them.  *)
(***************************************************************************)
EXTENDS FiniteSets, Naturals, Sequences

CONSTANTS
  Sessions,    \* session identifiers
  Contexts,    \* input contexts: text fields of the applications
  Closing,     \* those their application may close
  Slow,        \* sessions whose calls may be answered too late, or never
  MaxCalls,    \* bound: calls on their way when the user acts
  None

ASSUME AddonAssumption ==
  /\ None \notin Sessions
  /\ None \notin Contexts
  /\ Closing \subseteq Contexts
  /\ Slow \subseteq Sessions
  /\ MaxCalls \in Nat \ {0}

Methods == {"Begin", "End", "Cancel", "TakeResult"}
NoCall == [method |-> "none", session |-> None, serial |-> 0]
Calls == [method : Methods, session : Sessions, serial : Nat]

\* What the daemon sends: StateChanged with its state, ResultReady, replies.
States ==
  {"recording", "transcribing", "polishing", "result_ready", "idle", "error"}
StateChanged(s, state) ==
  [kind |-> "StateChanged", session |-> s, value |-> state, serial |-> 0]
ResultReady(s) ==
  [kind |-> "ResultReady", session |-> s, value |-> "ready", serial |-> 0]
Reply(call, outcome) ==
  [kind |-> call.method, session |-> call.session, value |-> outcome,
   serial |-> call.serial]
Mail ==
  [kind : Methods \cup {"StateChanged", "ResultReady"}, session : Sessions,
   value : States \cup {"ready", "ok", "error"}, serial : Nat]

VARIABLES
  contexts,    \* the input contexts that exist
  focus,       \* the one that has the focus
  phase,       \* SessionState::phase of a context
  id,          \* SessionState::id
  pending,     \* SessionState::pendingCall, while its callback may still run
  serial,      \* serial[s]: replies awaited so far in session s
  sessions,    \* sessions_: whose context a session is of
  calls,       \* method calls on their way to the daemon
  mail,        \* signals and replies on their way to the addon
  origin,      \* history: the context a session was begun in
  fate,        \* history: what became of a session in the addon
  committed    \* history: the context the text of a session was committed to

slots == <<pending, serial>>
fields == <<contexts, focus, phase, id, pending, serial, sessions>>
history == <<origin, fate, committed>>
addonVars == <<contexts, focus, phase, id, pending, serial, sessions, calls,
               mail, origin, fate, committed>>

Phases ==
  {"Idle", "Starting", "Recording", "Transcribing", "Polishing", "ResultReady",
   "TakingResult"}

\* Given up by the user (focus, reset, Escape), failed with a message shown.
Fates == {"open", "given_up", "failed", "timed_out"}

AddonTypeOK ==
  /\ contexts \subseteq Contexts
  /\ focus \in contexts \cup {None}
  /\ phase \in [Contexts -> Phases]
  /\ id \in [Contexts -> Sessions \cup {None}]
  /\ pending \in [Contexts -> Calls \cup {NoCall}]
  /\ serial \in [Sessions -> Nat]
  /\ sessions \in [Sessions -> Contexts \cup {None}]
  /\ calls \in Seq(Calls)
  /\ mail \in Seq(Mail)
  /\ origin \in [Sessions -> Contexts \cup {None}]
  /\ fate \in [Sessions -> Fates]
  /\ committed \in [Sessions -> Contexts \cup {None}]

AddonInit ==
  /\ contexts = Contexts
  /\ focus = None
  /\ phase = [c \in Contexts |-> "Idle"]
  /\ id = [c \in Contexts |-> None]
  /\ pending = [c \in Contexts |-> NoCall]
  /\ serial = [s \in Sessions |-> 0]
  /\ sessions = [s \in Sessions |-> None]
  /\ calls = <<>>
  /\ mail = <<>>
  /\ origin = [s \in Sessions |-> None]
  /\ fate = [s \in Sessions |-> "open"]
  /\ committed = [s \in Sessions |-> None]
-----------------------------------------------------------------------------
(***************************************************************************)
(* Parts of the handlers                                                   *)
(***************************************************************************)
Send(call) == calls' = Append(calls, call)

\* callAsync replaces the slot of an earlier call of the context: the callback
\* of that one never runs, for a reply finds its slot by the call's serial.
CallAsync(c, method, s) ==
  LET call == [method |-> method, session |-> s, serial |-> serial[s] + 1] IN
  /\ Send(call)
  /\ pending' = [pending EXCEPT ![c] = call]
  /\ serial' = [serial EXCEPT ![s] = @ + 1]

\* Mutant of ClearSession: sessions_ keeps the session.
ClearPhase(c) ==
  /\ phase' = [phase EXCEPT ![c] = "Idle"]
  /\ id' = [id EXCEPT ![c] = None]
  /\ UNCHANGED sessions

\* clearSession.  The slot of a call in progress stays.
ClearSession(c) ==
  /\ sessions' = [s \in Sessions |-> IF s = id[c] THEN None ELSE sessions[s]]
  /\ phase' = [phase EXCEPT ![c] = "Idle"]
  /\ id' = [id EXCEPT ![c] = None]

\* Mutant of Cancel: the daemon is not told.
CancelQuietly(c) == ClearSession(c) /\ UNCHANGED calls

\* cancel: the daemon is told, its answer is not waited for.
Cancel(c) ==
  /\ Send([method |-> "Cancel", session |-> id[c], serial |-> 0])
  /\ ClearSession(c)

\* The session of c, if it has one, ends like this.
Ends(c, how) ==
  fate' = [s \in Sessions |-> IF s = id[c] THEN how ELSE fate[s]]

Ignored == UNCHANGED <<phase, id, slots, sessions, calls>>

\* Mutant of TakeResult: both signals ask for the text.
TakeResultTwice(c, s, p) ==
  IF focus # c
  THEN Cancel(c) /\ UNCHANGED slots
  ELSE /\ phase' = [phase EXCEPT ![c] = "TakingResult"]
       /\ CallAsync(c, "TakeResult", s)
       /\ UNCHANGED <<id, sessions>>

\* takeResult for the existing context c of session s, when its phase is p.  It
\* does not ask whether c is still at this session.
TakeResult(c, s, p) ==
  IF focus # c
  THEN Cancel(c) /\ UNCHANGED slots
  ELSE IF p = "TakingResult"
  THEN Ignored
  ELSE /\ phase' = [phase EXCEPT ![c] = "TakingResult"]
       /\ CallAsync(c, "TakeResult", s)
       /\ UNCHANGED <<id, sessions>>
-----------------------------------------------------------------------------
(***************************************************************************)
(* The user: keys, focus, applications                                     *)
(***************************************************************************)
\* The trigger key goes down in a field that is not a password and composes
\* nothing (canStart).
KeyBegin(c, s) ==
  /\ focus = c
  /\ phase[c] = "Idle"
  /\ origin[s] = None
  /\ phase' = [phase EXCEPT ![c] = "Starting"]
  /\ id' = [id EXCEPT ![c] = s]
  /\ sessions' = [sessions EXCEPT ![s] = c]
  /\ CallAsync(c, "Begin", s)
  /\ origin' = [origin EXCEPT ![s] = c]
  /\ UNCHANGED <<contexts, focus, mail, fate, committed>>

\* The trigger key goes up.
KeyEnd(c) ==
  /\ focus = c
  /\ phase[c] \in {"Starting", "Recording"}
  /\ phase' = [phase EXCEPT ![c] = "Transcribing"]
  /\ CallAsync(c, "End", id[c])
  /\ UNCHANGED <<contexts, focus, id, sessions, mail, history>>

\* Mutant of GiveUp: without the test of the phase.
GiveUpAlways(c) == Cancel(c) /\ Ends(c, "given_up")

\* The session of c, if it has one, is given up.
GiveUp(c) ==
  IF phase[c] = "Idle"
  THEN UNCHANGED <<phase, id, sessions, calls, fate>>
  ELSE Cancel(c) /\ Ends(c, "given_up")

\* Escape, or the application resets its field.
KeyEscape(c) ==
  /\ focus = c
  /\ phase[c] # "Idle"
  /\ GiveUp(c)
  /\ UNCHANGED <<contexts, focus, slots, mail, origin, committed>>

FocusOut(c) ==
  /\ focus = c
  /\ c \in contexts
  /\ focus' = None
  /\ GiveUp(c)
  /\ UNCHANGED <<contexts, slots, mail, origin, committed>>

FocusIn(c) ==
  /\ focus = None
  /\ c \in contexts
  /\ focus' = c
  /\ UNCHANGED <<contexts, phase, id, slots, sessions, calls, mail, history>>

\* The application closes its field.  SessionState goes with the context, and
\* the callback of its call; sessions_ keeps a reference to nothing.
Destroyed(c) ==
  /\ c \in contexts \cap Closing
  /\ contexts' = contexts \ {c}
  /\ focus' = IF focus = c THEN None ELSE focus
  /\ phase' = [phase EXCEPT ![c] = "Idle"]
  /\ id' = [id EXCEPT ![c] = None]
  /\ pending' = [pending EXCEPT ![c] = NoCall]
  /\ Ends(c, "given_up")
  /\ UNCHANGED <<serial, sessions, calls, mail, origin, committed>>
-----------------------------------------------------------------------------
(***************************************************************************)
(* What the daemon sends                                                   *)
(***************************************************************************)
Arrives(kind) == mail # <<>> /\ Head(mail).kind = kind /\ mail' = Tail(mail)

Shown ==
  [recording |-> "Recording", transcribing |-> "Transcribing",
   polishing |-> "Polishing"]

\* The branches of handleStateSignal for a context at session s.
HandleState(c, s, state) ==
  \/ /\ state \in DOMAIN Shown
     /\ phase' = [phase EXCEPT ![c] = Shown[state]]
     /\ UNCHANGED <<id, slots, sessions, calls, fate>>
  \/ /\ state = "result_ready"
     /\ TakeResult(c, s, "ResultReady")
     /\ UNCHANGED fate
  \/ /\ state = "idle"
     /\ IF phase[c] = "TakingResult" THEN Ignored
        ELSE ClearSession(c) /\ UNCHANGED <<slots, calls>>
     /\ UNCHANGED fate
  \/ /\ state = "error"
     /\ Cancel(c)
     /\ Ends(c, "failed")
     /\ UNCHANGED slots

\* A signal whose session has no context any more is dropped.
Dropped(s) ==
  /\ sessions' = IF sessions[s] \in contexts THEN sessions
                 ELSE [sessions EXCEPT ![s] = None]
  /\ UNCHANGED <<phase, id, slots, calls>>

StateSignal ==
  LET s == Head(mail).session
      c == sessions[s]
  IN
  /\ Arrives("StateChanged")
  /\ IF c \in contexts /\ id[c] = s
     THEN HandleState(c, s, Head(mail).value)
     ELSE Dropped(s) /\ UNCHANGED fate
  /\ UNCHANGED <<contexts, focus, origin, committed>>

ResultSignal ==
  LET s == Head(mail).session
      c == sessions[s]
  IN
  /\ Arrives("ResultReady")
  /\ IF c \in contexts THEN TakeResult(c, s, phase[c]) ELSE Dropped(s)
  /\ UNCHANGED <<contexts, focus, history>>

\* Mutant of Answered: without the test of the session.
AnsweredAnyway(c, method, s, outcome) ==
  /\ pending' = [pending EXCEPT ![c] = NoCall]
  /\ UNCHANGED serial
  /\ IF method # "TakeResult" /\ outcome = "ok"
     THEN UNCHANGED <<phase, id, sessions, calls, committed>>
     ELSE /\ ClearSession(c)
          /\ committed' = IF outcome = "ok" /\ focus = c
                          THEN [committed EXCEPT ![s] = c] ELSE committed
          /\ UNCHANGED calls

\* The callbacks of Begin, End and TakeResult: nothing if the context has gone
\* on to another session.
Answered(c, method, s, outcome) ==
  /\ pending' = [pending EXCEPT ![c] = NoCall]
  /\ UNCHANGED serial
  /\ IF id[c] # s \/ (method # "TakeResult" /\ outcome = "ok")
     THEN UNCHANGED <<phase, id, sessions, calls, committed>>
     ELSE IF method = "End"
     THEN Cancel(c) /\ UNCHANGED committed
     ELSE /\ ClearSession(c)
          /\ committed' = IF outcome = "ok" /\ focus = c
                          THEN [committed EXCEPT ![s] = c] ELSE committed
          /\ UNCHANGED calls

Awaits(c, reply) == reply = Reply(pending[c], reply.value)

\* Only the callback of the last call of a context is left to be called.
ReplyArrives ==
  LET m == Head(mail) IN
  /\ mail # <<>>
  /\ m.kind \in Methods
  /\ mail' = Tail(mail)
  /\ \/ \E c \in contexts :
          /\ Awaits(c, m)
          /\ Answered(c, m.kind, m.session, m.value)
     \/ /\ \A c \in contexts : ~Awaits(c, m)
        /\ Ignored
        /\ UNCHANGED committed
  /\ UNCHANGED <<contexts, focus, origin, fate>>

\* kCallTimeoutUsec (5 s) have passed without a reply, or the bus says that
\* there will be none.
CallTimesOut(c) ==
  /\ pending[c].session \in Slow
  /\ IF pending[c].session = id[c] THEN Ends(c, "timed_out") ELSE UNCHANGED fate
  /\ Answered(c, pending[c].method, pending[c].session, "error")
  /\ UNCHANGED <<contexts, focus, mail, origin>>
-----------------------------------------------------------------------------
UserStep ==
  /\ Len(calls) < MaxCalls
  /\ \E c \in Contexts :
       \/ \E s \in Sessions : KeyBegin(c, s)
       \/ KeyEnd(c) \/ KeyEscape(c)
       \/ FocusOut(c) \/ FocusIn(c) \/ Destroyed(c)

BusStep == StateSignal \/ ResultSignal \/ ReplyArrives
=============================================================================
