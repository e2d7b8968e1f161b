-------------------------- MODULE VoiceInputProofs --------------------------
(***************************************************************************)
(* The addon and the daemon, for any sessions, fields, timeouts, deaths of *)
(* the daemon and messages on their way.                                   *)
(***************************************************************************)
EXTENDS VoiceInput, SequenceTheorems, TLAPS

(***************************************************************************)
(* What the addon's variables say of one another: a session that is open   *)
(* in a field was begun there, has not ended and was not committed.        *)
(***************************************************************************)
OwnSession ==
  /\ \A c \in Contexts, s \in Sessions : id[c] = s =>
       origin[s] = c /\ fate[s] = "open" /\ committed[s] = None
  /\ \A s \in Sessions : origin[s] = None =>
       fate[s] = "open" /\ committed[s] = None

AddonInv == AddonTypeOK /\ SessionsAgree /\ OwnSession

\* What the daemon has to send is a message of its session.
DaemonTypes ==
  /\ Daemon!TypeOK
  /\ tosend \in [Sessions -> Seq(Mail)]
  /\ refused \subseteq Sessions

\* ... and of what is past.
PastTypes == handed \subseteq Sessions /\ deaths \in 0..MaxDeaths

\* The field of a session is one that exists, for it has the focus.
LEMMA OpenField ==
  ASSUME AddonInv, NEW c \in Contexts, id[c] # None
  PROVE  /\ c \in contexts /\ focus = c /\ sessions[id[c]] = c
         /\ id[c] \in Sessions /\ phase[c] # "Idle"
         /\ \A d \in Contexts : d # c => id[d] = None
BY AddonAssumption DEF AddonInv, AddonTypeOK, SessionsAgree

\* clearSession takes the session out of the field and of sessions_, whatever
\* is noted of its end (natsutypeless.cpp:365-376).
LEMMA ClearsSession ==
  ASSUME AddonInv, NEW c \in Contexts, ClearSession(c),
         UNCHANGED <<contexts, origin>>,
         focus' = focus \/ (focus' = None /\ focus = c),
         \A s \in Sessions : s # id[c] =>
           fate'[s] = fate[s] /\ committed'[s] = committed[s]
  PROVE  /\ SessionsAgree' /\ OwnSession'
         /\ sessions' \in [Sessions -> Contexts \cup {None}]
         /\ phase' \in [Contexts -> Phases]
         /\ id' \in [Contexts -> Sessions \cup {None}]
<1>1. /\ SessionsAgree'
      /\ sessions' \in [Sessions -> Contexts \cup {None}]
      /\ phase' \in [Contexts -> Phases]
      /\ id' \in [Contexts -> Sessions \cup {None}]
      /\ id' = [id EXCEPT ![c] = None]
  BY OpenField, AddonAssumption
     DEF ClearSession, AddonInv, AddonTypeOK, SessionsAgree, Phases
<1>2. ASSUME NEW d \in Contexts, NEW s \in Sessions, id'[d] = s
      PROVE  origin'[s] = d /\ fate'[s] = "open" /\ committed'[s] = None
  <2>1. d # c /\ id[d] = s
    BY <1>1, <1>2, AddonAssumption DEF AddonInv, AddonTypeOK
  <2>2. s # id[c] BY <2>1, OpenField, AddonAssumption
  <2> QED BY <2>1, <2>2 DEF AddonInv, OwnSession
<1>3. ASSUME NEW s \in Sessions, origin'[s] = None
      PROVE  fate'[s] = "open" /\ committed'[s] = None
  <2>1. s # id[c] BY <1>3, AddonAssumption DEF AddonInv, OwnSession
  <2> QED BY <1>3, <2>1 DEF AddonInv, OwnSession
<1> QED BY <1>1, <1>2, <1>3 DEF OwnSession

\* cancel tells the daemon of a session that is open (natsutypeless.cpp:352-363).
LEMMA CancelSends ==
  ASSUME AddonInv, NEW c \in Contexts, id[c] # None, Cancel(c)
  PROVE  calls' \in Seq(Calls) /\ ClearSession(c)
<1>1. id[c] \in Sessions /\ calls \in Seq(Calls) BY DEF AddonInv, AddonTypeOK
<1>2. [method |-> "Cancel", session |-> id[c], serial |-> 0] \in Calls
  BY <1>1 DEF Calls, Methods
<1> QED BY <1>1, <1>2 DEF Cancel, Send

\* callAsync sends a call of the session and keeps its slot
\* (natsutypeless.cpp:305, 336, 465).
LEMMA CallSends ==
  ASSUME AddonInv, NEW c \in Contexts, NEW s \in Sessions, NEW method \in Methods,
         CallAsync(c, method, s)
  PROVE  /\ calls' \in Seq(Calls)
         /\ pending' \in [Contexts -> Calls \cup {NoCall}]
         /\ serial' \in [Sessions -> Nat]
<1>1. serial \in [Sessions -> Nat] /\ calls \in Seq(Calls)
        /\ pending \in [Contexts -> Calls \cup {NoCall}]
  BY DEF AddonInv, AddonTypeOK
<1> DEFINE call == [method |-> method, session |-> s, serial |-> serial[s] + 1]
<1>2. call \in Calls BY <1>1 DEF Calls
<1>3. calls' = Append(calls, call) /\ pending' = [pending EXCEPT ![c] = call]
        /\ serial' = [serial EXCEPT ![s] = @ + 1]
  BY DEF CallAsync, Send
<1> HIDE DEF call
<1> QED BY <1>1, <1>2, <1>3

\* Giving up the session of a field (natsutypeless.cpp:161-168).
LEMMA GivesUp ==
  ASSUME AddonInv, NEW c \in Contexts, GiveUp(c), UNCHANGED slots,
         UNCHANGED <<contexts, origin, committed, mail>>,
         focus' = focus \/ (focus' = None /\ focus = c)
  PROVE  AddonInv'
<1>1. CASE phase[c] = "Idle"
  <2>1. id[c] = None BY <1>1 DEF AddonInv, SessionsAgree
  <2>2. UNCHANGED <<phase, id, sessions, calls, fate>> BY <1>1 DEF GiveUp
  <2>3. SessionsAgree'
    BY <2>1, <2>2, OpenField DEF AddonInv, SessionsAgree
  <2> QED
    BY <2>2, <2>3 DEF AddonInv, AddonTypeOK, OwnSession, slots
<1>2. CASE phase[c] # "Idle"
  <2>1. id[c] # None BY <1>2 DEF AddonInv, SessionsAgree
  <2>2. Cancel(c) /\ Ends(c, "given_up") BY <1>2 DEF GiveUp
  <2>3. calls' \in Seq(Calls) /\ ClearSession(c) BY <2>1, <2>2, CancelSends
  <2>4. /\ fate' \in [Sessions -> Fates]
        /\ \A s \in Sessions : s # id[c] => fate'[s] = fate[s]
    BY <2>2 DEF Ends, AddonInv, AddonTypeOK, Fates
  <2>5. /\ SessionsAgree' /\ OwnSession'
        /\ sessions' \in [Sessions -> Contexts \cup {None}]
        /\ phase' \in [Contexts -> Phases]
        /\ id' \in [Contexts -> Sessions \cup {None}]
    BY <2>3, <2>4, ClearsSession
  <2> QED BY <2>3, <2>4, <2>5 DEF AddonInv, AddonTypeOK, slots
<1> QED BY <1>1, <1>2

\* The user's part (natsutypeless.cpp:155-174, 237-350).
LEMMA UserKeeps == ASSUME AddonInv, UserStep PROVE AddonInv'
<1>1. ASSUME NEW c \in Contexts, NEW s \in Sessions, KeyBegin(c, s)
      PROVE  AddonInv'
  <2>1. /\ focus = c /\ phase[c] = "Idle" /\ origin[s] = None
        /\ phase' = [phase EXCEPT ![c] = "Starting"]
        /\ id' = [id EXCEPT ![c] = s]
        /\ sessions' = [sessions EXCEPT ![s] = c]
        /\ CallAsync(c, "Begin", s)
        /\ origin' = [origin EXCEPT ![s] = c]
        /\ UNCHANGED <<contexts, focus, mail, fate, committed>>
    BY <1>1 DEF KeyBegin
  <2>2. /\ calls' \in Seq(Calls)
        /\ pending' \in [Contexts -> Calls \cup {NoCall}]
        /\ serial' \in [Sessions -> Nat]
    BY <2>1, CallSends DEF Methods
  <2>3. AddonTypeOK' BY <2>1, <2>2 DEF AddonInv, AddonTypeOK, Phases
  <2>4. \A d \in Contexts : id[d] = None
    BY <2>1, OpenField DEF AddonInv, SessionsAgree
  <2>5. c \in contexts BY <2>1, AddonAssumption DEF AddonInv, AddonTypeOK
  <2>6. \A t \in Sessions : sessions[t] \notin contexts
    BY <2>4, AddonAssumption DEF AddonInv, AddonTypeOK, SessionsAgree
  <2>7. SessionsAgree'
    BY <2>1, <2>4, <2>5, <2>6, AddonAssumption
       DEF AddonInv, AddonTypeOK, SessionsAgree
  <2>8. OwnSession'
    BY <2>1, <2>4, AddonAssumption DEF AddonInv, AddonTypeOK, OwnSession
  <2> QED BY <2>3, <2>7, <2>8 DEF AddonInv
<1>2. ASSUME NEW c \in Contexts, KeyEnd(c) PROVE AddonInv'
  <2>1. id[c] # None BY <1>2 DEF KeyEnd, AddonInv, SessionsAgree
  <2>2. id[c] \in Sessions BY <2>1, OpenField
  <2>3. /\ calls' \in Seq(Calls)
        /\ pending' \in [Contexts -> Calls \cup {NoCall}]
        /\ serial' \in [Sessions -> Nat]
    BY <1>2, <2>2, CallSends DEF KeyEnd, Methods
  <2>4. /\ phase' = [phase EXCEPT ![c] = "Transcribing"]
        /\ UNCHANGED <<contexts, focus, id, sessions, mail, origin, fate, committed>>
    BY <1>2 DEF KeyEnd, history
  <2>5. AddonTypeOK' BY <2>3, <2>4 DEF AddonInv, AddonTypeOK, Phases
  <2>6. SessionsAgree' BY <2>1, <2>4 DEF AddonInv, AddonTypeOK, SessionsAgree
  <2> QED BY <2>4, <2>5, <2>6 DEF AddonInv, OwnSession
<1>3. ASSUME NEW c \in Contexts, KeyEscape(c) \/ FocusOut(c) PROVE AddonInv'
  <2>1. /\ GiveUp(c) /\ UNCHANGED slots
        /\ UNCHANGED <<contexts, origin, committed, mail>>
        /\ focus' = focus \/ (focus' = None /\ focus = c)
    BY <1>3 DEF KeyEscape, FocusOut
  <2> QED BY <2>1, GivesUp
<1>4. ASSUME NEW c \in Contexts, FocusIn(c) PROVE AddonInv'
  <2>1. /\ focus = None /\ c \in contexts /\ focus' = c
        /\ UNCHANGED <<contexts, phase, id, pending, serial, sessions, calls, mail,
                       origin, fate, committed>>
    BY <1>4 DEF FocusIn, slots, history
  <2>2. \A d \in Contexts : id[d] = None BY <2>1, OpenField, AddonAssumption
  <2> QED BY <2>1, <2>2 DEF AddonInv, AddonTypeOK, SessionsAgree, OwnSession
<1>5. ASSUME NEW c \in Contexts, Destroyed(c) PROVE AddonInv'
  <2>1. /\ contexts' = contexts \ {c}
        /\ focus' = IF focus = c THEN None ELSE focus
        /\ phase' = [phase EXCEPT ![c] = "Idle"]
        /\ id' = [id EXCEPT ![c] = None]
        /\ pending' = [pending EXCEPT ![c] = NoCall]
        /\ Ends(c, "given_up")
        /\ UNCHANGED <<serial, sessions, calls, mail, origin, committed>>
    BY <1>5 DEF Destroyed
  <2>2. /\ fate' \in [Sessions -> Fates]
        /\ \A s \in Sessions : s # id[c] => fate'[s] = fate[s]
    BY <2>1 DEF Ends, AddonInv, AddonTypeOK, Fates
  <2>3. AddonTypeOK' BY <2>1, <2>2 DEF AddonInv, AddonTypeOK, Phases
  <2>4. SessionsAgree'
    BY <2>1, OpenField, AddonAssumption DEF AddonInv, AddonTypeOK, SessionsAgree
  <2>5. ASSUME NEW d \in Contexts, NEW s \in Sessions, id'[d] = s
        PROVE  origin'[s] = d /\ fate'[s] = "open" /\ committed'[s] = None
    <3>1. d # c /\ id[d] = s
      BY <2>1, <2>5, AddonAssumption DEF AddonInv, AddonTypeOK
    <3>2. s # id[c] BY <3>1, OpenField, AddonAssumption
    <3> QED BY <2>1, <2>2, <3>1, <3>2 DEF AddonInv, OwnSession
  <2>6. ASSUME NEW s \in Sessions, origin'[s] = None
        PROVE  fate'[s] = "open" /\ committed'[s] = None
    <3>1. s # id[c] BY <2>1, <2>6, AddonAssumption DEF AddonInv, OwnSession
    <3> QED BY <2>1, <2>2, <2>6, <3>1 DEF AddonInv, OwnSession
  <2>7. OwnSession' BY <2>5, <2>6 DEF OwnSession
  <2> QED BY <2>3, <2>4, <2>7 DEF AddonInv
<1> QED BY <1>1, <1>2, <1>3, <1>4, <1>5 DEF UserStep
-----------------------------------------------------------------------------
\* takeResult for the session of the field (natsutypeless.cpp:441-465): it has
\* the focus, and the phase that goes with the call.
LEMMA TakesResult ==
  ASSUME AddonInv, NEW c \in Contexts, id[c] # None, NEW p,
         TakeResult(c, id[c], p), UNCHANGED <<contexts, focus, history>>,
         mail' \in Seq(Mail)
  PROVE  AddonInv'
<1>1. focus = c /\ id[c] \in Sessions BY OpenField
<1>2. CASE p = "TakingResult"
  <2>1. UNCHANGED <<phase, id, pending, serial, sessions, calls>>
    BY <1>1, <1>2 DEF TakeResult, Ignored, slots
  <2> QED
    BY <2>1 DEF AddonInv, AddonTypeOK, SessionsAgree, OwnSession, history
<1>3. CASE p # "TakingResult"
  <2>1. /\ phase' = [phase EXCEPT ![c] = "TakingResult"]
        /\ CallAsync(c, "TakeResult", id[c])
        /\ UNCHANGED <<id, sessions>>
    BY <1>1, <1>3 DEF TakeResult
  <2>2. /\ calls' \in Seq(Calls)
        /\ pending' \in [Contexts -> Calls \cup {NoCall}]
        /\ serial' \in [Sessions -> Nat]
    BY <1>1, <2>1, CallSends DEF Methods
  <2>3. AddonTypeOK' BY <2>1, <2>2 DEF AddonInv, AddonTypeOK, Phases, history
  <2>4. SessionsAgree' BY <2>1 DEF AddonInv, AddonTypeOK, SessionsAgree, history
  <2> QED BY <2>1, <2>3, <2>4 DEF AddonInv, OwnSession, history
<1> QED BY <1>2, <1>3

\* A callback that finds its session open ends it, unless Begin or End went
\* well (natsutypeless.cpp:305-318, 336-349, 465-496).
LEMMA AnswerKeeps ==
  ASSUME AddonInv, NEW c \in Contexts, NEW s \in Sessions,
         NEW method \in Methods, NEW outcome, Answered(c, method, s, outcome),
         UNCHANGED <<contexts, focus, origin>>, mail' \in Seq(Mail),
         fate' \in [Sessions -> Fates],
         \/ fate' = fate
         \/ outcome = "error" /\ \A t \in Sessions :
              t # id[c] \/ id[c] # s => fate'[t] = fate[t]
  PROVE  AddonInv'
<1>1. /\ pending' \in [Contexts -> Calls \cup {NoCall}]
      /\ serial' = serial
  BY DEF Answered, AddonInv, AddonTypeOK
<1>2. CASE id[c] # s \/ (method # "TakeResult" /\ outcome = "ok")
  <2>1. UNCHANGED <<phase, id, sessions, calls, committed>>
    BY <1>2 DEF Answered
  <2>2. fate' = fate
    BY <1>2 DEF AddonInv, AddonTypeOK
  <2> QED
    BY <1>1, <2>1, <2>2 DEF AddonInv, AddonTypeOK, SessionsAgree, OwnSession
<1>3. CASE id[c] = s /\ (method = "TakeResult" \/ outcome # "ok")
  <2>1. /\ ClearSession(c) /\ calls' \in Seq(Calls)
        /\ \/ committed' = committed
           \/ committed' = [committed EXCEPT ![s] = c]
    BY <1>3, CancelSends, AddonAssumption
       DEF Answered, AddonInv, AddonTypeOK
  <2>2. \A t \in Sessions : t # id[c] =>
          fate'[t] = fate[t] /\ committed'[t] = committed[t]
    BY <1>3, <2>1 DEF AddonInv, AddonTypeOK
  <2>3. /\ SessionsAgree' /\ OwnSession'
        /\ sessions' \in [Sessions -> Contexts \cup {None}]
        /\ phase' \in [Contexts -> Phases]
        /\ id' \in [Contexts -> Sessions \cup {None}]
    BY <2>1, <2>2, ClearsSession
  <2>4. committed' \in [Sessions -> Contexts \cup {None}]
    BY <2>1 DEF AddonInv, AddonTypeOK
  <2> QED BY <1>1, <2>1, <2>3, <2>4 DEF AddonInv, AddonTypeOK
<1> QED BY <1>2, <1>3 DEF Methods

\* The signals (natsutypeless.cpp:390-439).
LEMMA SignalKeeps == ASSUME AddonInv, StateSignal \/ ResultSignal PROVE AddonInv'
<1> DEFINE m == Head(mail)
<1> DEFINE s == m.session
<1> DEFINE c == sessions[s]
<1>1. mail # <<>> /\ mail' = Tail(mail)
  BY DEF StateSignal, ResultSignal, Arrives
<1>2. m \in Mail /\ mail' \in Seq(Mail)
  BY <1>1, HeadTailProperties DEF AddonInv, AddonTypeOK
<1>3. s \in Sessions /\ c \in Contexts \cup {None}
  BY <1>2 DEF Mail, AddonInv, AddonTypeOK
<1>4. UNCHANGED <<contexts, focus, origin, committed>>
  BY DEF StateSignal, ResultSignal, history
<1>5. CASE c \notin contexts \/ id[c] # s
  <2>1. c \notin contexts BY <1>3, <1>5 DEF AddonInv, SessionsAgree
  <2>2. Dropped(s) /\ UNCHANGED fate
    BY <2>1 DEF StateSignal, ResultSignal, history
  <2>3. /\ sessions' = [sessions EXCEPT ![s] = None]
        /\ UNCHANGED <<phase, id, pending, serial, calls>>
    BY <2>1, <2>2 DEF Dropped, slots
  <2>4. \A d \in Contexts : id[d] # s
    BY <2>1, OpenField, <1>3, AddonAssumption
  <2>5. SessionsAgree'
    BY <1>4, <2>3, <2>4, AddonAssumption DEF AddonInv, AddonTypeOK, SessionsAgree
  <2> QED
    BY <1>2, <1>4, <2>2, <2>3, <2>5 DEF AddonInv, AddonTypeOK, OwnSession
<1>6. CASE c \in contexts /\ id[c] = s
  <2>1. c \in Contexts /\ id[c] # None
    BY <1>3, <1>6, AddonAssumption DEF AddonInv, AddonTypeOK
  <2>2. ASSUME NEW p, TakeResult(c, s, p), UNCHANGED fate PROVE AddonInv'
    BY <1>2, <1>4, <1>6, <2>1, <2>2, TakesResult DEF history
  <2>3. CASE ResultSignal
    BY <1>6, <2>2, <2>3 DEF ResultSignal, history
  <2>4. ASSUME HandleState(c, s, m.value) PROVE AddonInv'
    <3>1. ASSUME NEW q \in {"Recording", "Transcribing", "Polishing"},
                 phase' = [phase EXCEPT ![c] = q],
                 UNCHANGED <<id, slots, sessions, calls, fate>>
          PROVE  AddonInv'
      BY <1>2, <1>4, <2>1, <3>1
         DEF AddonInv, AddonTypeOK, SessionsAgree, OwnSession, slots, Phases
    <3>2. ASSUME UNCHANGED <<phase, id, slots, sessions, calls, fate>>
          PROVE  AddonInv'
      BY <1>2, <1>4, <3>2
         DEF AddonInv, AddonTypeOK, SessionsAgree, OwnSession, slots
    <3>3. ASSUME ClearSession(c), calls' \in Seq(Calls), UNCHANGED slots,
                 fate = fate' \/ Ends(c, "failed")
          PROVE  AddonInv'
      <4>1. /\ fate' \in [Sessions -> Fates]
            /\ \A t \in Sessions : t # id[c] => fate'[t] = fate[t]
        BY <3>3 DEF Ends, AddonInv, AddonTypeOK, Fates
      <4>2. /\ SessionsAgree' /\ OwnSession'
            /\ sessions' \in [Sessions -> Contexts \cup {None}]
            /\ phase' \in [Contexts -> Phases]
            /\ id' \in [Contexts -> Sessions \cup {None}]
        BY <1>4, <2>1, <3>3, <4>1, ClearsSession
      <4> QED
        BY <1>2, <1>4, <3>3, <4>1, <4>2 DEF AddonInv, AddonTypeOK, slots
    <3>4. CASE m.value \in DOMAIN Shown
               /\ phase' = [phase EXCEPT ![c] = Shown[m.value]]
               /\ UNCHANGED <<id, slots, sessions, calls, fate>>
      <4>1. Shown[m.value] \in {"Recording", "Transcribing", "Polishing"}
        BY <3>4 DEF Shown
      <4> QED BY <3>1, <3>4, <4>1
    <3>5. CASE TakeResult(c, s, "ResultReady") /\ UNCHANGED fate
      BY <2>2, <3>5
    <3>6. CASE /\ IF phase[c] = "TakingResult" THEN Ignored
                  ELSE ClearSession(c) /\ UNCHANGED <<slots, calls>>
               /\ UNCHANGED fate
      BY <3>2, <3>3, <3>6 DEF Ignored, AddonInv, AddonTypeOK
    <3>7. CASE Cancel(c) /\ Ends(c, "failed") /\ UNCHANGED slots
      BY <2>1, <3>3, <3>7, CancelSends
    <3> QED BY <2>4, <3>4, <3>5, <3>6, <3>7 DEF HandleState
  <2>5. CASE StateSignal
    BY <1>6, <2>4, <2>5 DEF StateSignal
  <2> QED BY <2>3, <2>5
<1> QED BY <1>5, <1>6

\* A reply, or none in time (natsutypeless.cpp:305-318, 336-349, 465-496).
LEMMA ReplyKeeps ==
  ASSUME AddonInv, ReplyArrives \/ \E c \in Contexts : CallTimesOut(c)
  PROVE  AddonInv'
<1>1. CASE ReplyArrives
  <2> DEFINE m == Head(mail)
  <2>1. m \in Mail /\ mail' \in Seq(Mail) /\ m.session \in Sessions
    <3>1. m \in Mail /\ mail' \in Seq(Mail)
      BY <1>1, HeadTailProperties DEF ReplyArrives, AddonInv, AddonTypeOK
    <3> QED BY <3>1 DEF Mail
  <2>2. UNCHANGED <<contexts, focus, origin, fate>> BY <1>1 DEF ReplyArrives
  <2>3. ASSUME NEW c \in contexts, Answered(c, m.kind, m.session, m.value)
        PROVE  AddonInv'
    <3>1. c \in Contexts /\ m.kind \in Methods
      BY <1>1 DEF ReplyArrives, AddonInv, AddonTypeOK
    <3>2. fate' \in [Sessions -> Fates] BY <2>2 DEF AddonInv, AddonTypeOK
    <3> QED BY <2>1, <2>2, <2>3, <3>1, <3>2, AnswerKeeps
  <2>4. CASE Ignored /\ UNCHANGED committed
    BY <2>1, <2>2, <2>4
       DEF Ignored, slots, AddonInv, AddonTypeOK, SessionsAgree, OwnSession
  <2> QED BY <1>1, <2>3, <2>4 DEF ReplyArrives
<1>2. ASSUME NEW c \in Contexts, CallTimesOut(c) PROVE AddonInv'
  <2>1. /\ pending[c].session \in Slow
        /\ IF pending[c].session = id[c] THEN Ends(c, "timed_out")
           ELSE UNCHANGED fate
        /\ Answered(c, pending[c].method, pending[c].session, "error")
        /\ UNCHANGED <<contexts, focus, mail, origin>>
    BY <1>2 DEF CallTimesOut
  <2>2. pending[c] \in Calls
    BY <2>1, AddonAssumption DEF AddonInv, AddonTypeOK, NoCall
  <2>3. pending[c].method \in Methods /\ pending[c].session \in Sessions
    BY <2>2 DEF Calls
  <2>4. fate' \in [Sessions -> Fates]
    BY <2>1 DEF Ends, Fates, AddonInv, AddonTypeOK
  <2>5. \/ fate' = fate
        \/ \A t \in Sessions :
              t # id[c] \/ id[c] # pending[c].session => fate'[t] = fate[t]
    BY <2>1 DEF Ends
  <2>6. mail' \in Seq(Mail) BY <2>1 DEF AddonInv, AddonTypeOK
  <2> QED BY <2>1, <2>3, <2>4, <2>5, <2>6, AnswerKeeps
<1> QED BY <1>1, <1>2
-----------------------------------------------------------------------------
\* The steps of the pipeline keep its variables' types.
LEMMA PipelineTypes ==
  ASSUME Daemon!TypeOK,
         \/ UNCHANGED daemonVars
         \/ \E s \in Sessions :
              \/ Daemon!Call(Fcitx, s) \/ Daemon!EndStarts(Fcitx, s)
              \/ Daemon!TaskStep(s) \/ Daemon!TimerStep(s)
         \/ Daemon!HandlerStep
  PROVE  Daemon!TypeOK'
<1> USE DEF Daemon!TypeOK, Daemon!inner, Daemon!timers, Daemon!CallsInProgress,
            Daemon!Free, Daemon!PipelineStates, Daemon!TaskSteps, Daemon!Working
<1>1. CASE UNCHANGED daemonVars
  BY <1>1 DEF daemonVars
<1>2. ASSUME NEW s \in Sessions, Daemon!Call(Fcitx, s) PROVE Daemon!TypeOK'
  <2>1. CASE Daemon!BeginCheck(Fcitx, s) BY <2>1 DEF Daemon!BeginCheck
  <2>2. CASE Daemon!EndCall(Fcitx, s) BY <2>2 DEF Daemon!EndCall
  <2>3. CASE Daemon!CancelCall(Fcitx, s) BY <2>3 DEF Daemon!CancelCall
  <2>4. CASE Daemon!TakeResult(Fcitx, s) BY <2>4 DEF Daemon!TakeResult
  <2> QED BY <1>2, <2>1, <2>2, <2>3, <2>4 DEF Daemon!Call
<1>3. ASSUME NEW s \in Sessions, Daemon!EndStarts(Fcitx, s) PROVE Daemon!TypeOK'
  BY <1>3 DEF Daemon!EndStarts, Daemon!EndTake, Daemon!EndRefused
<1>4. ASSUME NEW s \in Sessions, Daemon!TaskStep(s) PROVE Daemon!TypeOK'
  <2> USE DEF Daemon!Advance, Daemon!FailIfCurrent
  <2>1. CASE Daemon!CaptureFinished(s) BY <2>1 DEF Daemon!CaptureFinished
  <2>2. CASE Daemon!CaptureFailed(s) BY <2>2 DEF Daemon!CaptureFailed
  <2>3. CASE Daemon!TranscribeDone(s) BY <2>3 DEF Daemon!TranscribeDone
  <2>4. CASE Daemon!TranscribeFailed(s) BY <2>4 DEF Daemon!TranscribeFailed
  <2>5. CASE Daemon!MarkPolishing(s) BY <2>5 DEF Daemon!MarkPolishing
  <2>6. CASE Daemon!TaskAbandoned(s) BY <2>6 DEF Daemon!TaskAbandoned
  <2>7. CASE Daemon!StoreResult(s) BY <2>7 DEF Daemon!StoreResult
  <2> QED
    BY <1>4, <2>1, <2>2, <2>3, <2>4, <2>5, <2>6, <2>7 DEF Daemon!TaskStep
<1>5. ASSUME NEW s \in Sessions, Daemon!TimerStep(s) PROVE Daemon!TypeOK'
  <2>1. CASE Daemon!WatchdogFires(s) BY <2>1 DEF Daemon!WatchdogFires
  <2>2. CASE Daemon!WatchdogResets(s)
    BY <2>2 DEF Daemon!WatchdogResets, Daemon!CancelReset
  <2>3. CASE Daemon!ErrorResets(s) BY <2>3 DEF Daemon!ErrorResets
  <2>4. CASE Daemon!ExpireResult(s) BY <2>4 DEF Daemon!ExpireResult
  <2> QED BY <1>5, <2>1, <2>2, <2>3, <2>4 DEF Daemon!TimerStep
<1>6. CASE Daemon!HandlerStep
  BY <1>6 DEF Daemon!HandlerStep, Daemon!BeginGivesUp, Daemon!BeginCommit,
              Daemon!CancelFinish, Daemon!CancelReset, Daemon!CancelConfirm
<1> QED BY <1>1, <1>2, <1>3, <1>4, <1>5, <1>6

\* What the daemon sends tells of a session (dbus.rs).
LEMMA PostedIsMail ==
  /\ \A s \in Sessions, shown \in States : StateChanged(s, shown) \in Mail
  /\ \A s \in Sessions : ResultReady(s) \in Mail
  /\ \A call \in Calls, outcome \in {"ok", "error"} : Reply(call, outcome) \in Mail
BY DEF StateChanged, ResultReady, Reply, Mail, Calls, States

\* A step that leaves the addon's fields alone, and the mail and the calls
\* typed, keeps what is said of the addon.
LEMMA FieldsKept ==
  ASSUME AddonInv, UNCHANGED <<fields, history>>, calls' \in Seq(Calls),
         mail' \in Seq(Mail)
  PROVE  AddonInv'
BY DEF AddonInv, AddonTypeOK, SessionsAgree, OwnSession, fields, history

\* The D-Bus methods (dbus.rs).
LEMMA HandlerKeeps ==
  ASSUME AddonInv, DaemonTypes, HandlerStep
  PROVE  AddonInv' /\ DaemonTypes'
<1> DEFINE call == Head(calls)
<1> USE DEF Dispatch, InHandler, Post
<1>1. UNCHANGED <<fields, history, sending>>
  BY DEF HandlerStep, ServeBegin, BeginFails, BeginSucceeds, ServeEnd, ServeCancel,
         CancelResets, CancelSucceeds, ServeTakeResult
<1>2. calls \in Seq(Calls) /\ mail \in Seq(Mail)
  BY DEF AddonInv, AddonTypeOK
<1>3. ASSUME calls # <<>>, calls' = Tail(calls)
      PROVE  call \in Calls /\ call.session \in Sessions /\ calls' \in Seq(Calls)
  <2>1. call \in Calls /\ calls' \in Seq(Calls)
    BY <1>2, <1>3, HeadTailProperties
  <2> QED BY <2>1 DEF Calls
<1>4. ASSUME handler # Daemon!Free
      PROVE  /\ handler.session \in Sessions
             /\ Begun(handler.session) \in Calls
  BY <1>4 DEF DaemonTypes, Daemon!TypeOK, Daemon!CallsInProgress, Begun, Calls, Methods
<1>5. ASSUME NEW m \in Mail, mail' = mail \o <<m>> PROVE mail' \in Seq(Mail)
  BY <1>2, <1>5
<1>6. ASSUME NEW m \in Mail, NEW n \in Mail, mail' = mail \o <<m, n>>
      PROVE  mail' \in Seq(Mail)
  BY <1>2, <1>6
<1>7. ASSUME calls' \in Seq(Calls), mail' \in Seq(Mail), Daemon!TypeOK'
      PROVE  AddonInv' /\ DaemonTypes'
  BY <1>1, <1>7, FieldsKept DEF DaemonTypes, sending
<1>8. CASE ServeBegin
  <2>1. call \in Calls /\ call.session \in Sessions /\ calls' \in Seq(Calls)
    BY <1>3, <1>8 DEF ServeBegin
  <2>2. \/ Daemon!BeginCheck(Fcitx, call.session) /\ UNCHANGED mail
        \/ UNCHANGED daemonVars /\ mail' = mail \o <<Reply(call, "error")>>
    BY <1>8 DEF ServeBegin
  <2>3. mail' \in Seq(Mail) BY <1>2, <1>5, <2>1, <2>2, PostedIsMail
  <2>4. Daemon!TypeOK'
    BY <2>1, <2>2, PipelineTypes DEF DaemonTypes, Daemon!Call
  <2> QED BY <1>7, <2>1, <2>3, <2>4
<1>9. CASE BeginFails
  <2>1. /\ Daemon!BeginGivesUp /\ UNCHANGED calls
        /\ mail' = mail \o <<Reply(Begun(handler.session), "error")>>
    BY <1>9 DEF BeginFails
  <2>2. handler # Daemon!Free BY <2>1 DEF Daemon!BeginGivesUp, Daemon!Free
  <2>3. mail' \in Seq(Mail) BY <1>4, <1>5, <2>1, <2>2, PostedIsMail
  <2>4. Daemon!TypeOK'
    BY <2>1, PipelineTypes DEF DaemonTypes, Daemon!HandlerStep
  <2> QED BY <1>2, <1>7, <2>1, <2>3, <2>4
<1>10. CASE BeginSucceeds
  <2>1. /\ Daemon!BeginCommit /\ UNCHANGED calls
        /\ mail' = mail \o <<StateChanged(handler.session, "recording"),
                            Reply(Begun(handler.session), "ok")>>
    BY <1>10 DEF BeginSucceeds
  <2>2. handler # Daemon!Free BY <2>1 DEF Daemon!BeginCommit, Daemon!Free
  <2>3. mail' \in Seq(Mail)
    BY <1>4, <1>6, <2>1, <2>2, PostedIsMail DEF States
  <2>4. Daemon!TypeOK'
    BY <2>1, PipelineTypes DEF DaemonTypes, Daemon!HandlerStep
  <2> QED BY <1>2, <1>7, <2>1, <2>3, <2>4
<1>11. CASE ServeEnd
  <2>1. call \in Calls /\ call.session \in Sessions /\ calls' \in Seq(Calls)
    BY <1>3, <1>11 DEF ServeEnd
  <2>2. mail' \in Seq(Mail) BY <1>5, <1>11, <2>1, PostedIsMail DEF ServeEnd
  <2>3. Daemon!TypeOK'
    BY <1>11, <2>1, PipelineTypes DEF DaemonTypes, ServeEnd, Daemon!Call
  <2> QED BY <1>7, <2>1, <2>2, <2>3
<1>12. CASE ServeCancel
  <2>1. call.session \in Sessions /\ calls' \in Seq(Calls)
    BY <1>3, <1>12 DEF ServeCancel
  <2>2. Daemon!TypeOK'
    BY <1>12, <2>1, PipelineTypes DEF DaemonTypes, ServeCancel, Daemon!Call
  <2> QED BY <1>2, <1>7, <1>12, <2>1, <2>2 DEF ServeCancel
<1>13. CASE CancelResets
  <2>1. Daemon!TypeOK'
    BY <1>13, PipelineTypes DEF DaemonTypes, CancelResets, Daemon!HandlerStep
  <2> QED BY <1>2, <1>7, <1>13, <2>1 DEF CancelResets
<1>14. CASE CancelSucceeds
  <2>1. /\ Daemon!CancelConfirm /\ UNCHANGED calls
        /\ mail' = mail \o <<StateChanged(handler.session, "idle")>>
    BY <1>14 DEF CancelSucceeds
  <2>2. handler # Daemon!Free BY <2>1 DEF Daemon!CancelConfirm, Daemon!Free
  <2>3. mail' \in Seq(Mail)
    BY <1>4, <1>5, <2>1, <2>2, PostedIsMail DEF States
  <2>4. Daemon!TypeOK'
    BY <2>1, PipelineTypes DEF DaemonTypes, Daemon!HandlerStep
  <2> QED BY <1>2, <1>7, <2>1, <2>3, <2>4
<1>15. CASE ServeTakeResult
  <2>1. call \in Calls /\ call.session \in Sessions /\ calls' \in Seq(Calls)
    BY <1>3, <1>15 DEF ServeTakeResult
  <2>2. \/ /\ Daemon!TakeResult(Fcitx, call.session)
           /\ mail' = mail \o <<Reply(call, "ok")>>
        \/ UNCHANGED daemonVars /\ mail' = mail \o <<Reply(call, "error")>>
    BY <1>15 DEF ServeTakeResult
  <2>3. mail' \in Seq(Mail) BY <1>5, <2>1, <2>2, PostedIsMail
  <2>4. Daemon!TypeOK'
    BY <2>1, <2>2, PipelineTypes DEF DaemonTypes, Daemon!Call
  <2> QED BY <1>7, <2>1, <2>3, <2>4
<1> QED
  BY <1>8, <1>9, <1>10, <1>11, <1>12, <1>13, <1>14, <1>15 DEF HandlerStep

\* The End tasks, their signals, the timers and the death of the daemon.
LEMMA TasksKeep ==
  ASSUME AddonInv, DaemonTypes,
         \/ \E s \in Sessions : EndStarts(s) \/ EndTaskStep(s) \/ Emit(s)
                               \/ EmitRefused(s) \/ TimerStep(s)
         \/ Dies
  PROVE  AddonInv' /\ DaemonTypes'
<1>1. calls \in Seq(Calls) /\ mail \in Seq(Mail)
  BY DEF AddonInv, AddonTypeOK
<1>2. ASSUME UNCHANGED addonVars PROVE AddonInv'
  BY <1>1, <1>2, FieldsKept DEF addonVars, fields, history
<1>3. ASSUME NEW s \in Sessions, EndStarts(s) PROVE AddonInv' /\ DaemonTypes'
  <2>1. UNCHANGED addonVars /\ tosend' = tosend /\ refused' \subseteq Sessions
    BY <1>3 DEF EndStarts, InTask, sending, DaemonTypes
  <2>2. Daemon!TypeOK'
    BY <1>3, PipelineTypes DEF EndStarts, Daemon!EndStarts, DaemonTypes
  <2> QED BY <1>2, <2>1, <2>2 DEF DaemonTypes
<1>4. ASSUME NEW s \in Sessions, EndTaskStep(s) PROVE AddonInv' /\ DaemonTypes'
  <2>1. \E messages \in Seq(Mail) : Tells(s, messages)
    <3>1. /\ <<>> \in Seq(Mail)
          /\ \A shown \in States : <<StateChanged(s, shown)>> \in Seq(Mail)
          /\ <<StateChanged(s, "result_ready"), ResultReady(s)>> \in Seq(Mail)
      BY PostedIsMail DEF States
    <3> QED BY <1>4, <3>1 DEF EndTaskStep, States
  <2>2. /\ UNCHANGED addonVars /\ refused' = refused
        /\ tosend' \in [Sessions -> Seq(Mail)]
    BY <2>1 DEF Tells, InTask, DaemonTypes
  <2>3. Daemon!TaskStep(s) BY <1>4 DEF EndTaskStep, Daemon!TaskStep
  <2>4. Daemon!TypeOK' BY <2>3, PipelineTypes DEF DaemonTypes
  <2> QED BY <1>2, <2>2, <2>4 DEF DaemonTypes
<1>5. ASSUME NEW s \in Sessions, Emit(s) PROVE AddonInv' /\ DaemonTypes'
  <2>1. Head(tosend[s]) \in Mail /\ Tail(tosend[s]) \in Seq(Mail)
    <3>1. tosend[s] \in Seq(Mail) /\ tosend[s] # <<>>
      BY <1>5 DEF Emit, DaemonTypes
    <3> QED BY <3>1, HeadTailProperties
  <2>2. /\ mail' = mail \o <<Head(tosend[s])>> /\ calls' = calls
        /\ tosend' = [tosend EXCEPT ![s] = Tail(tosend[s])]
        /\ UNCHANGED <<fields, history, daemonVars, refused>>
    BY <1>5 DEF Emit, Post
  <2>3. mail' \in Seq(Mail) /\ tosend' \in [Sessions -> Seq(Mail)]
    BY <1>1, <2>1, <2>2 DEF DaemonTypes
  <2>4. Daemon!TypeOK' BY <2>2, PipelineTypes DEF DaemonTypes
  <2> QED BY <1>1, <2>2, <2>3, <2>4, FieldsKept DEF DaemonTypes
<1>6. ASSUME NEW s \in Sessions, EmitRefused(s) PROVE AddonInv' /\ DaemonTypes'
  <2>1. /\ mail' = mail \o <<StateChanged(s, "error")>> /\ calls' = calls
        /\ tosend' = tosend /\ refused' \subseteq refused
        /\ UNCHANGED <<fields, history, daemonVars>>
    BY <1>6 DEF EmitRefused, Post
  <2>2. StateChanged(s, "error") \in Mail BY PostedIsMail DEF States
  <2>3. mail' \in Seq(Mail) BY <1>1, <2>1, <2>2
  <2>4. Daemon!TypeOK' BY <2>1, PipelineTypes DEF DaemonTypes
  <2> QED BY <1>1, <2>1, <2>3, <2>4, FieldsKept DEF DaemonTypes
<1>7. ASSUME NEW s \in Sessions, TimerStep(s) PROVE AddonInv' /\ DaemonTypes'
  <2>1. Daemon!TimerStep(s) BY <1>7 DEF TimerStep, Daemon!TimerStep
  <2>2. Daemon!TypeOK' BY <2>1, PipelineTypes DEF DaemonTypes
  <2> QED BY <1>2, <1>7, <2>2 DEF TimerStep, sending, DaemonTypes
<1>8. ASSUME Dies PROVE AddonInv' /\ DaemonTypes'
  <2>1. Daemon!TypeOK'
    BY <1>8 DEF Dies, DaemonTypes, Daemon!TypeOK, Daemon!PipelineStates,
                Daemon!TaskSteps, Daemon!Free
  <2>2. /\ calls' = <<>> /\ mail' = mail /\ UNCHANGED <<fields, history>>
        /\ tosend' = [s \in Sessions |-> <<>>] /\ refused' = {}
    BY <1>8 DEF Dies
  <2>3. calls' \in Seq(Calls) /\ tosend' \in [Sessions -> Seq(Mail)]
    BY <2>2
  <2> QED BY <1>1, <2>1, <2>2, <2>3, FieldsKept DEF DaemonTypes
<1> QED BY <1>3, <1>4, <1>5, <1>6, <1>7, <1>8

\* At the start no session is open and nothing is on its way.
LEMMA VoiceInitially == Init => AddonInv /\ DaemonTypes /\ PastTypes
<1> SUFFICES ASSUME Init PROVE AddonInv /\ DaemonTypes /\ PastTypes
  OBVIOUS
<1>1. AddonInv
  BY AddonAssumption
     DEF Init, AddonInit, AddonInv, AddonTypeOK, SessionsAgree, OwnSession, Phases,
         Fates
<1>2. Daemon!TypeOK
  BY DEF Init, Daemon!Init, Daemon!TypeOK, Daemon!PipelineStates, Daemon!TaskSteps,
         Daemon!Free
<1>3. /\ tosend \in [Sessions -> Seq(Mail)] /\ refused \subseteq Sessions
      /\ PastTypes
  BY VoiceAssumption DEF Init, PastTypes
<1> QED BY <1>1, <1>2, <1>3 DEF DaemonTypes

\* All of it is inductive.
LEMMA VoiceKept ==
  ASSUME AddonInv, DaemonTypes, PastTypes, [Next]_vars
  PROVE  AddonInv' /\ DaemonTypes' /\ PastTypes'
<1>1. CASE AddonStep
  <2>1. AddonInv'
    BY <1>1, UserKeeps, SignalKeeps, ReplyKeeps DEF AddonStep, BusStep
  <2>2. UNCHANGED <<daemonVars, sending, past>> BY <1>1 DEF AddonStep
  <2>3. Daemon!TypeOK' BY <2>2, PipelineTypes DEF DaemonTypes
  <2> QED BY <2>1, <2>2, <2>3 DEF DaemonTypes, PastTypes, sending, past
<1>2. CASE DaemonStep
  <2>1. AddonInv' /\ DaemonTypes'
    BY <1>2, HandlerKeeps, TasksKeep DEF DaemonStep
  <2>2. deaths' = deaths \/ (deaths < MaxDeaths /\ deaths' = deaths + 1)
    BY <1>2 DEF DaemonStep, HandlerStep, ServeBegin, BeginFails, BeginSucceeds,
         ServeEnd, ServeCancel, CancelResets, CancelSucceeds, ServeTakeResult,
         Dispatch, InHandler, EndStarts, EndTaskStep, Tells, InTask, Emit,
         EmitRefused, TimerStep, Dies, past
  <2>3. CASE handed' = handed BY <2>1, <2>2, <2>3, VoiceAssumption DEF PastTypes
  <2>4. CASE ServeTakeResult
    <3>1. calls # <<>> /\ calls \in Seq(Calls)
      BY <2>4 DEF ServeTakeResult, Dispatch, AddonInv, AddonTypeOK
    <3>2. Head(calls) \in Calls BY <3>1, HeadTailProperties
    <3>3. Head(calls).session \in Sessions BY <3>2 DEF Calls
    <3>4. handed' \subseteq handed \cup {Head(calls).session}
      BY <2>4 DEF ServeTakeResult
    <3>5. handed' \subseteq Sessions BY <3>3, <3>4 DEF PastTypes
    <3> QED BY <2>1, <2>2, <3>5, VoiceAssumption DEF PastTypes
  <2>5. handed' = handed \/ ServeTakeResult
    BY <1>2 DEF DaemonStep, HandlerStep, ServeBegin, BeginFails, BeginSucceeds,
         ServeEnd, ServeCancel, CancelResets, CancelSucceeds, InHandler,
         EndStarts, EndTaskStep, Tells, InTask, Emit, EmitRefused, TimerStep, Dies,
         past
  <2> QED BY <2>3, <2>4, <2>5
<1>3. CASE UNCHANGED vars
  <2>1. UNCHANGED <<fields, history, calls, mail, daemonVars, sending, past>>
    BY <1>3 DEF vars, addonVars, fields, history, daemonVars, sending, past
  <2>2. AddonInv'
    BY <2>1, FieldsKept DEF AddonInv, AddonTypeOK
  <2>3. Daemon!TypeOK' BY <2>1, PipelineTypes DEF DaemonTypes
  <2> QED BY <2>1, <2>2, <2>3 DEF DaemonTypes, PastTypes, sending, past
<1> QED BY <1>1, <1>2, <1>3 DEF Next

\* Every variable of the addon, the bus and the daemon keeps its type.
THEOREM VoiceTypeCorrect == Spec => []TypeOK
<1>1. AddonInv /\ DaemonTypes /\ PastTypes => TypeOK
  BY DEF AddonInv, DaemonTypes, PastTypes, TypeOK
<1> QED BY <1>1, VoiceInitially, VoiceKept, PTL DEF Spec

\* Whatever the daemon sends, answers late or forgets when it dies, and however
\* the user moves between fields, sessions_ and the states of the contexts
\* agree, and an open session is in the field that has the focus: what
\* takeResult relies on (natsutypeless.cpp:441-497).
THEOREM SessionsAlwaysAgree == Spec => []SessionsAgree
<1>1. AddonInv => SessionsAgree BY DEF AddonInv
<1> QED BY <1>1, VoiceInitially, VoiceKept, PTL DEF Spec

\* A commit is the callback of TakeResult in the field its session is open in,
\* which has the focus (natsutypeless.cpp:465-496).
LEMMA CommitStep ==
  ASSUME AddonInv, [Next]_vars, NEW s \in Sessions, committed'[s] # committed[s]
  PROVE  /\ committed'[s] = origin[s] /\ committed[s] = None
         /\ fate[s] = "open" /\ focus = origin[s]
<1>1. ASSUME NEW c \in Contexts, NEW t \in Sessions, NEW method, NEW outcome,
             Answered(c, method, t, outcome)
      PROVE  /\ committed'[s] = origin[s] /\ committed[s] = None
             /\ fate[s] = "open" /\ focus = origin[s]
  <2>1. id[c] = t /\ focus = c /\ committed' = [committed EXCEPT ![t] = c]
    BY <1>1 DEF Answered
  <2>2. t = s /\ committed'[s] = c
    BY <2>1 DEF AddonInv, AddonTypeOK
  <2> QED BY <2>1, <2>2 DEF AddonInv, OwnSession
<1>2. ASSUME NEW c \in Contexts, CallTimesOut(c)
      PROVE  /\ committed'[s] = origin[s] /\ committed[s] = None
             /\ fate[s] = "open" /\ focus = origin[s]
  <2>1. pending[c].session \in Sessions
    BY <1>2, AddonAssumption DEF CallTimesOut
  <2> QED BY <1>1, <1>2, <2>1 DEF CallTimesOut
<1>3. CASE ReplyArrives
  <2> DEFINE m == Head(mail)
  <2>1. mail \in Seq(Mail) /\ mail # <<>>
    BY <1>3 DEF ReplyArrives, AddonInv, AddonTypeOK
  <2>2. m \in Mail BY <2>1, HeadTailProperties
  <2>3. m.session \in Sessions BY <2>2 DEF Mail
  <2>4. PICK c \in contexts : Answered(c, m.kind, m.session, m.value)
    BY <1>3 DEF ReplyArrives
  <2>5. c \in Contexts BY DEF AddonInv, AddonTypeOK
  <2> QED BY <1>1, <2>3, <2>4, <2>5
<1>4. CASE UserStep
  BY <1>4 DEF UserStep, KeyBegin, KeyEnd, KeyEscape, FocusOut, FocusIn, Destroyed,
              history
<1>5. CASE StateSignal \/ ResultSignal
  BY <1>5 DEF StateSignal, ResultSignal, history
<1>6. CASE DaemonStep
  BY <1>6 DEF DaemonStep, HandlerStep, ServeBegin, BeginFails, BeginSucceeds,
       ServeEnd, ServeCancel, CancelResets, CancelSucceeds, ServeTakeResult,
       Dispatch, InHandler, EndStarts, EndTaskStep, Tells, InTask, Emit,
       EmitRefused, TimerStep, Dies, addonVars, history
<1>7. CASE UNCHANGED vars BY <1>7 DEF vars, addonVars
<1> QED
  BY <1>2, <1>3, <1>4, <1>5, <1>6, <1>7 DEF Next, AddonStep, BusStep

\* "A stale result is never committed into a different window" (README.md:133):
\* a text goes once, to the field its session was begun in, while that field
\* has the focus and the user has not given the session up.
THEOREM TextGoesHome == Spec => CommitsToItsOwn
<1>1. AddonInv /\ [Next]_vars =>
        [\A s \in Sessions : committed'[s] # committed[s] =>
           /\ committed'[s] = origin[s] /\ committed[s] = None
           /\ fate[s] = "open" /\ focus = origin[s]]_vars
  BY CommitStep
<1> QED BY <1>1, VoiceInitially, VoiceKept, PTL DEF Spec, CommitsToItsOwn
=============================================================================
