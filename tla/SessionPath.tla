----------------------------- MODULE SessionPath -----------------------------
(***************************************************************************)
(* Where the audio and the text of one session go: the settings on their   *)
(* way from the addon (configureDaemon) to Pipeline::runtime, the API keys *)
(* (secrets.rs, set and cleared by natsu-typelessctl), the recording, and  *)
(* the requests to the recognizer (asr.rs) and to the post-processing      *)
(* service (openai_compat.rs) that pipeline.rs makes with them.            *)
(*                                                                         *)
(* The addon sends its calls in order and the daemon serves them one at a  *)
(* time; the task that End spawns runs beside them and reads the settings  *)
(* twice, before it uses them each time.  How sessions share the pipeline, *)
(* and the worker process behind the local recognizer, are the subjects of *)
(* DictationPipeline and AsrWorker.                                        *)
(***************************************************************************)
EXTENDS Recording, FiniteSets, Sequences

CONSTANTS
  Configurations, \* what the user may set the addon to
  Default,        \* RuntimeConfig::default
  ValidUrls,      \* the base URLs normalize_base_url lets pass
  QwenBytes,      \* the PCM that fits into Qwen's Data URL
  Keyrings,       \* accounts that may hold a key at first
  Environment,    \* keys the daemon finds in its environment: "asr", "cloud"
  MaxChoices,     \* bound: configurations chosen
  MaxKeyChanges,  \* bound: keys set or cleared
  MaxDeaths       \* bound: deaths of the daemon

Providers == {"local", "qwen_api", "openai_compatible"}

\* asrKey and cloudKey: the service needs a Bearer key; cloud: the option
\* cloud_enabled of the sessions begun under this configuration; max: the
\* maximum of the recording in bytes.
ConfigurationType(c) ==
  /\ c = [asr |-> c.asr, asrUrl |-> c.asrUrl, asrKey |-> c.asrKey,
          cloudUrl |-> c.cloudUrl, cloudKey |-> c.cloudKey, cloud |-> c.cloud,
          max |-> c.max]
  /\ c.asr \in Providers
  /\ {c.asrKey, c.cloudKey, c.cloud} \subseteq BOOLEAN
  /\ c.max \in Limits

ASSUME PathAssumption ==
  /\ \A c \in Configurations \cup {Default} : ConfigurationType(c)
  /\ Default.asrKey /\ Default.cloudKey
  /\ QwenBytes \in Nat
  /\ \A keys \in Keyrings : keys \subseteq {"asr", "cloud", "legacy"}
  /\ MaxChoices \in Nat \ {0}
  /\ MaxKeyChanges \in Nat
  /\ MaxDeaths \in Nat

VARIABLES
  settings,   \* the configurations chosen so far; the addon has the last
  bus,        \* method calls on their way to the daemon
  handler,    \* the method the daemon is serving: "free", "cancel" or Configure
  runtime,    \* Pipeline::runtime, as an index of settings; 0 is the default
  keyring,    \* accounts of the Secret Service that hold a key
  keyChanges, \* calls of natsu-typelessctl so far
  pressed,    \* the settings when the key was pressed, 0 before
  asked,      \* what the addon asked for last in the session
  ending,     \* the End task is spawned and has not taken the recording
  step,       \* where the session is in the daemon
  cancelled,  \* the session was cancelled after its End
  snapshot,   \* the settings the End task read last
  bearer,     \* the key it looked up last: "none", "env" or "stored"
  sent,       \* history: what was handed to which service
  deaths      \* deaths of the daemon so far

addonVars == <<settings, pressed, asked>>
keyVars == <<keyring, keyChanges>>
taskVars == <<snapshot, bearer, sent>>
sessionVars == <<ending, step, cancelled>>
vars == <<recordingVars, settings, bus, handler, runtime, keyring,
          keyChanges, pressed, asked, ending, step, cancelled, snapshot,
          bearer, sent, deaths>>

Configure(n) == [call |-> "Configure", settings |-> n]
Call(method) == [call |-> method, settings |-> 0]
Configures == {Configure(n) : n \in 1..Len(settings)}
Calls == {Call(method) : method \in {"Begin", "End", "Cancel"}} \cup Configures
Accounts == {"asr", "cloud", "legacy"}
Waiting == {"asr_wait", "local"}
Working == {"finishing", "recognizing", "asr_key", "asr_request", "recognized",
            "polishing", "cloud_key", "cloud_request", "cloud_wait", "storing"}
             \cup Waiting
Ended == {"refused", "failed", "cancelled", "stored", "lost"}

TypeOK ==
  /\ RecordingTypeOK
  /\ settings \in Seq(Configurations)
  /\ bus \in Seq(Calls)
  /\ handler \in {Call("free"), Call("Cancel")} \cup Configures
  /\ runtime \in 0..Len(settings)
  /\ keyring \subseteq Accounts
  /\ keyChanges \in Nat
  /\ pressed \in 0..Len(settings)
  /\ asked \in {"nothing", "begin", "end", "cancel"}
  /\ {ending, cancelled} \subseteq BOOLEAN
  /\ step \in {"none", "begun", "recording", "cancelling"} \cup Working \cup Ended
  /\ snapshot \in 0..Len(settings)
  /\ bearer \in {"none", "env", "stored"}
  /\ deaths \in Nat

\* normalize_base_url falls back to the default endpoint.
Normalized(c) ==
  [c EXCEPT !.asrUrl = IF @ \in ValidUrls THEN @ ELSE Default.asrUrl,
            !.cloudUrl = IF @ \in ValidUrls THEN @ ELSE Default.cloudUrl]
InForce(n) == IF n = 0 THEN Default ELSE Normalized(settings[n])

\* The daemon is started by the first call; the addon configures it when
\* it is loaded.
Init ==
  /\ RecordingInit
  /\ settings \in {<<c>> : c \in Configurations}
  /\ bus = <<Configure(1)>>
  /\ handler = Call("free")
  /\ runtime = 0
  /\ keyring \in Keyrings
  /\ keyChanges = 0
  /\ pressed = 0
  /\ asked = "nothing"
  /\ ending = FALSE
  /\ step = "none"
  /\ cancelled = FALSE
  /\ snapshot = 0
  /\ bearer = "none"
  /\ sent = {}
  /\ deaths = 0
-----------------------------------------------------------------------------
(***************************************************************************)
(* The user, at the addon and at natsu-typelessctl                         *)
(***************************************************************************)
AddonCalls(call) ==
  /\ bus' = Append(bus, call)
  /\ UNCHANGED <<recordingVars, handler, runtime, keyVars, ending, cancelled,
                 taskVars, deaths>>

Choose(c) ==
  /\ Len(settings) < MaxChoices
  /\ settings' = Append(settings, c)
  /\ AddonCalls(Configure(Len(settings) + 1))
  /\ UNCHANGED <<pressed, asked, step>>

PressKey ==
  /\ asked = "nothing"
  /\ asked' = "begin"
  /\ pressed' = Len(settings)
  /\ step' = "begun"
  /\ AddonCalls(Call("Begin"))
  /\ UNCHANGED settings

ReleaseKey ==
  /\ asked = "begin"
  /\ asked' = "end"
  /\ AddonCalls(Call("End"))
  /\ UNCHANGED <<settings, pressed, step>>

GiveUp ==
  /\ asked \in {"begin", "end"}
  /\ asked' = "cancel"
  /\ AddonCalls(Call("Cancel"))
  /\ UNCHANGED <<settings, pressed, step>>

\* A command that changes nothing is a stuttering step.
ChangeKeys(accounts) ==
  /\ accounts # keyring
  /\ keyChanges < MaxKeyChanges
  /\ keyChanges' = keyChanges + 1
  /\ keyring' = accounts
  /\ UNCHANGED <<recordingVars, addonVars, bus, handler, runtime, sessionVars,
                 taskVars, deaths>>

SetKey(account) == ChangeKeys(keyring \cup {account})

\* An account that cannot be opened or deleted is passed over in silence.
Clear(accounts) == \E deleted \in SUBSET accounts : ChangeKeys(keyring \ deleted)
ClearAsrKey == Clear({"asr"})
ClearCloudKey == Clear({"cloud", "legacy"})
-----------------------------------------------------------------------------
(***************************************************************************)
(* The daemon's D-Bus methods                                              *)
(***************************************************************************)
\* Mutant of Serves: Configure runs in a task of its own.
ServesBeside(method) ==
  /\ handler.call # "Cancel"
  /\ bus # <<>>
  /\ Head(bus).call = method
  /\ bus' = Tail(bus)

Serves(method) ==
  /\ handler = Call("free")
  /\ bus # <<>>
  /\ Head(bus).call = method
  /\ bus' = Tail(bus)

\* The local worker is stopped first, if the provider is another, which waits
\* for the worker's lock.
ServeConfigure ==
  /\ Serves("Configure")
  /\ handler' = Head(bus)
  /\ UNCHANGED <<recordingVars, addonVars, runtime, keyVars, sessionVars,
                 taskVars, deaths>>

\* Mutant of ConfigureStores: new settings are kept out of a session.
ConfigureSkips ==
  /\ handler.call = "Configure"
  /\ runtime' = IF step \in Working THEN runtime ELSE handler.settings
  /\ handler' = Call("free")
  /\ UNCHANGED <<recordingVars, addonVars, bus, keyVars, sessionVars, taskVars,
                 deaths>>

ConfigureStores ==
  /\ handler.call = "Configure"
  /\ runtime' = handler.settings
  /\ handler' = Call("free")
  /\ UNCHANGED <<recordingVars, addonVars, bus, keyVars, sessionVars, taskVars,
                 deaths>>

DaemonKeeps ==
  UNCHANGED <<addonVars, runtime, keyVars, taskVars, deaths>>

\* A session lost with the daemon is unknown to the next one.
ServeBegin ==
  /\ Serves("Begin")
  /\ \/ step' = "recording" /\ Start(InForce(runtime).max)
     \/ step' = "refused" /\ UNCHANGED recordingVars
  /\ UNCHANGED <<handler, ending, cancelled>>
  /\ DaemonKeeps

ServeEnd ==
  /\ Serves("End")
  /\ ending' = TRUE
  /\ UNCHANGED <<recordingVars, handler, step, cancelled>>
  /\ DaemonKeeps

\* An active recording is stopped; a session being processed is marked, and
\* its task looks at the mark before and after polishing.
CancelSession ==
  IF step = "recording"
  THEN step' = "cancelling" /\ Cancel /\ UNCHANGED cancelled
  ELSE /\ cancelled' = (cancelled \/ step \in Working)
       /\ UNCHANGED <<step, recordingVars>>

ServeCancel ==
  /\ Serves("Cancel")
  /\ CancelSession
  /\ handler' = IF step = "recording" THEN Call("Cancel") ELSE Call("free")
  /\ UNCHANGED ending
  /\ DaemonKeeps

\* The watchdog, max_recording_seconds + 2 after Begin; it is never disarmed.
WatchdogFires ==
  /\ step \in {"recording"} \cup Working
  /\ ~cancelled
  /\ CancelSession
  /\ UNCHANGED <<bus, handler, ending>>
  /\ DaemonKeeps

CancelReset ==
  /\ step = "cancelling"
  /\ owner = "cancelled"
  /\ step' = "cancelled"
  /\ handler' = IF handler.call = "Cancel" THEN Call("free") ELSE handler
  /\ UNCHANGED <<recordingVars, bus, ending, cancelled>>
  /\ DaemonKeeps
-----------------------------------------------------------------------------
(***************************************************************************)
(* The task of End                                                         *)
(***************************************************************************)
TaskKeeps == UNCHANGED <<addonVars, bus, handler, runtime, keyVars, deaths>>

EndTakes ==
  /\ ending
  /\ ending' = FALSE
  /\ IF step = "recording"
     THEN step' = "finishing" /\ Finish
     ELSE UNCHANGED <<step, recordingVars>>
  /\ UNCHANGED <<cancelled, taskVars>>
  /\ TaskKeeps

GoesOn(from, to) ==
  /\ step = from
  /\ step' = to
  /\ UNCHANGED <<recordingVars, ending, cancelled>>
  /\ TaskKeeps

CaptureReturns ==
  /\ owner \in {"audio", "error"}
  /\ GoesOn("finishing", IF owner = "audio" THEN "recognizing" ELSE "failed")
  /\ UNCHANGED taskVars

Sent(to, kind, settingsUsed) ==
  [to |-> to, kind |-> kind, settings |-> settingsUsed, bearer |-> bearer]
Local == "local"

\* transcribe takes a copy of the settings and chooses the recognizer.
ReadAsrSettings ==
  /\ snapshot' = runtime
  /\ bearer' = "none"
  /\ IF InForce(runtime).asr = "local"
     THEN /\ sent' = sent \cup
              {[to |-> Local, kind |-> "audio", settings |-> runtime,
                bearer |-> "none"]}
          /\ GoesOn("recognizing", "local")
     ELSE GoesOn("recognizing", "asr_key") /\ UNCHANGED sent

\* Mutant of Lookup: it tells which account it found.
LookupAccount(kind, accounts) ==
  IF kind \in Environment THEN "env"
  ELSE IF accounts \cap keyring # {} THEN CHOOSE a \in accounts \cap keyring : TRUE
       ELSE "none"

\* The environment comes before the Secret Service.
Lookup(kind, accounts) ==
  IF kind \in Environment THEN "env"
  ELSE IF accounts \cap keyring # {} THEN "stored" ELSE "none"

LookupAsrKey ==
  LET key == Lookup("asr", {"asr"}) IN
  /\ bearer' = key
  /\ GoesOn("asr_key", IF key = "none" /\ InForce(snapshot).asrKey
                       THEN "failed" ELSE "asr_request")
  /\ UNCHANGED <<snapshot, sent>>

TooLarge == InForce(snapshot).asr = "qwen_api" /\ pcm > QwenBytes

SendAudio ==
  /\ IF TooLarge
     THEN GoesOn("asr_request", "failed") /\ UNCHANGED sent
     ELSE /\ GoesOn("asr_request", "asr_wait")
          /\ sent' = sent \cup {Sent(InForce(snapshot).asrUrl, "audio", snapshot)}
  /\ UNCHANGED <<snapshot, bearer>>

AsrAnswers ==
  /\ \E from \in Waiting : GoesOn(from, "recognized")
  /\ UNCHANGED taskVars

\* Mutant of AsrFails: the local recognizer stands in for the remote one.
AsrFailsOver ==
  /\ \/ /\ GoesOn("asr_wait", "local")
        /\ sent' = sent \cup {Sent(Local, "audio", snapshot)}
     \/ GoesOn("local", "failed") /\ UNCHANGED sent
  /\ UNCHANGED <<snapshot, bearer>>

\* An error, a timeout, a malformed answer or no speech.
AsrFails ==
  /\ \E from \in Waiting : GoesOn(from, "failed")
  /\ UNCHANGED taskVars

\* The option cloud_enabled is the one of the key press.
MarkPolishing ==
  /\ GoesOn("recognized",
            IF cancelled THEN "cancelled"
            ELSE IF InForce(pressed).cloud THEN "polishing" ELSE "storing")
  /\ UNCHANGED taskVars

ReadCloudSettings ==
  /\ GoesOn("polishing", "cloud_key")
  /\ snapshot' = runtime
  /\ UNCHANGED <<bearer, sent>>

LookupCloudKey ==
  LET key == Lookup("cloud", {"cloud", "legacy"}) IN
  /\ bearer' = key
  /\ GoesOn("cloud_key", IF key = "none" /\ InForce(snapshot).cloudKey
                         THEN "storing" ELSE "cloud_request")
  /\ UNCHANGED <<snapshot, sent>>

\* Mutant of SendText: the settings are read once more for the request.
SendTextAnywhere ==
  /\ GoesOn("cloud_request", "cloud_wait")
  /\ sent' = sent \cup {Sent(InForce(runtime).cloudUrl, "text", runtime)}
  /\ UNCHANGED <<snapshot, bearer>>

SendText ==
  /\ GoesOn("cloud_request", "cloud_wait")
  /\ sent' = sent \cup {Sent(InForce(snapshot).cloudUrl, "text", snapshot)}
  /\ UNCHANGED <<snapshot, bearer>>

\* Polished or not, a text is there: the transcript stands in.
PolishEnds ==
  /\ GoesOn("cloud_wait", "storing")
  /\ UNCHANGED taskVars

Store ==
  /\ GoesOn("storing", IF cancelled THEN "cancelled" ELSE "stored")
  /\ UNCHANGED taskVars
-----------------------------------------------------------------------------
\* The daemon dies and is started again by the next call, with the default
\* settings; what it was sent and not yet answered is lost.
Dies ==
  /\ deaths < MaxDeaths
  /\ deaths' = deaths + 1
  /\ runtime' = 0
  /\ handler' = Call("free")
  /\ bus' = <<>>
  /\ ending' = FALSE
  /\ IF step \in {"none"} \cup Ended
     THEN UNCHANGED <<step, recordingVars>>
     ELSE step' = "lost" /\ IF owner = "none" THEN UNCHANGED recordingVars ELSE Abandon
  /\ UNCHANGED <<addonVars, keyVars, taskVars, cancelled>>

CaptureKeeps ==
  UNCHANGED <<addonVars, bus, handler, runtime, keyVars, sessionVars, taskVars,
              deaths>>
CaptureStep == (ChildStep \/ ReaderStep \/ OwnerStep) /\ CaptureKeeps

UserStep ==
  \/ \E c \in Configurations : Choose(c)
  \/ PressKey \/ ReleaseKey \/ GiveUp
  \/ \E account \in {"asr", "cloud"} : SetKey(account)
  \/ ClearAsrKey \/ ClearCloudKey

HandlerStep ==
  ServeConfigure \/ ConfigureStores \/ ServeBegin \/ ServeEnd \/ ServeCancel

TaskStep ==
  \/ EndTakes \/ CaptureReturns
  \/ ReadAsrSettings \/ LookupAsrKey \/ SendAudio \/ AsrAnswers \/ AsrFails
  \/ MarkPolishing \/ ReadCloudSettings \/ LookupCloudKey \/ SendText
  \/ PolishEnds \/ Store

Next ==
  UserStep \/ HandlerStep \/ TaskStep \/ WatchdogFires \/ CancelReset
    \/ CaptureStep \/ Dies

Spec == Init /\ [][Next]_vars

\* Configure waits for the lock of the local worker before it stores a remote
\* provider, which another session may hold for good: its write to the worker
\* has no timeout (asr.rs:29-34, worker.rs:119-123).
Stopping == handler.call = "Configure" /\ InForce(handler.settings).asr # "local"

\* For the same reason the local recognizer need not answer, and neither need the
\* Secret Service when a key is looked up (asr.rs:59, pipeline.rs:228).
Unanswered ==
  step \in {"local", "asr_key", "cloud_key"} \/ (step = "begun" /\ Stopping)

Serving == ServeConfigure \/ ServeBegin \/ ServeEnd \/ ServeCancel
TaskRuns ==
  \/ EndTakes \/ CaptureReturns \/ ReadAsrSettings \/ SendAudio
  \/ step = "asr_wait" /\ (AsrAnswers \/ AsrFails)
  \/ MarkPolishing \/ ReadCloudSettings \/ SendText \/ PolishEnds \/ Store

\* The bus delivers and tasks are polled, HTTP requests have timeouts, and so
\* have finish and cancel; pw-record need not obey, nobody need press or release
\* a key, and the watchdog stops a recording that is left alone.
Fairness ==
  /\ WF_vars(Serving)
  /\ WF_vars(~Stopping /\ ConfigureStores)
  /\ WF_vars(TaskRuns)
  /\ WF_vars(CancelReset)
  /\ WF_vars(step = "recording" /\ WatchdogFires)
  /\ WF_vars((ReadChunk \/ ReadEnd) /\ CaptureKeeps)
  /\ WF_vars(OwnerStep /\ CaptureKeeps)

FairSpec == Spec /\ Fairness
-----------------------------------------------------------------------------
(***************************************************************************)
(* What a session uses is at least as new as the settings the user had     *)
(* chosen when the key was pressed: Configure is sent before Begin and     *)
(* completed before Begin is served (cpp:185-226, dbus.rs:26-36), unless   *)
(* the daemon died.                                                        *)
(***************************************************************************)
SettingsInForce ==
  deaths = 0 => \A m \in sent : m.settings >= pressed

(***************************************************************************)
(* A request leaves without a key only for a service of which the user has *)
(* said that it needs none, whatever the user changes in the meantime      *)
(* (README.md:181-183; asr.rs:63, pipeline.rs:227-247).                    *)
(***************************************************************************)
KeyRequired ==
  \A m \in sent : m.to # Local /\ m.bearer = "none" =>
    \E n \in 1..Len(settings) :
      LET c == Normalized(settings[n]) IN
      \/ m.kind = "audio" /\ m.to = c.asrUrl /\ ~c.asrKey
      \/ m.kind = "text" /\ m.to = c.cloudUrl /\ ~c.cloudKey

(***************************************************************************)
(* A session's audio goes to one recognizer and never to a second one, even*)
(* if the first fails (README.md:136, asr.rs:44-71).                       *)
(***************************************************************************)
OneRecognizer == Cardinality({m \in sent : m.kind = "audio"}) <= 1

(***************************************************************************)
(* Settings that were chosen come into force, or newer ones do, unless the *)
(* daemon died or waits for the local worker (pipeline.rs:78-89): a        *)
(* Configure is not lost behind a session in progress.                     *)
(***************************************************************************)
SettingsArrive == <>[](runtime = Len(settings) \/ deaths > 0 \/ Stopping)

(***************************************************************************)
(* Every session ends, and leaves no reader task behind, unless it waits   *)
(* for what has no timeout, and whatever the user and pw-record do: finish *)
(* and cancel return (audio.rs:82-99), the watchdog stops a recording that *)
(* is left alone (pipeline.rs:140-145), HTTP requests end                  *)
(* (dbus.rs:63-101).                                                       *)
(***************************************************************************)
SessionEnds ==
  <>[](step \in {"none"} \cup Ended \/ Unanswered) /\ <>[](reader # "reading")

(***************************************************************************)
(* Services receive only what the user has at some time configured them    *)
(* for (README.md:205-207).  A daemon that was started again has the       *)
(* default settings, and the addon does not configure it again.            *)
(***************************************************************************)
ConfiguredService ==
  \A m \in sent : \E n \in 1..Len(settings) :
    LET c == Normalized(settings[n]) IN
    m.to = CASE m.kind = "text" -> c.cloudUrl
             [] c.asr = "local" -> Local
             [] OTHER -> c.asrUrl
=============================================================================
