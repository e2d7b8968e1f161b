-------------------------- MODULE SessionPathProofs --------------------------
(***************************************************************************)
(* What holds of the way of a session's audio and text for any settings,   *)
(* keys, sizes and bounds.                                                 *)
(***************************************************************************)
EXTENDS SessionPath, RecordingProofs, FiniteSetTheorems

\* The settings in force are a configuration, normalized or not
\* (pipeline.rs:436-468).
LEMMA InForceType ==
  ASSUME settings \in Seq(Configurations), NEW n \in 0..Len(settings)
  PROVE  /\ InForce(n).max \in Limits
         /\ InForce(n).asrKey \in BOOLEAN
         /\ InForce(n).cloudKey \in BOOLEAN
<1>1. CASE n = 0
  BY <1>1, PathAssumption DEF InForce, ConfigurationType
<1>2. CASE n # 0
  <2>1. settings[n] \in Configurations BY <1>2
  <2>2. PICK c \in Configurations : c = settings[n] BY <2>1
  <2>3. ConfigurationType(c) BY <2>2, PathAssumption
  <2>4. /\ Normalized(c).max = c.max
        /\ Normalized(c).asrKey = c.asrKey
        /\ Normalized(c).cloudKey = c.cloudKey
    BY <2>3 DEF ConfigurationType, Normalized
  <2>5. InForce(n) = Normalized(c) BY <1>2, <2>2 DEF InForce
  <2> QED BY <2>3, <2>4, <2>5 DEF ConfigurationType
<1> QED BY <1>1, <1>2

\* The session starts, finishes, cancels and abandons its recording where the
\* recording allows it (pipeline.rs:120-164, 337-370).
LEMMA RecordingDriven ==
  ASSUME TypeOK, [Next]_vars
  PROVE  [RecordingStep]_recordingVars
<1> USE DEF RecordingStep
<1>1. CASE UserStep
  BY <1>1 DEF UserStep, Choose, PressKey, ReleaseKey, GiveUp, AddonCalls,
     SetKey, ClearAsrKey, ClearCloudKey, Clear, ChangeKeys
<1>2. CASE HandlerStep
  <2>1. CASE ServeConfigure BY <2>1 DEF ServeConfigure
  <2>2. CASE ConfigureStores BY <2>2 DEF ConfigureStores
  <2>3. CASE ServeBegin
    <3>1. InForce(runtime).max \in Limits BY InForceType DEF TypeOK
    <3> QED BY <2>3, <3>1 DEF ServeBegin
  <2>4. CASE ServeEnd BY <2>4 DEF ServeEnd
  <2>5. CASE ServeCancel BY <2>5 DEF ServeCancel, CancelSession
  <2> QED BY <1>2, <2>1, <2>2, <2>3, <2>4, <2>5 DEF HandlerStep
<1>3. CASE TaskStep
  BY <1>3 DEF TaskStep, EndTakes, GoesOn, CaptureReturns, ReadAsrSettings,
     LookupAsrKey, SendAudio, AsrAnswers, AsrFails, MarkPolishing,
     ReadCloudSettings, LookupCloudKey, SendText, PolishEnds, Store
<1>4. CASE WatchdogFires BY <1>4 DEF WatchdogFires, CancelSession
<1>5. CASE CancelReset BY <1>5 DEF CancelReset
<1>6. CASE CaptureStep BY <1>6 DEF CaptureStep
<1>7. CASE Dies BY <1>7 DEF Dies
<1>8. CASE UNCHANGED vars BY <1>8 DEF vars
<1> QED BY <1>1, <1>2, <1>3, <1>4, <1>5, <1>6, <1>7, <1>8 DEF Next
-----------------------------------------------------------------------------
(***************************************************************************)
(* Types                                                                   *)
(***************************************************************************)
Steps == {"none", "begun", "recording", "cancelling"} \cup Working \cup Ended
\* A queue of calls of one kind is a queue of calls.
LEMMA SeqSubset ==
  ASSUME NEW S, NEW T, S \subseteq T, NEW s \in Seq(S)
  PROVE  s \in Seq(T)
OBVIOUS

\* The addon's calls carry settings that were chosen (natsutypeless.cpp:180-226).
LEMMA UserTypes ==
  ASSUME TypeOK, UserStep PROVE bus' \in Seq(Calls') /\ TypeOK'
<1> USE DEF TypeOK
<1>1. ASSUME NEW c \in Configurations, Choose(c)
      PROVE  bus' \in Seq(Calls') /\ TypeOK'
  <2>1. /\ settings' = Append(settings, c)
        /\ settings' \in Seq(Configurations)
        /\ Len(settings') = Len(settings) + 1
    BY <1>1 DEF Choose
  <2>2. bus \in Seq(Calls')
    <3>1. Calls \subseteq Calls' BY <2>1 DEF Calls, Configures
    <3> QED BY <3>1, SeqSubset DEF Calls
  <2>3. Configure(Len(settings) + 1) \in Calls'
    BY <2>1 DEF Calls, Configures, Configure
  <2>4. bus' \in Seq(Calls')
    BY <1>1, <2>2, <2>3 DEF Choose, AddonCalls
  <2>5. handler' \in {Call("free"), Call("Cancel")} \cup Configures'
    BY <1>1, <2>1 DEF Choose, AddonCalls, Configures, Configure
  <2>6. runtime' \in 0..Len(settings') /\ snapshot' \in 0..Len(settings')
          /\ pressed' \in 0..Len(settings')
    BY <1>1, <2>1 DEF Choose, AddonCalls, taskVars
  <2>7. UNCHANGED <<recordingVars, keyVars, ending, cancelled, taskVars, deaths,
                    asked, step>>
    BY <1>1 DEF Choose, AddonCalls
  <2> QED
    BY <2>1, <2>4, <2>5, <2>6, <2>7
       DEF recordingVars, RecordingTypeOK, keyVars, taskVars
<1>2. ASSUME PressKey \/ ReleaseKey \/ GiveUp
      PROVE  bus' \in Seq(Calls') /\ TypeOK'
  <2>1. UNCHANGED settings BY <1>2 DEF PressKey, ReleaseKey, GiveUp
  <2>2. \A method \in {"Begin", "End", "Cancel"} : Call(method) \in Calls
    BY DEF Calls
  <2>3. \E method \in {"Begin", "End", "Cancel"} : AddonCalls(Call(method))
    BY <1>2 DEF PressKey, ReleaseKey, GiveUp
  <2>4. bus' \in Seq(Calls')
    BY <2>1, <2>2, <2>3 DEF AddonCalls, Calls, Configures
  <2>5. /\ UNCHANGED <<recordingVars, handler, runtime, keyVars, ending,
                       cancelled, taskVars, deaths>>
        /\ pressed' \in 0..Len(settings)
        /\ asked' \in {"nothing", "begin", "end", "cancel"}
        /\ step' \in Steps
    BY <1>2 DEF PressKey, ReleaseKey, GiveUp, AddonCalls, Steps
  <2> QED
    BY <2>1, <2>4, <2>5
       DEF recordingVars, RecordingTypeOK, keyVars, taskVars, Calls, Configures, Steps
<1>3. ASSUME \/ \E account \in {"asr", "cloud"} : SetKey(account)
             \/ ClearAsrKey \/ ClearCloudKey
      PROVE  bus' \in Seq(Calls') /\ TypeOK'
  <2>1. PICK accounts \in SUBSET Accounts : ChangeKeys(accounts)
    <3>1. CASE \E account \in {"asr", "cloud"} : SetKey(account)
      BY <3>1 DEF SetKey, Accounts
    <3>2. CASE ClearAsrKey \/ ClearCloudKey
      <4>1. PICK deleted : ChangeKeys(keyring \ deleted)
        BY <3>2 DEF ClearAsrKey, ClearCloudKey, Clear
      <4>2. keyring \ deleted \in SUBSET Accounts
        OBVIOUS
      <4> QED BY <4>1, <4>2
    <3> QED BY <1>3, <3>1, <3>2
  <2> QED
    BY <2>1 DEF ChangeKeys, recordingVars, RecordingTypeOK, addonVars,
       sessionVars, taskVars, Calls, Configures
<1> QED BY <1>1, <1>2, <1>3 DEF UserStep

\* Taking the first element leaves a sequence of the same set.
LEMMA HeadAndTail ==
  ASSUME NEW S, NEW s \in Seq(S), s # <<>>
  PROVE  Head(s) \in S /\ Tail(s) \in Seq(S)
OBVIOUS

\* The daemon takes calls from the front (dbus.rs:28-61).
LEMMA HandlerTypesKept ==
  ASSUME TypeOK, RecordingTypeOK', HandlerStep PROVE TypeOK'
<1> USE DEF TypeOK
<1>1. ASSUME bus # <<>> PROVE Head(bus) \in Calls /\ Tail(bus) \in Seq(Calls)
  BY <1>1, HeadAndTail
<1>2. CASE ServeConfigure
  <2>1. /\ bus # <<>> /\ bus' = Tail(bus)
        /\ handler' = Head(bus) /\ Head(bus).call = "Configure"
        /\ UNCHANGED <<recordingVars, addonVars, runtime, keyVars, sessionVars,
                       taskVars, deaths>>
    BY <1>2 DEF ServeConfigure, Serves
  <2>2. Head(bus) \in Configures BY <1>1, <2>1 DEF Calls, Call
  <2> QED
    BY <1>1, <2>1, <2>2 DEF addonVars, keyVars, sessionVars, taskVars, Calls,
       Configures
<1>3. CASE ConfigureStores
  <2>1. handler \in Configures BY <1>3 DEF ConfigureStores, Call
  <2> QED
    BY <1>3, <2>1 DEF ConfigureStores, Configure, addonVars, keyVars,
       sessionVars, taskVars, Calls, Configures
<1>4. ASSUME ServeBegin \/ ServeEnd \/ ServeCancel PROVE TypeOK'
  <2>1. /\ bus # <<>> /\ bus' = Tail(bus)
        /\ handler' \in {handler, Call("Cancel"), Call("free")}
        /\ step' \in {step, "recording", "refused", "cancelling"}
        /\ ending' \in BOOLEAN /\ cancelled' \in BOOLEAN
        /\ UNCHANGED <<addonVars, runtime, keyVars, taskVars, deaths>>
    BY <1>4 DEF ServeBegin, ServeEnd, ServeCancel, CancelSession, Serves,
       DaemonKeeps
  <2> QED
    BY <1>1, <2>1 DEF addonVars, keyVars, taskVars, Calls, Configures, Ended
<1> QED BY <1>2, <1>3, <1>4 DEF HandlerStep

\* The End task changes the session and what is its own (dbus.rs:68-99).
LEMMA TaskTypesKept ==
  ASSUME TypeOK, RecordingTypeOK', TaskStep PROVE TypeOK'
<1>1. TaskKeeps BY DEF TaskStep, EndTakes, GoesOn, CaptureReturns,
  ReadAsrSettings, LookupAsrKey, SendAudio, AsrAnswers, AsrFails, MarkPolishing,
  ReadCloudSettings, LookupCloudKey, SendText, PolishEnds, Store
<1>2. /\ step' \in Steps
      /\ ending' \in BOOLEAN /\ cancelled' \in BOOLEAN
  BY DEF TypeOK, TaskStep, EndTakes, GoesOn, CaptureReturns, ReadAsrSettings,
     LookupAsrKey, SendAudio, AsrAnswers, AsrFails, MarkPolishing,
     ReadCloudSettings, LookupCloudKey, SendText, PolishEnds, Store,
     Steps, Working, Waiting, Ended
<1>3. snapshot' \in {snapshot, runtime}
  BY DEF TypeOK, TaskStep, EndTakes, GoesOn, CaptureReturns, ReadAsrSettings,
     LookupAsrKey, SendAudio, AsrAnswers, AsrFails, MarkPolishing,
     ReadCloudSettings, LookupCloudKey, SendText, PolishEnds, Store, taskVars
<1>4. bearer' \in {"none", "env", "stored"}
  BY DEF TypeOK, TaskStep, EndTakes, GoesOn, CaptureReturns, ReadAsrSettings,
     LookupAsrKey, SendAudio, AsrAnswers, AsrFails, MarkPolishing,
     ReadCloudSettings, LookupCloudKey, SendText, PolishEnds, Store, taskVars,
     Lookup
<1> QED
  BY <1>1, <1>2, <1>3, <1>4
     DEF TypeOK, TaskKeeps, addonVars, keyVars, Calls, Configures, Steps

\* The program starts with typed variables and no recording (natsutypeless.cpp:175).
LEMMA TypesInitially == Init => TypeOK /\ RecordingInv
<1> SUFFICES ASSUME Init PROVE TypeOK /\ RecordingInv OBVIOUS
<1>1. RecordingInv BY RecordingInitInv DEF Init
<1>2. PICK c \in Configurations : settings = <<c>> BY DEF Init
<1>3. settings \in Seq(Configurations) /\ Len(settings) = 1 BY <1>2
<1>4. bus \in Seq(Calls)
  BY <1>3 DEF Init, Calls, Configures
<1>5. keyring \subseteq Accounts BY PathAssumption DEF Init, Accounts
<1>6. /\ handler = Call("free") /\ step = "none" /\ asked = "nothing"
      /\ runtime = 0 /\ pressed = 0 /\ snapshot = 0 /\ bearer = "none"
      /\ keyChanges = 0 /\ deaths = 0
      /\ ending = FALSE /\ cancelled = FALSE
  BY DEF Init
<1>7. handler \in {Call("free"), Call("Cancel")} \cup Configures BY <1>6
<1>8. /\ runtime \in 0..Len(settings) /\ pressed \in 0..Len(settings)
      /\ snapshot \in 0..Len(settings)
  BY <1>3, <1>6
<1>9. {ending, cancelled} \subseteq BOOLEAN BY <1>6
<1> QED
  BY <1>1, <1>3, <1>4, <1>5, <1>6, <1>7, <1>8, <1>9 DEF TypeOK, RecordingInv

\* Every step of the program keeps the types, the recording's included.
LEMMA TypesKept ==
  TypeOK /\ RecordingInv /\ [Next]_vars => TypeOK' /\ RecordingInv'
<1> SUFFICES ASSUME TypeOK, RecordingInv, [Next]_vars
             PROVE  TypeOK' /\ RecordingInv'
    OBVIOUS
<1>1. RecordingInv' BY RecordingDriven, RecordingStepInv
<1>2. RecordingTypeOK' BY <1>1 DEF RecordingInv
<1>3. CASE UserStep BY <1>3, UserTypes, <1>1
<1>4. CASE HandlerStep BY <1>1, <1>2, <1>4, HandlerTypesKept
<1>5. CASE TaskStep BY <1>1, <1>2, <1>5, TaskTypesKept
<1>6. CASE WatchdogFires \/ CancelReset
  <2>1. /\ handler' \in {handler, Call("free")}
        /\ step' \in {step, "cancelling", "cancelled"}
        /\ cancelled' \in BOOLEAN
        /\ UNCHANGED <<bus, ending, addonVars, runtime, keyVars, taskVars, deaths>>
    BY <1>6 DEF WatchdogFires, CancelReset, CancelSession, DaemonKeeps, TypeOK
  <2> QED
    BY <1>1, <1>2, <2>1 DEF TypeOK, addonVars, keyVars, taskVars, Calls,
       Configures, Ended
<1>7. CASE CaptureStep
  BY <1>1, <1>2, <1>7 DEF CaptureStep, CaptureKeeps, TypeOK, addonVars, keyVars,
     sessionVars, taskVars, Calls, Configures
<1>8. CASE Dies
  <2>1. /\ bus' = <<>> /\ handler' = Call("free") /\ runtime' = 0
        /\ ending' = FALSE /\ step' \in {step, "lost"} /\ deaths' = deaths + 1
        /\ UNCHANGED <<addonVars, keyVars, taskVars, cancelled>>
    BY <1>8 DEF Dies
  <2>2. bus' \in Seq(Calls') BY <2>1
  <2>3. deaths' \in Nat BY <2>1 DEF TypeOK
  <2>4. step' \in Steps BY <2>1 DEF TypeOK, Steps, Ended
  <2>5. handler' \in {Call("free"), Call("Cancel")} \cup Configures' BY <2>1
  <2>6. {ending', cancelled'} \subseteq BOOLEAN BY <2>1 DEF TypeOK
  <2> QED
    BY <1>1, <1>2, <2>1, <2>2, <2>3, <2>4, <2>5, <2>6 DEF TypeOK, addonVars,
       keyVars, taskVars, Steps
<1>9. CASE UNCHANGED vars
  BY <1>1, <1>2, <1>9 DEF vars, TypeOK, Calls, Configures
<1> QED BY <1>3, <1>4, <1>5, <1>6, <1>7, <1>8, <1>9 DEF Next

\* The variables keep their types: a key that is looked up is told apart by
\* where it comes from only, and every call on the bus is one the addon makes
\* (secrets.rs:12-60, dbus.rs:28-61).
THEOREM PathTypeCorrect == Spec => []TypeOK
<1>1. Init => TypeOK /\ RecordingInv BY TypesInitially
<1>2. TypeOK /\ RecordingInv /\ [Next]_vars => TypeOK' /\ RecordingInv'
  BY TypesKept
<1> QED BY <1>1, <1>2, PTL DEF Spec

\* What finish returns is all that was recorded, within the bounds
\* (audio.rs:52-93).
THEOREM RecordingIsWhole == Spec => []WholeRecording
<1>1. TypeOK /\ RecordingInv /\ [Next]_vars => TypeOK' /\ RecordingInv'
  BY TypesKept
<1>2. RecordingInv => WholeRecording BY RecordingPromises
<1> QED BY TypesInitially, <1>1, <1>2, PTL DEF Spec

\* The microphone is off once finish or cancel has returned, even if pw-record
\* ignores SIGINT (audio.rs:82-99).
THEOREM MicrophoneIsOff == Spec => []MicrophoneOff
<1>1. TypeOK /\ RecordingInv /\ [Next]_vars => TypeOK' /\ RecordingInv'
  BY TypesKept
<1>2. RecordingInv => MicrophoneOff BY RecordingPromises
<1> QED BY TypesInitially, <1>1, <1>2, PTL DEF Spec
-----------------------------------------------------------------------------
(***************************************************************************)
(* The settings in force                                                   *)
(*                                                                         *)
(* The bus keeps the order of the calls.  As long as the daemon lives,     *)
(* settings only become newer on their way from the bus through the        *)
(* handler to the runtime (Rising), the newest are somewhere on that way   *)
(* (Newest), and what a Begin is entitled to is ahead of it (Ahead).       *)
(***************************************************************************)
AtLeast(call, n) == call.call = "Configure" /\ call.settings >= n

\* Before the key is pressed no Begin is on its way.
Unpressed ==
  asked = "nothing" =>
    step = "none" /\ \A i \in 1..Len(bus) : bus[i] # Call("Begin")

Rising ==
  /\ handler.call = "Configure" => runtime < handler.settings
  /\ \A i \in 1..Len(bus) : bus[i].call = "Configure" =>
       /\ runtime < bus[i].settings
       /\ handler.call = "Configure" => handler.settings < bus[i].settings
       /\ \A j \in 1..i - 1 :
            bus[j].call = "Configure" => bus[j].settings < bus[i].settings

Newest ==
  \/ runtime = Len(settings)
  \/ AtLeast(handler, Len(settings))
  \/ \E i \in 1..Len(bus) : AtLeast(bus[i], Len(settings))

Ahead ==
  \A i \in 1..Len(bus) : bus[i].call = "Begin" =>
    /\ step = "begun"
    /\ \A j \in 1..i - 1 : bus[j].call # "Begin"
    /\ \/ runtime >= pressed
       \/ AtLeast(handler, pressed)
       \/ \E j \in 1..i - 1 : AtLeast(bus[j], pressed)

InUse ==
  /\ step = "none" => sent = {}
  /\ step \notin {"none", "begun"} => runtime >= pressed
  /\ step \in {"asr_key", "asr_request", "cloud_key", "cloud_request"} =>
       snapshot >= pressed
  /\ \A m \in sent : m.settings >= pressed

Fresh == deaths = 0 => Rising /\ Newest /\ Ahead /\ InUse

\* Where a request can leave without a key, the service asks for none.
KeyChecked ==
  /\ step = "asr_request" /\ bearer = "none" => ~InForce(snapshot).asrKey
  /\ step = "cloud_request" /\ bearer = "none" => ~InForce(snapshot).cloudKey

\* Nothing is sent before the recording was started, and before the audio is
\* handed out none was.
BeforeAudio == {"none", "begun", "recording", "cancelling", "finishing",
                "recognizing", "asr_key", "asr_request"}
AudioOnce ==
  /\ step \in {"recording", "cancelling"} \cup Working => owner # "none"
  /\ owner = "none" => sent = {}
  /\ step \in BeforeAudio => \A m \in sent : m.kind # "audio"
  /\ \A m1, m2 \in sent : m1.kind = "audio" /\ m2.kind = "audio" => m1 = m2
-----------------------------------------------------------------------------
(***************************************************************************)
(* Keys                                                                    *)
(***************************************************************************)
\* Steps of the others leave the session's steps to its task and to what
\* begins, cancels or loses it.
LEMMA OthersKeep ==
  ASSUME UserStep \/ HandlerStep \/ WatchdogFires \/ CancelReset \/ CaptureStep
           \/ Dies \/ UNCHANGED vars
  PROVE  /\ step' \in {step, "begun", "recording", "refused", "cancelling",
                       "cancelled", "lost"}
         /\ UNCHANGED <<snapshot, bearer, sent>>
         /\ \/ UNCHANGED settings
            \/ \E c \in Configurations : settings' = Append(settings, c)
<1>1. CASE UserStep
  BY <1>1 DEF UserStep, Choose, PressKey, ReleaseKey, GiveUp, AddonCalls, SetKey,
     ClearAsrKey, ClearCloudKey, Clear, ChangeKeys, addonVars, sessionVars, taskVars
<1>2. CASE HandlerStep
  BY <1>2 DEF HandlerStep, ServeConfigure, ConfigureStores, ServeBegin, ServeEnd,
     ServeCancel, CancelSession, DaemonKeeps, addonVars, sessionVars, taskVars
<1>3. CASE WatchdogFires \/ CancelReset
  BY <1>3 DEF WatchdogFires, CancelReset, CancelSession, DaemonKeeps, addonVars,
     taskVars
<1>4. CASE CaptureStep
  BY <1>4 DEF CaptureStep, CaptureKeeps, addonVars, sessionVars, taskVars
<1>5. CASE Dies BY <1>5 DEF Dies, addonVars, taskVars
<1>6. CASE UNCHANGED vars BY <1>6 DEF vars
<1> QED BY <1>1, <1>2, <1>3, <1>4, <1>5, <1>6

\* Settings that were chosen once stay what they were.
LEMMA SettingsStay ==
  ASSUME TypeOK, NEW c \in Configurations, settings' = Append(settings, c)
  PROVE  /\ Len(settings') = Len(settings) + 1
         /\ \A n \in 1..Len(settings) : settings'[n] = settings[n]
         /\ \A n \in 0..Len(settings) : InForce(n)' = InForce(n)
<1>1. settings \in Seq(Configurations) BY DEF TypeOK
<1>2. /\ Len(settings') = Len(settings) + 1
      /\ \A n \in 1..Len(settings) : settings'[n] = settings[n]
  BY <1>1
<1> QED BY <1>2 DEF InForce

KeyInv == KeyChecked /\ KeyRequired

\* No step sends a request without a key it was to have: the key is looked up for
\* the settings the request leaves with (asr.rs:58-69, pipeline.rs:226-247).
LEMMA KeyStep ==
  TypeOK /\ KeyInv /\ [Next]_vars => KeyInv'
<1> SUFFICES ASSUME TypeOK, KeyInv, [Next]_vars PROVE KeyInv' OBVIOUS
<1>1. CASE UserStep \/ HandlerStep \/ WatchdogFires \/ CancelReset \/ CaptureStep
             \/ Dies \/ UNCHANGED vars
  <2>1. /\ step' \in {step, "begun", "recording", "refused", "cancelling",
                      "cancelled", "lost"}
        /\ UNCHANGED <<snapshot, bearer, sent>>
        /\ \/ UNCHANGED settings
           \/ \E c \in Configurations : settings' = Append(settings, c)
    BY <1>1, OthersKeep
  <2>2. InForce(snapshot)' = InForce(snapshot)
    <3>1. CASE UNCHANGED settings BY <2>1, <3>1 DEF InForce
    <3>2. ASSUME NEW c \in Configurations, settings' = Append(settings, c)
          PROVE  InForce(snapshot)' = InForce(snapshot)
      <4>1. snapshot \in 0..Len(settings) /\ UNCHANGED snapshot
        BY <2>1 DEF TypeOK
      <4>2. \A n \in 0..Len(settings) : InForce(n)' = InForce(n)
        BY <3>2, SettingsStay
      <4> QED BY <4>1, <4>2
    <3> QED BY <2>1, <3>1, <3>2
  <2>3. KeyChecked' BY <2>1, <2>2 DEF KeyChecked, KeyInv
  <2>4. \A n \in 1..Len(settings) :
          n \in 1..Len(settings') /\ settings'[n] = settings[n]
    <3>1. ASSUME NEW c \in Configurations, settings' = Append(settings, c)
          PROVE  \A n \in 1..Len(settings) :
                   n \in 1..Len(settings') /\ settings'[n] = settings[n]
      BY <3>1, SettingsStay DEF TypeOK
    <3> QED BY <2>1, <3>1
  <2>5. KeyRequired' BY <2>1, <2>4 DEF KeyInv, KeyRequired
  <2> QED BY <2>3, <2>5 DEF KeyInv
<1>2. CASE TaskStep
  <2>1. UNCHANGED settings
    BY <1>2 DEF TaskStep, EndTakes, GoesOn, CaptureReturns, ReadAsrSettings,
       LookupAsrKey, SendAudio, AsrAnswers, AsrFails, MarkPolishing,
       ReadCloudSettings, LookupCloudKey, SendText, PolishEnds, Store,
       TaskKeeps, addonVars
  <2>2. \A n : InForce(n)' = InForce(n) BY <2>1 DEF InForce
  <2>3. CASE LookupAsrKey
    BY <2>1, <2>2, <2>3 DEF LookupAsrKey, GoesOn, KeyInv, KeyChecked, KeyRequired
  <2>4. CASE LookupCloudKey
    BY <2>1, <2>2, <2>4 DEF LookupCloudKey, GoesOn, KeyInv, KeyChecked, KeyRequired
  <2>5. CASE ReadAsrSettings
    BY <2>1, <2>2, <2>5 DEF ReadAsrSettings, GoesOn, KeyInv, KeyChecked, KeyRequired
  <2>6. CASE SendAudio
    <3>1. KeyChecked' BY <2>6 DEF SendAudio, GoesOn, KeyChecked
    <3>2. ASSUME bearer = "none"
          PROVE  /\ snapshot \in 1..Len(settings)
                 /\ InForce(snapshot) = Normalized(settings[snapshot])
                 /\ ~InForce(snapshot).asrKey
      BY <2>6, <3>2, PathAssumption DEF SendAudio, GoesOn, KeyInv, KeyChecked,
         InForce, TypeOK
    <3>3. ASSUME NEW m \in sent' \ sent, m.bearer = "none"
          PROVE  \E n \in 1..Len(settings) :
                   LET c == Normalized(settings[n]) IN
                   m.kind = "audio" /\ m.to = c.asrUrl /\ ~c.asrKey
      <4>1. m = Sent(InForce(snapshot).asrUrl, "audio", snapshot)
        BY <2>6, <3>3 DEF SendAudio
      <4>2. bearer = "none" BY <3>3, <4>1 DEF Sent
      <4> QED BY <3>2, <4>1, <4>2 DEF Sent
    <3> QED BY <2>1, <3>1, <3>3 DEF KeyInv, KeyRequired
  <2>7. CASE SendText
    <3>1. KeyChecked' BY <2>7 DEF SendText, GoesOn, KeyChecked
    <3>2. ASSUME bearer = "none"
          PROVE  /\ snapshot \in 1..Len(settings)
                 /\ InForce(snapshot) = Normalized(settings[snapshot])
                 /\ ~InForce(snapshot).cloudKey
      BY <2>7, <3>2, PathAssumption DEF SendText, GoesOn, KeyInv, KeyChecked,
         InForce, TypeOK
    <3>3. ASSUME NEW m \in sent' \ sent, m.bearer = "none"
          PROVE  \E n \in 1..Len(settings) :
                   LET c == Normalized(settings[n]) IN
                   m.kind = "text" /\ m.to = c.cloudUrl /\ ~c.cloudKey
      <4>1. m = Sent(InForce(snapshot).cloudUrl, "text", snapshot)
        BY <2>7, <3>3 DEF SendText
      <4>2. bearer = "none" BY <3>3, <4>1 DEF Sent
      <4> QED BY <3>2, <4>1, <4>2 DEF Sent
    <3> QED BY <2>1, <3>1, <3>3 DEF KeyInv, KeyRequired
  <2>8. CASE EndTakes \/ CaptureReturns \/ AsrAnswers \/ AsrFails \/ MarkPolishing
               \/ ReadCloudSettings \/ PolishEnds \/ Store
    <3>1. /\ UNCHANGED sent
          /\ \/ step' \notin {"asr_request", "cloud_request"}
             \/ UNCHANGED <<step, snapshot, bearer>>
      BY <2>8 DEF EndTakes, CaptureReturns, AsrAnswers, AsrFails, MarkPolishing,
         ReadCloudSettings, PolishEnds, Store, GoesOn, taskVars
    <3> QED BY <2>1, <2>2, <3>1 DEF KeyInv, KeyChecked, KeyRequired
  <2> QED BY <1>2, <2>3, <2>4, <2>5, <2>6, <2>7, <2>8 DEF TaskStep
<1> QED BY <1>1, <1>2 DEF Next

\* A request leaves without a key only for a service the user configured to
\* need none, whatever is changed between the lookup and the request
\* (asr.rs:63, pipeline.rs:227-247).
THEOREM KeysAreRequired == Spec => []KeyRequired
<1>1. Init => KeyInv BY DEF Init, KeyInv, KeyChecked, KeyRequired
<1>2. TypeOK /\ RecordingInv /\ [Next]_vars => TypeOK' /\ RecordingInv'
  BY TypesKept
<1>3. KeyInv => KeyRequired BY DEF KeyInv
<1> QED BY TypesInitially, <1>1, <1>2, <1>3, KeyStep, PTL DEF Spec
-----------------------------------------------------------------------------
(***************************************************************************)
(* One recognizer                                                          *)
(***************************************************************************)
LEMMA OwnerStays ==
  ASSUME TypeOK, [Next]_vars PROVE owner # "none" => owner' # "none"
<1>1. [RecordingStep]_recordingVars BY RecordingDriven
<1> QED
  BY <1>1 DEF RecordingStep, recordingVars, Start, ChildStep, ChildWrites,
     ChildBreaks, ChildLeaves, ReaderStep, ReadChunk, ReadEnd, ReadFails,
     OwnerStep, FinishWaited, FinishDrained, FinishTimesOut, CancelWaited,
     Finish, Cancel, Abandon

\* As long as the key was not pressed no Begin is on its way and no session runs
\* (natsutypeless.cpp:237-247, 268-305).
LEMMA UnpressedStep == TypeOK /\ Unpressed /\ [Next]_vars => Unpressed'
<1> SUFFICES ASSUME TypeOK, Unpressed, [Next]_vars, asked' = "nothing"
             PROVE  step' = "none" /\ \A i \in 1..Len(bus') : bus'[i] # Call("Begin")
    BY DEF Unpressed
<1>1. bus \in Seq(Calls) BY DEF TypeOK
<1>2. ASSUME asked = "nothing", step' = step,
             \/ UNCHANGED bus
             \/ bus # <<>> /\ bus' = Tail(bus)
             \/ \E n : bus' = Append(bus, Configure(n))
             \/ bus' = <<>>
      PROVE  step' = "none" /\ \A i \in 1..Len(bus') : bus'[i] # Call("Begin")
  <2>1. step = "none" /\ \A i \in 1..Len(bus) : bus[i] # Call("Begin")
    BY <1>2 DEF Unpressed
  <2>2. CASE UNCHANGED bus BY <1>2, <2>1, <2>2
  <2>3. CASE bus # <<>> /\ bus' = Tail(bus) BY <1>1, <1>2, <2>1, <2>3
  <2>4. ASSUME NEW n, bus' = Append(bus, Configure(n))
        PROVE  \A i \in 1..Len(bus') : bus'[i] # Call("Begin")
    <3>1. Configure(n) # Call("Begin") BY DEF Configure, Call
    <3> QED BY <1>1, <2>1, <2>4, <3>1
  <2>5. CASE bus' = <<>> BY <1>2, <2>1, <2>5
  <2> QED BY <1>2, <2>1, <2>2, <2>3, <2>4, <2>5
<1>3. CASE UserStep
  BY <1>2, <1>3 DEF UserStep, Choose, PressKey, ReleaseKey, GiveUp, AddonCalls,
     SetKey, ClearAsrKey, ClearCloudKey, Clear, ChangeKeys, addonVars, sessionVars
<1>4. CASE HandlerStep
  <2>1. asked = "nothing" BY <1>4 DEF HandlerStep, ServeConfigure, ConfigureStores,
    ServeBegin, ServeEnd, ServeCancel, DaemonKeeps, addonVars
  <2>2. step = "none" /\ \A i \in 1..Len(bus) : bus[i] # Call("Begin")
    BY <2>1 DEF Unpressed
  <2>3. ~ServeBegin
    <3>1. ASSUME bus # <<>>, Head(bus).call = "Begin" PROVE FALSE
      <4>1. Head(bus) = bus[1] /\ 1 \in 1..Len(bus) /\ bus[1] \in Calls BY <1>1, <3>1
      <4>2. bus[1] = Call("Begin")
        BY <3>1, <4>1 DEF Calls, Configures, Configure, Call
      <4> QED BY <2>2, <4>1, <4>2
    <3> QED BY <3>1 DEF ServeBegin, Serves
  <2>4. step' = step
    BY <1>4, <2>2, <2>3 DEF HandlerStep, ServeConfigure, ConfigureStores,
       ServeEnd, ServeCancel, CancelSession, sessionVars
  <2>5. bus' = bus \/ (bus # <<>> /\ bus' = Tail(bus))
    <3>1. CASE ConfigureStores BY Zenon, <3>1 DEF ConfigureStores
    <3>2. CASE ServeConfigure BY <3>2 DEF ServeConfigure, Serves
    <3>3. CASE ServeEnd BY <3>3 DEF ServeEnd, Serves
    <3>4. CASE ServeCancel BY <3>4 DEF ServeCancel, Serves
    <3> QED BY <1>4, <2>3, <3>1, <3>2, <3>3, <3>4 DEF HandlerStep
  <2> QED BY <1>2, <2>1, <2>4, <2>5
<1>5. CASE TaskStep
  <2>1. UNCHANGED <<asked, bus>>
    BY <1>5 DEF TaskStep, EndTakes, GoesOn, CaptureReturns, ReadAsrSettings,
       LookupAsrKey, SendAudio, AsrAnswers, AsrFails, MarkPolishing,
       ReadCloudSettings, LookupCloudKey, SendText, PolishEnds, Store,
       TaskKeeps, addonVars
  <2>2. step' = step
    BY <1>5, <2>1 DEF Unpressed, TaskStep, EndTakes, GoesOn, CaptureReturns,
       ReadAsrSettings, LookupAsrKey, SendAudio, AsrAnswers, AsrFails,
       MarkPolishing, ReadCloudSettings, LookupCloudKey, SendText, PolishEnds,
       Store, Waiting
  <2> QED BY <1>2, <2>1, <2>2
<1>6. CASE WatchdogFires \/ CancelReset
  <2>1. asked = "nothing" BY <1>6 DEF WatchdogFires, CancelReset, DaemonKeeps,
    addonVars
  <2> QED
    BY <1>6, <2>1 DEF WatchdogFires, CancelReset, Unpressed, Working, Waiting
<1>7. CASE CaptureStep \/ UNCHANGED vars
  BY <1>2, <1>7 DEF CaptureStep, CaptureKeeps, addonVars, sessionVars, vars
<1>8. CASE Dies BY <1>2, <1>8 DEF Dies, addonVars, Unpressed
<1> QED BY <1>3, <1>4, <1>5, <1>6, <1>7, <1>8 DEF Next

\* Audio leaves only from a step that is never entered again (dbus.rs:68-99).
LEMMA AudioOnceStep ==
  TypeOK /\ Unpressed /\ AudioOnce /\ [Next]_vars => AudioOnce'
<1> SUFFICES ASSUME TypeOK, Unpressed, AudioOnce, [Next]_vars PROVE AudioOnce'
    OBVIOUS
<1>1. owner # "none" => owner' # "none" BY OwnerStays
<1>2. CASE UserStep \/ HandlerStep \/ WatchdogFires \/ CancelReset \/ CaptureStep
             \/ Dies \/ UNCHANGED vars
  <2>1. UNCHANGED sent BY <1>2, OthersKeep
  <2>2. \/ UNCHANGED step
        \/ step' \in Ended
        \/ step' = "begun" /\ asked = "nothing"
        \/ step' = "recording" /\ owner = "none" /\ owner' # "none"
        \/ step' = "cancelling" /\ step = "recording"
    BY <1>2 DEF UserStep, Choose, PressKey, ReleaseKey, GiveUp, AddonCalls, SetKey,
       ClearAsrKey, ClearCloudKey, Clear, ChangeKeys, sessionVars, HandlerStep,
       ServeConfigure, ConfigureStores, ServeBegin, ServeEnd, ServeCancel,
       CancelSession, DaemonKeeps, WatchdogFires, CancelReset, CaptureStep,
       CaptureKeeps, Dies, Start, Ended, vars
  <2> QED
    BY <1>1, <2>1, <2>2 DEF AudioOnce, Unpressed, BeforeAudio, Working, Waiting,
       Ended
<1>3. CASE TaskStep
  <2>1. CASE EndTakes
    BY <1>1, <2>1 DEF EndTakes, AudioOnce, BeforeAudio, Working, Waiting, taskVars
  <2>2. CASE CaptureReturns \/ AsrAnswers \/ AsrFails \/ MarkPolishing
               \/ PolishEnds \/ Store \/ LookupAsrKey \/ ReadCloudSettings
               \/ LookupCloudKey
    <3>1. /\ UNCHANGED sent
          /\ step \in Working
          /\ step' \in Working \cup Ended
          /\ step' \in BeforeAudio => step \in BeforeAudio
      BY <2>2 DEF CaptureReturns, AsrAnswers, AsrFails, MarkPolishing, PolishEnds,
         Store, LookupAsrKey, ReadCloudSettings, LookupCloudKey, GoesOn, taskVars,
         Working, Waiting, Ended, BeforeAudio
    <3> QED BY <1>1, <3>1 DEF AudioOnce
  <2>3. CASE ReadAsrSettings
    BY <1>1, <2>3 DEF ReadAsrSettings, GoesOn, AudioOnce, BeforeAudio, Working,
       Waiting
  <2>4. CASE SendAudio
    BY <1>1, <2>4 DEF SendAudio, Sent, GoesOn, AudioOnce, BeforeAudio, Working,
       Waiting, Ended
  <2>5. CASE SendText
    BY <1>1, <2>5 DEF SendText, Sent, GoesOn, AudioOnce, BeforeAudio, Working,
       Waiting, Ended
  <2> QED BY <1>3, <2>1, <2>2, <2>3, <2>4, <2>5 DEF TaskStep
<1> QED BY <1>2, <1>3 DEF Next

\* The audio of a session goes to one recognizer, once (asr.rs:44-71).
THEOREM OneRecognizerOnly == Spec => []OneRecognizer
<1>1. Init => Unpressed /\ AudioOnce
  BY DEF Init, RecordingInit, Unpressed, AudioOnce, Working, Waiting, Configure,
     Call
<1>2. TypeOK /\ RecordingInv /\ [Next]_vars => TypeOK' /\ RecordingInv'
  BY TypesKept
<1>3. AudioOnce => OneRecognizer
  <2> SUFFICES ASSUME AudioOnce PROVE OneRecognizer OBVIOUS
  <2> DEFINE audio == {m \in sent : m.kind = "audio"}
  <2>1. CASE audio = {} BY <2>1, FS_EmptySet DEF OneRecognizer
  <2>2. CASE audio # {}
    <3>1. PICK m \in audio : TRUE BY <2>2
    <3>2. audio = {m} BY <3>1 DEF AudioOnce
    <3>3. Cardinality(audio) = 1 BY <3>2, FS_Singleton
    <3> QED BY <3>3 DEF OneRecognizer
  <2> QED BY <2>1, <2>2
<1> QED BY TypesInitially, <1>1, <1>2, <1>3, UnpressedStep, AudioOnceStep,
   PTL DEF Spec
-----------------------------------------------------------------------------
(***************************************************************************)
(* The settings in force                                                   *)
(***************************************************************************)
\* What is known of the calls on the bus and of the one being served.
LEMMA CallsKnown ==
  ASSUME TypeOK
  PROVE  /\ bus \in Seq(Calls)
         /\ \A i \in 1..Len(bus) :
              /\ bus[i] \in Calls
              /\ bus[i].call = "Configure" => bus[i].settings \in 1..Len(settings)
         /\ handler.call = "Configure" => handler.settings \in 1..Len(settings)
         /\ Len(settings) \in Nat /\ runtime \in Nat /\ pressed \in 0..Len(settings)
<1>1. bus \in Seq(Calls) /\ \A i \in 1..Len(bus) : bus[i] \in Calls
  BY DEF TypeOK
<1>2. ASSUME NEW c \in Calls, c.call = "Configure"
      PROVE  c.settings \in 1..Len(settings)
  BY <1>2 DEF Calls, Configures, Configure, Call
<1>3. handler.call = "Configure" => handler.settings \in 1..Len(settings)
  BY DEF TypeOK, Configures, Configure, Call
<1> QED BY <1>1, <1>2, <1>3 DEF TypeOK

\* The head of the bus is served, the rest moves up.
LEMMA MovesUp ==
  ASSUME TypeOK, bus # <<>>, bus' = Tail(bus)
  PROVE  /\ 1 \in 1..Len(bus) /\ Head(bus) = bus[1]
         /\ Len(bus') = Len(bus) - 1
         /\ \A i \in 1..Len(bus') : bus'[i] = bus[i + 1] /\ i + 1 \in 1..Len(bus)
BY CallsKnown

\* A call is sent behind those on their way.
LEMMA IsAppended ==
  ASSUME TypeOK, NEW c, bus' = Append(bus, c)
  PROVE  /\ Len(bus') = Len(bus) + 1 /\ Len(bus) \in Nat
         /\ bus'[Len(bus) + 1] = c
         /\ \A i \in 1..Len(bus) : bus'[i] = bus[i]
BY CallsKnown

\* Settings become newer on their way, and the newest are on it.
LEMMA RisingStep ==
  ASSUME TypeOK, [Next]_vars, deaths' = 0, Rising, Newest
  PROVE  Rising' /\ Newest'
<1> USE CallsKnown
<1>1. ASSUME NEW c \in Configurations, Choose(c) PROVE Rising' /\ Newest'
  <2>1. bus' = Append(bus, Configure(Len(settings) + 1)) BY <1>1 DEF Choose, AddonCalls
  <2>2. UNCHANGED <<handler, runtime>> BY <1>1 DEF Choose, AddonCalls
  <2>3. Len(settings') = Len(settings) + 1 BY <1>1, SettingsStay DEF Choose
  <2>4. Configure(Len(settings) + 1).call = "Configure"
        /\ Configure(Len(settings) + 1).settings = Len(settings) + 1
    BY DEF Configure
  <2>5. runtime <= Len(settings) BY DEF TypeOK
  <2>6. Rising' BY <2>1, <2>2, <2>3, <2>4, <2>5, IsAppended DEF Rising
  <2>7. AtLeast(bus[Len(bus)]', Len(settings)')
    BY <2>1, <2>3, <2>4, IsAppended DEF AtLeast
  <2> QED BY <2>1, <2>6, <2>7, IsAppended DEF Newest
<1>2. ASSUME NEW c, c.call # "Configure", bus' = Append(bus, c),
             UNCHANGED <<handler, runtime, settings>>
      PROVE  Rising' /\ Newest'
  BY <1>2, IsAppended DEF Rising, Newest, AtLeast
<1>3. CASE ServeConfigure
  <2>1. /\ bus # <<>> /\ bus' = Tail(bus)
        /\ handler' = Head(bus) /\ Head(bus).call = "Configure"
        /\ handler.call # "Configure"
        /\ UNCHANGED <<runtime, settings>>
    BY <1>3 DEF ServeConfigure, Serves, Call, addonVars
  <2>2. Rising' BY <2>1, MovesUp DEF Rising
  <2>3. CASE runtime = Len(settings) BY <2>1, <2>2, <2>3 DEF Newest
  <2>4. ASSUME NEW i \in 1..Len(bus), AtLeast(bus[i], Len(settings)) PROVE Newest'
    <3>1. CASE i = 1 BY <2>1, <2>4, <3>1, MovesUp DEF Newest, AtLeast
    <3>2. CASE i # 1
      <4>1. i - 1 \in 1..Len(bus') /\ bus'[i - 1] = bus[i] BY <2>1, <3>2, MovesUp
      <4> QED BY <2>1, <2>4, <4>1 DEF Newest, AtLeast
    <3> QED BY <3>1, <3>2
  <2> QED BY <2>1, <2>2, <2>3, <2>4 DEF Newest, AtLeast
<1>4. CASE ConfigureStores
  <2>1. /\ handler.call = "Configure" /\ runtime' = handler.settings
        /\ handler'.call # "Configure" /\ UNCHANGED <<bus, settings>>
    BY <1>4 DEF ConfigureStores, Call, addonVars
  <2>2. Rising' BY <2>1 DEF Rising
  <2>3. CASE runtime = Len(settings) BY <2>1, <2>3 DEF Rising
  <2>4. CASE AtLeast(handler, Len(settings)) BY <2>1, <2>2, <2>4 DEF AtLeast, Newest
  <2>5. ASSUME NEW i \in 1..Len(bus), AtLeast(bus[i], Len(settings)) PROVE Newest'
    BY <2>1, <2>5 DEF AtLeast, Newest
  <2> QED BY <2>2, <2>3, <2>4, <2>5 DEF Newest
<1>5. CASE ServeBegin \/ ServeEnd \/ ServeCancel
  <2>1. /\ bus # <<>> /\ bus' = Tail(bus) /\ Head(bus).call # "Configure"
        /\ handler.call # "Configure" /\ handler'.call # "Configure"
        /\ UNCHANGED <<runtime, settings>>
    BY <1>5 DEF ServeBegin, ServeEnd, ServeCancel, Serves, Call, DaemonKeeps, addonVars
  <2>2. Rising' BY <2>1, MovesUp DEF Rising
  <2>3. CASE runtime = Len(settings) BY <2>1, <2>2, <2>3 DEF Newest
  <2>4. ASSUME NEW i \in 1..Len(bus), AtLeast(bus[i], Len(settings)) PROVE Newest'
    <3>1. i # 1 BY <2>1, <2>4, MovesUp DEF AtLeast
    <3>2. i - 1 \in 1..Len(bus') /\ bus'[i - 1] = bus[i] BY <2>1, <3>1, MovesUp
    <3> QED BY <2>1, <2>4, <3>2 DEF Newest, AtLeast
  <2> QED BY <2>1, <2>2, <2>3, <2>4 DEF Newest, AtLeast
<1>6. CASE PressKey \/ ReleaseKey \/ GiveUp
  <2>1. PICK method : /\ method \in {"Begin", "End", "Cancel"}
                      /\ AddonCalls(Call(method)) /\ UNCHANGED settings
    BY <1>6 DEF PressKey, ReleaseKey, GiveUp
  <2>2. Call(method).call # "Configure" BY <2>1 DEF Call
  <2> QED BY <1>2, <2>1, <2>2 DEF AddonCalls
<1>7. ASSUME UNCHANGED <<bus, runtime, settings>>,
             handler' = handler \/ (handler.call # "Configure" /\ handler'.call # "Configure")
      PROVE  Rising' /\ Newest'
  BY <1>7 DEF Rising, Newest, AtLeast
<1>8. CASE \/ \E account \in {"asr", "cloud"} : SetKey(account)
           \/ ClearAsrKey \/ ClearCloudKey
  BY <1>7, <1>8 DEF SetKey, ClearAsrKey, ClearCloudKey, Clear, ChangeKeys, addonVars
<1>9. CASE TaskStep
  <2>1. TaskKeeps
    BY <1>9 DEF TaskStep, EndTakes, GoesOn, CaptureReturns, ReadAsrSettings,
       LookupAsrKey, SendAudio, AsrAnswers, AsrFails, MarkPolishing,
       ReadCloudSettings, LookupCloudKey, SendText, PolishEnds, Store
  <2> QED BY <1>7, <2>1 DEF TaskKeeps, addonVars
<1>10. CASE WatchdogFires \/ CancelReset \/ CaptureStep \/ UNCHANGED vars
  BY <1>7, <1>10 DEF WatchdogFires, CancelReset, CaptureStep, CaptureKeeps,
     DaemonKeeps, addonVars, Call, vars
<1>11. ~Dies BY DEF Dies, TypeOK
<1> QED
  BY <1>1, <1>3, <1>4, <1>5, <1>6, <1>8, <1>9, <1>10, <1>11
     DEF Next, UserStep, HandlerStep

\* What a Begin is entitled to stays ahead of it.
LEMMA AheadStep ==
  ASSUME TypeOK, [Next]_vars, deaths' = 0, Unpressed, Rising, Newest, Ahead
  PROVE  Ahead'
<1> USE CallsKnown
<1>1. ASSUME NEW c, c.call # "Begin", bus' = Append(bus, c),
             UNCHANGED <<handler, runtime, pressed, step>>
      PROVE  Ahead'
  BY <1>1, IsAppended DEF Ahead, AtLeast
<1>2. CASE PressKey
  <2>1. /\ bus' = Append(bus, Call("Begin")) /\ pressed' = Len(settings)
        /\ UNCHANGED <<handler, runtime>> /\ step' = "begun" /\ asked = "nothing"
    BY <1>2 DEF PressKey, AddonCalls
  <2>2. ASSUME NEW i \in 1..Len(bus) PROVE bus[i].call # "Begin"
    <3>1. bus[i] # Call("Begin") BY <2>1 DEF Unpressed
    <3>2. bus[i] \in Calls OBVIOUS
    <3> QED BY <3>1, <3>2 DEF Calls, Configures, Configure, Call
  <2>3. ASSUME NEW i \in 1..Len(bus'), bus'[i].call = "Begin"
        PROVE  i = Len(bus) + 1
    BY <2>1, <2>2, <2>3, IsAppended
  <2>4. \/ runtime' >= pressed'
        \/ AtLeast(handler', pressed')
        \/ \E j \in 1..Len(bus) : AtLeast(bus'[j], pressed')
    <3>1. CASE runtime = Len(settings) BY <2>1, <3>1
    <3>2. CASE AtLeast(handler, Len(settings)) BY <2>1, <3>2
    <3>3. ASSUME NEW j \in 1..Len(bus), AtLeast(bus[j], Len(settings))
          PROVE  AtLeast(bus'[j], pressed')
      BY <2>1, <3>3, IsAppended
    <3> QED BY <3>1, <3>2, <3>3 DEF Newest
  <2> QED BY <2>1, <2>2, <2>3, <2>4, IsAppended DEF Ahead, AtLeast
<1>3. CASE ServeConfigure
  <2>1. /\ bus # <<>> /\ bus' = Tail(bus)
        /\ handler' = Head(bus) /\ Head(bus).call = "Configure"
        /\ handler.call # "Configure"
        /\ UNCHANGED <<runtime, pressed, step>>
    BY <1>3 DEF ServeConfigure, Serves, Call, addonVars, sessionVars
  <2>2. ASSUME NEW i \in 1..Len(bus'), bus'[i].call = "Begin"
        PROVE  /\ step' = "begun"
               /\ \A j \in 1..i - 1 : bus'[j].call # "Begin"
    BY <2>1, <2>2, MovesUp DEF Ahead
  <2>3. ASSUME NEW i \in 1..Len(bus'), bus'[i].call = "Begin",
               ~(runtime' >= pressed'), ~AtLeast(handler', pressed')
        PROVE  \E j \in 1..i - 1 : AtLeast(bus'[j], pressed')
    <3>1. PICK j \in 1..i : AtLeast(bus[j], pressed)
      BY <2>1, <2>3, MovesUp DEF Ahead, AtLeast
    <3>2. j # 1 BY <2>1, <2>3, <3>1, MovesUp
    <3>3. j - 1 \in 1..i - 1 /\ bus'[j - 1] = bus[j] BY <2>1, <3>1, <3>2, MovesUp
    <3> QED BY <2>1, <3>1, <3>3
  <2> QED BY <2>2, <2>3 DEF Ahead, AtLeast
<1>4. CASE ConfigureStores
  <2>1. /\ handler.call = "Configure" /\ runtime' = handler.settings
        /\ handler'.call # "Configure" /\ UNCHANGED <<bus, pressed, step>>
    BY <1>4 DEF ConfigureStores, Call, addonVars, sessionVars
  <2> QED BY <2>1 DEF Ahead, AtLeast, Rising
<1>5. CASE ServeBegin
  <2>1. bus # <<>> /\ bus' = Tail(bus) /\ Head(bus).call = "Begin"
    BY <1>5 DEF ServeBegin, Serves
  <2> QED BY <2>1, MovesUp DEF Ahead
<1>6. CASE ServeEnd \/ ServeCancel
  <2>1. /\ bus # <<>> /\ bus' = Tail(bus) /\ Head(bus).call # "Configure"
        /\ handler.call # "Configure" /\ handler'.call # "Configure"
        /\ UNCHANGED <<runtime, pressed>> /\ (step' = step \/ step # "begun")
    BY <1>6 DEF ServeEnd, ServeCancel, Serves, Call, DaemonKeeps, addonVars,
       CancelSession
  <2>2. ASSUME NEW i \in 1..Len(bus'), bus'[i].call = "Begin"
        PROVE  /\ step' = "begun"
               /\ \A j \in 1..i - 1 : bus'[j].call # "Begin"
    BY <2>1, <2>2, MovesUp DEF Ahead
  <2>3. ASSUME NEW i \in 1..Len(bus'), bus'[i].call = "Begin",
               ~(runtime' >= pressed')
        PROVE  \E j \in 1..i - 1 : AtLeast(bus'[j], pressed')
    <3>1. PICK j \in 1..i : AtLeast(bus[j], pressed)
      BY <2>1, <2>3, MovesUp DEF Ahead, AtLeast
    <3>2. j # 1 BY <2>1, <3>1, MovesUp DEF AtLeast
    <3>3. j - 1 \in 1..i - 1 /\ bus'[j - 1] = bus[j] BY <2>1, <3>1, <3>2, MovesUp
    <3> QED BY <2>1, <3>1, <3>3
  <2> QED BY <2>2, <2>3 DEF Ahead, AtLeast
<1>7. CASE \/ ReleaseKey \/ GiveUp \/ \E c \in Configurations : Choose(c)
  <2>1. PICK c : /\ c \in {Call("End"), Call("Cancel"), Configure(Len(settings) + 1)}
                 /\ AddonCalls(c) /\ UNCHANGED <<pressed, step>>
    BY <1>7 DEF ReleaseKey, GiveUp, Choose
  <2>2. c.call # "Begin" BY <2>1 DEF Call, Configure
  <2> QED BY <1>1, <2>1, <2>2 DEF AddonCalls
<1>8. ASSUME UNCHANGED <<bus, runtime, pressed>>, step' = step \/ step # "begun",
             handler' = handler \/ (handler.call # "Configure" /\ handler'.call # "Configure")
      PROVE  Ahead'
  BY <1>8 DEF Ahead, AtLeast
<1>9. CASE \/ \E account \in {"asr", "cloud"} : SetKey(account)
           \/ ClearAsrKey \/ ClearCloudKey
  BY <1>8, <1>9 DEF SetKey, ClearAsrKey, ClearCloudKey, Clear, ChangeKeys, addonVars,
     sessionVars
<1>10. CASE TaskStep
  <2>1. TaskKeeps
    BY <1>10 DEF TaskStep, EndTakes, GoesOn, CaptureReturns, ReadAsrSettings,
       LookupAsrKey, SendAudio, AsrAnswers, AsrFails, MarkPolishing,
       ReadCloudSettings, LookupCloudKey, SendText, PolishEnds, Store
  <2>2. step' = step \/ step # "begun"
    BY <1>10 DEF TaskStep, EndTakes, GoesOn, CaptureReturns, ReadAsrSettings,
       LookupAsrKey, SendAudio, AsrAnswers, AsrFails, MarkPolishing,
       ReadCloudSettings, LookupCloudKey, SendText, PolishEnds, Store, Waiting
  <2> QED BY <1>8, <2>1, <2>2 DEF TaskKeeps, addonVars
<1>11. CASE WatchdogFires \/ CancelReset \/ CaptureStep \/ UNCHANGED vars
  BY <1>8, <1>11 DEF WatchdogFires, CancelReset, CancelSession, CaptureStep,
     CaptureKeeps, DaemonKeeps, addonVars, sessionVars, Call, vars
<1>12. ~Dies BY DEF Dies, TypeOK
<1> QED
  BY <1>2, <1>3, <1>4, <1>5, <1>6, <1>7, <1>9, <1>10, <1>11, <1>12
     DEF Next, UserStep, HandlerStep

\* What the End task reads and hands out is no older than the key press.
LEMMA InUseStep ==
  ASSUME TypeOK, [Next]_vars, deaths' = 0, Unpressed, Rising, Ahead, InUse
  PROVE  InUse'
<1> USE CallsKnown
<1>1. ASSUME UNCHANGED <<snapshot, sent, pressed>>, runtime' >= runtime,
             runtime' \in Nat,
             \/ step' = step
             \/ /\ step \notin {"none", "begun"}
                /\ step' \in {"cancelling", "cancelled"}
      PROVE  InUse'
  BY <1>1 DEF InUse
<1>2. CASE UserStep
  <2>1. CASE PressKey
    <3>1. /\ pressed' = Len(settings) /\ step' = "begun" /\ asked = "nothing"
          /\ UNCHANGED <<sent, runtime>>
      BY <2>1 DEF PressKey, AddonCalls, taskVars
    <3> QED BY <3>1 DEF Unpressed, InUse
  <2>2. CASE ~PressKey
    <3>1. UNCHANGED <<snapshot, sent, pressed, runtime, step>>
      BY <1>2, <2>2 DEF UserStep, Choose, ReleaseKey, GiveUp, AddonCalls, SetKey,
         ClearAsrKey, ClearCloudKey, Clear, ChangeKeys, addonVars, sessionVars, taskVars
    <3> QED BY <1>1, <3>1
  <2> QED BY <2>1, <2>2
<1>3. CASE HandlerStep
  <2>1. CASE ServeBegin
    <3>1. /\ bus # <<>> /\ Head(bus).call = "Begin" /\ handler.call # "Configure"
          /\ step' \notin {"none", "begun", "asr_key", "asr_request", "cloud_key",
                          "cloud_request"}
          /\ UNCHANGED <<snapshot, sent, pressed, runtime>>
      BY <2>1 DEF ServeBegin, Serves, Call, DaemonKeeps, addonVars, taskVars
    <3>2. bus[1].call = "Begin" /\ 1 \in 1..Len(bus) BY <3>1
    <3>3. runtime >= pressed BY <3>1, <3>2 DEF Ahead, AtLeast
    <3> QED BY <3>1, <3>3 DEF InUse
  <2>2. CASE ConfigureStores
    BY <1>1, <2>2 DEF ConfigureStores, Rising, addonVars, sessionVars, taskVars
  <2>3. CASE ServeConfigure \/ ServeEnd \/ ServeCancel
    BY <1>1, <2>3 DEF ServeConfigure, ServeEnd, ServeCancel, CancelSession,
       DaemonKeeps, addonVars, sessionVars, taskVars
  <2> QED BY <1>3, <2>1, <2>2, <2>3 DEF HandlerStep
<1>4. CASE TaskStep
  <2>1. UNCHANGED <<pressed, runtime>>
    BY <1>4 DEF TaskStep, EndTakes, GoesOn, CaptureReturns, ReadAsrSettings,
       LookupAsrKey, SendAudio, AsrAnswers, AsrFails, MarkPolishing,
       ReadCloudSettings, LookupCloudKey, SendText, PolishEnds, Store,
       TaskKeeps, addonVars
  <2>2. CASE EndTakes \/ CaptureReturns \/ AsrAnswers \/ AsrFails \/ MarkPolishing
               \/ PolishEnds \/ Store
    BY <2>1, <2>2 DEF EndTakes, CaptureReturns, AsrAnswers, AsrFails,
       MarkPolishing, PolishEnds, Store, GoesOn, Waiting, taskVars, InUse
  <2>3. CASE ReadAsrSettings
    BY <2>1, <2>3 DEF ReadAsrSettings, GoesOn, InUse
  <2>4. CASE LookupAsrKey
    BY <2>1, <2>4 DEF LookupAsrKey, GoesOn, InUse
  <2>5. CASE SendAudio
    BY <2>1, <2>5 DEF SendAudio, Sent, GoesOn, InUse
  <2>6. CASE ReadCloudSettings
    BY <2>1, <2>6 DEF ReadCloudSettings, GoesOn, InUse
  <2>7. CASE LookupCloudKey
    BY <2>1, <2>7 DEF LookupCloudKey, GoesOn, InUse
  <2>8. CASE SendText
    BY <2>1, <2>8 DEF SendText, Sent, GoesOn, InUse
  <2> QED
    BY <1>4, <2>2, <2>3, <2>4, <2>5, <2>6, <2>7, <2>8 DEF TaskStep
<1>5. CASE WatchdogFires \/ CancelReset \/ CaptureStep \/ UNCHANGED vars
  BY <1>1, <1>5 DEF WatchdogFires, CancelReset, CancelSession, CaptureStep,
     CaptureKeeps, DaemonKeeps, addonVars, sessionVars, taskVars, vars, Working
<1>6. ~Dies BY DEF Dies, TypeOK
<1> QED BY <1>2, <1>3, <1>4, <1>5, <1>6 DEF Next

\* Settings are served in the order they were sent, and before the Begin that was
\* sent after them (dbus.rs:28-36).
LEMMA FreshStep ==
  TypeOK /\ Unpressed /\ Fresh /\ [Next]_vars => Fresh'
<1> SUFFICES ASSUME TypeOK, Unpressed, Fresh, [Next]_vars, deaths' = 0
             PROVE  Rising' /\ Newest' /\ Ahead' /\ InUse'
    BY DEF Fresh
<1>1. deaths = 0
  <2>1. deaths' = deaths \/ deaths' = deaths + 1
    BY DEF Next, UserStep, Choose, PressKey, ReleaseKey, GiveUp, AddonCalls,
       SetKey, ClearAsrKey, ClearCloudKey, Clear, ChangeKeys, HandlerStep,
       ServeConfigure, ConfigureStores, ServeBegin, ServeEnd, ServeCancel,
       DaemonKeeps, WatchdogFires, CancelReset, CaptureStep, CaptureKeeps, Dies,
       TaskStep, EndTakes, GoesOn, CaptureReturns, ReadAsrSettings, LookupAsrKey,
       SendAudio, AsrAnswers, AsrFails, MarkPolishing, ReadCloudSettings,
       LookupCloudKey, SendText, PolishEnds, Store, TaskKeeps, vars
  <2> QED BY <2>1 DEF TypeOK
<1>2. Rising /\ Newest /\ Ahead /\ InUse BY <1>1 DEF Fresh
<1> QED BY <1>2, RisingStep, AheadStep, InUseStep

\* As long as the daemon lives, no session is processed with settings older
\* than those the user had chosen when the key was pressed
\* (natsutypeless.cpp:219-225, dbus.rs:28-36, pipeline.rs:78-89).
THEOREM SettingsAreInForce == Spec => []SettingsInForce
<1>1. Init => Unpressed /\ Fresh
  <2> SUFFICES ASSUME Init PROVE Unpressed /\ Fresh OBVIOUS
  <2>1. Len(settings) = 1 /\ bus = <<Configure(1)>> BY DEF Init
  <2>2. Configure(1).call = "Configure" /\ Configure(1).settings = 1 BY DEF Configure
  <2>3. Len(bus) = 1 /\ bus[1] = Configure(1) BY <2>1
  <2>4. handler.call = "free" /\ runtime = 0 /\ step = "none" /\ sent = {}
    BY DEF Init, Call
  <2>5. Rising BY <2>2, <2>3, <2>4 DEF Rising
  <2>6. Newest BY <2>1, <2>2, <2>3, <2>4 DEF Newest, AtLeast
  <2>7. Ahead BY <2>2, <2>3 DEF Ahead
  <2>8. Unpressed BY <2>2, <2>3, <2>4 DEF Unpressed, Call
  <2> QED BY <2>4, <2>5, <2>6, <2>7, <2>8 DEF Fresh, InUse
<1>2. TypeOK /\ RecordingInv /\ [Next]_vars => TypeOK' /\ RecordingInv'
  BY TypesKept
<1>3. Fresh => SettingsInForce BY DEF Fresh, InUse, SettingsInForce
<1> QED BY TypesInitially, <1>1, <1>2, <1>3, UnpressedStep, FreshStep, PTL DEF Spec
=============================================================================
