# Verification of natsu-typeless

TLA+ models of natsu-typeless, a voice dictation input method: hold a key,
speak, release, and the text appears in the focused field. The modules follow
the code of this repository; `PROJECT.json` maps each definition to the lines
it stands for and lists the runs, the mutants, the hazards, the theorems and
the findings.

## The system

| part | source | state | operations | modelled in |
|---|---|---|---|---|
| fcitx5 addon | `fcitx5-addon/src` | per input context: phase, session id, pending call; the map `sessions_`; the settings | keys, focus, reset; signals; replies and timeouts of D-Bus calls; configureDaemon | `Addon`; `SessionPath` for the settings |
| D-Bus service | `daemon/src/dbus.rs` | none of its own; serves one call at a time (`spawn = false`) | Configure, Begin, End, Cancel, GetStatus, TakeResult; signals StateChanged, ResultReady | `DictationPipeline`, `VoiceInput`, `SessionPath` |
| pipeline | `daemon/src/pipeline.rs` | `Inner` under one mutex: state, active, processing, cancelled, results; `runtime` | configure, begin, end, transcribe, mark_polishing, polish_and_store, take_result, cancel; tasks: End, watchdog, error reset, expiry | `DictationPipeline`; `SessionPath` for the settings |
| ASR provider and worker manager | `daemon/src/asr.rs`, `worker.rs` | process behind a mutex, `ready`, `idle_generation` | prewarm, transcribe with one retry, idle unload, stop on Configure; requests to remote recognizers | `AsrWorker`; `SessionPath` for the requests |
| Python ASR worker | `worker/src` | the loaded model, two pipes | load, read a request, answer | `AsrWorker` |
| recording | `daemon/src/audio.rs` | `pw-record` child, reader task | start, finish, cancel | `Recording` |
| cloud polishing | `openai_compat.rs`, `prompt.rs` | none | one bounded request; corrections; validation of its output | `TextPath`; `SessionPath` for key and address |
| vocabulary | `vocabulary.rs` | none | merge, deduplicate, entity rules | `TextPath` |
| secrets | `secrets.rs`, `bin/ctl.rs` | accounts of the Secret Service | set, clear, look up | `SessionPath` |
| configuration | `config.rs`, `protocol.rs` | defaults | defaults, normalized addresses | `SessionPath` |

The addon calls the service over the session bus; the service drives the
pipeline; End spawns a task that finishes the recording, asks the recognizer,
polishes and stores the text, and emits a signal after each step; the addon
fetches the text with TakeResult and commits it. Configure replaces the
settings all sessions use, at any time; `natsu-typelessctl` changes the keys
under the daemon.

What is hard here: critical sections split by an await (cancel, begin), tasks
of old sessions that act late, five kinds of timers, one serial dispatcher in
front of them, a subprocess that may hang or die, late answers on a shared
pipe, a recorder that may ignore its interrupt, calls that time out on one side
and are served on the other, signals and replies in flight while the user goes
on, settings and keys that change between two readings of one session, and a
daemon that is restarted. What makes each part correct: the pipeline never
stays in a state that refuses Begin, and gives a text once and only to its
owner; the worker process has one user at a time, is not forgotten in video
memory, and never answers for another session; the addon commits only to the
field that dictated; the microphone is off when the recording has ended; no
request leaves for a service the user has not chosen or without the key it
needs; and a text keeps what must not be lost. `hazards` in `PROJECT.json` has
each of these at its line.

## Modules

* `DictationService` is what the daemon promises: each session goes from new
  to recording, processing and ready to delivered, or is dropped or fails; one
  recording at a time, one session in processing, one delivery, to the owner.
* `DictationPipeline` has one action per critical section of `Pipeline::inner`.
  `handler` is the D-Bus method in progress (the interface is serial),
  `ending` the End tasks spawned and not started, `task[s]` the place of the
  End task of `s`, `watchdog`, `errorReset` and `expiry` its timers.
  `ImplementsService` states the refinement with the mapping `SessionStatus`.
* `AsrWorker` has the jobs that use the worker process (prewarm, transcribe,
  idle timer, Configure), the fair mutex as a queue, the flags that are read
  and written outside it, and the Python process with its two pipes. A request
  is written in two steps, its header and its audio; the process takes for the
  audio of a header what follows it, and answers with the request's identifier.
* `Addon` has one action per event handler of the addon. Calls leave in
  `calls`, signals and replies come in `mail`; a reply finds its slot by the
  `serial` of its call.
* `VoiceInput` composes `Addon` with `DictationPipeline` by INSTANCE: dispatch
  of calls in order, replies, the signals of the End task (`tosend`, emitted
  after the step they tell of), End calls refused (`refused`), and the daemon's
  death and restart. `handed` remembers whose text the daemon has replied with:
  a reply that has left survives the daemon in `mail`, while a TakeResult that
  was not served yet is lost with it.
* `Recording` is one `pw-record` child with its pipe, the reader task that
  collects what it writes up to a maximum, and the owner of the `Recording`
  value: it calls `finish` or `cancel`, waits for the child, then for the
  reader, each with a timeout, and drops both. `child` may obey SIGINT, leave
  late, or ignore it; `written` and `pcm` are counted in units of audio.
* `SessionPath` EXTENDS `Recording` and follows one session through the
  settings and keys it uses: `Choose` in the addon, Configure and Begin in
  order on `bus`, `runtime` in the pipeline, the two readings of the settings
  (`snapshot`) for the recognizer and for polishing, the key looked up after
  each, and in `sent` each request with its address, key and settings.
* `TextPath` is the path of the words: `Merged` vocabulary, its entries cut to
  their limit (`Cut`: a rule may lose its canonical side, or its arrow and become
  a term), `Resolved` entity
  rules, `Corrected` text, and `Accepted`, the judgement on the polished text.
  A text is a sequence of pieces (words, parts of words, what stands between).
  The string searches of the code are recursive functions over positions, its
  loops over rules, aliases and entries recursive functions over the index.
* `MC*` give the instances for TLC. `*Proofs` hold the theorems.

The three views of a session, `DictationPipeline` (who may do what when),
`SessionPath` (with which settings, keys and audio) and `TextPath` (with which
words), each leave the others out; the steps of the End task have the same
names in all of them.

Abstractions: time (any timer may fire when it is armed); in `VoiceInput`,
audio and text (only whose they are); formats of requests; error details. A
session identifier is random in the code and therefore fresh in the model. A
frame read in part before a timeout is seen as one not read: in both cases the
next reader fails and the process is replaced.

## Runs

Passing runs:

| run | instance | shows |
|---|---|---|
| `PipelineService` | 2 sessions, 2 callers that use each other's identifiers | `TypeOK`, `PhaseBacked`, `CancelDiscards`, the inductive invariant `Coherent`, `ImplementsService`, `EventuallyIdle`, `MicReleased` |
| `WorkerSafety` | 2 sessions with prewarm, one with a long request, 1 Configure | `TypeOK`, `ProcessOwned`, `NoCrossTalk`, `NoForgottenModel` |
| `WorkerLiveness` | 2 sessions without prewarm, the second with a long request, 2 Configures | `JobsEnd`, `ConfigureReturns`, `EventuallyUnloaded` |
| `VoiceCrash` | 1 session, watchdog and expiry, 2 fields, one closes, call timeouts, 1 death of the daemon | `SessionsAgree`, `GivenUpIsDropped`, `TextReachesField`, the inductive invariant `Conversation`, `CommitsToItsOwn` |
| `VoiceSettles` | 2 sessions in 1 field | `TypeOK`, `SessionsAgree`, `GivenUpIsDropped`, `Conversation`, `CommitsToItsOwn`, `Settles` |
| `SessionPath` | 2 changes of the settings, 1 of the keys, 1 death of the daemon, a recording of up to 2 units | `TypeOK`, `WholeRecording`, `MicrophoneOff`, `SettingsInForce`, `KeyRequired`, `OneRecognizer`, `SettingsArrive`, `SessionEnds` |
| `TextPath` | about 400 transcripts, 11 answers of the model and its echo, 10 × 4 vocabularies, 2 entity rules | `LengthBounded`, `NothingLostWithoutReason`, `UserEntriesFirst`, `AmbiguousKept` |

Runs that find a disagreement (each is a finding in `PROJECT.json`):

| run | property | what happens |
|---|---|---|
| `WorkerProvider` | `RemoteMeansNoWorker` | the local worker is started again after the switch to a remote provider |
| `VoiceText` | `TextNotDropped` | a late `recording` signal lets the user end twice; the refused End makes the addon drop its text |
| `VoiceStuck` | `PolishingEnds` | a watchdog that fires while polishing drops the session and tells nobody |
| `SessionRestart` | `ConfiguredService` | a daemon that was started again has the default settings and is not configured again |
| `TextCorrections` | `CorrectionsApplied` | without polishing, or when it fails, explicit corrections are not applied |

Seen while modelling and kept as hazards or notes only: a watchdog between its
two sections can reset the state to idle over a session that began meanwhile
(`pipeline.rs:381`); a stop that waits while a model is loaded leaves `ready`
set without a process (`worker.rs:189`); the write of a long request has no
timeout, so that a worker that hangs can block the dispatcher through Configure
(`worker.rs:122`; the liveness properties of `AsrWorker` except this wait,
`WriteBlocked`, and nothing else); lookups in the Secret Service have no timeout
either (`asr.rs:59`, `pipeline.rs:228`); a key that cannot be deleted stays and
is used, although the command says that it was removed (`secrets.rs:38`, `Clear`
in `SessionPath`); a correction rule longer than 80
characters is cut before it is used (`pipeline.rs:107`); the audio
of a session that was cancelled while its recording was finished still goes to
the recognizer (`dbus.rs:77`); a Begin that is served after the addon gave up
waiting records for nobody until the watchdog (`natsutypeless.cpp:313`).

Bounds. Two sessions let the timers and tasks of one meet the other, which is
what every interplay above needs; what a third could add (one recorded, one
processed, one stored) is covered by the theorems, which hold for any set of
sessions, and so is the instance of two sessions in two fields.
`MaxEnding` bounds End tasks not yet started; one is enough for a task that
starts late. `MaxConfigures` bounds changes of the provider; `Long` are the
sessions whose request does not fit into a pipe (64 KiB, about 2 s of audio);
with two sessions such a write may wait behind a request of the other that the
worker never read. `Prewarming` are the sessions whose prewarm task takes part;
`WorkerLiveness` does without them, `WorkerSafety` has them all.
`MaxCalls` and `MaxMail` bound what is on its way when the user acts and when
the daemon serves or emits; 1 already separates every message from its effect,
2 lets two wait. `Slow`, `Overtime` and `Closing` say for which sessions calls
time out, for which the watchdog and the expiry may fire, and which fields
close, so that a run pays for the timers it is about. A second End of a session
waits for the task of the first to start.

`MaxChoices` = 2 puts a change of the settings before and after the key press,
or between the two readings of one session; `MaxKeyChanges` = 1 removes or sets
a key between its lookups; `MaxDeaths` bounds deaths of the daemon. Audio is
counted in units of the shortest recording that is accepted (`MinBytes`, a
tenth of a second); a pipe holds one, the maximum is two and a read asks for
two, so that a recording may be too short, of every accepted length, or too
long, and a read may come in parts. `QwenBytes` is the size Qwen's request can
hold: one recording fits, a longer one does not. In `TextPath` lengths are
pieces, `Slack` = 1 stands for the 128 characters, `MaxTerms` = 3 for the 128
entries and `EntryLimit` = 4 for the 80 characters of an entry: all three are
reached and passed, the last by terms, by rules that are shortened in or lose
their canonical side, and by one that loses its arrow. Texts have up to four pieces,
enough for an alias with a cue before or after it and for a token of two parts.

Runs do not check deadlock: when every session is used up the model stops.

Fairness. `DictationPipeline!Fairness`: the runtime polls every task, an armed
timer fires, handlers run on; nothing is assumed of callers, nor of the
recognizer, because the write to the local worker has no timeout.
`AsrWorker!Fairness`: every task is polled and the timeouts end; nothing is
assumed of the Python process, so that a write may wait for good. The properties
say that this wait is the only reason why a job, Configure or the unloading does
not come to its end. `VoiceInput!Fairness`: the bus delivers, tasks
are polled, and there the recognizer is taken to answer or fail; the user
promises nothing. `Settles` is not true of a session that outlasts its watchdog
(`VoiceStuck`). `SessionPath!Fairness`: the daemon serves what the bus brings,
the End task, the reader and the owner of the recording are polled and their
timeouts end, HTTP requests end by their timeout, and the watchdog fires in a
recording that is left alone; `pw-record` need not obey and the user need not
act. Nothing is assumed of what has no timeout in the code: the local recognizer
need not answer, a lookup in the Secret Service need not return, and Configure
need not get past the stop of the local worker. `SettingsArrive` and
`SessionEnds` except these waits, and nothing else (`Stopping`, `Unanswered`).

## Proofs

For any sets of sessions, callers, fields, configurations and keys, and any
bounds, tlapm checks:

* `TypeCorrect`, `CoherentAlways`, `NeverWedged`, `CancelIsFinal`
  (`DictationPipelineProofs`). `PhaseBacked` is not inductive: that the
  session processed in state polishing has a task at work needs that nobody
  else brings a session into `processing`, that a cancelled session has left
  it, and that a failed one has a timer. `Coherent` says these things, one part
  per variable; with it each action is checked alone.
* `RefinesService` (`DictationRefinementProofs`): each step of the pipeline is
  a step of the service or stutters, under `TypeOK /\ Coherent`. The lemmas
  compute the mapped status; the case that needs care is the second section of
  cancel, which drops whatever session is processed by then.
* `WorkerOwned`, `WorkerTypeCorrect`, `AnswersMatch`, `ModelRemembered`
  (`AsrWorkerProofs`). `TypeOK /\ ProcessOwned` is inductive together: the
  queue stays a queue because a job that releases the lock holds it, and that
  is what `ProcessOwned` says. With it `NoForgottenModel` is inductive: a job
  that leaves without scheduling a timer leaves no process, and a timer in the
  queue stays there until it holds the lock. `AnswersMatch` (`NoCrossTalk`) needs
  the lock too: `Paired` says that a header without its audio is the last thing
  in the pipe and of the job that holds the lock, so that every request that is
  answered has its own audio behind its header.
* `VoiceTypeCorrect`, `SessionsAlwaysAgree`, `TextGoesHome`
  (`VoiceInputProofs`). `AddonInv` adds to `SessionsAgree` that a session open
  in a field was begun there, has not ended and was not committed
  (`OwnSession`); a commit is a callback that finds its session open, so that
  the text goes to `origin`, once. The steps of the daemon matter only by what
  they post: mail of existing sessions. Nothing is needed of the order of
  signals, of the calls that are lost, or of when the daemon dies.
* `RecordingInv` (`RecordingProofs`) relates the child, the reader and the
  owner: what was collected is a prefix of what was written, a reader that has
  ended well has seen the end of the file of a child that is gone, and an owner
  that has returned has dropped the child. `RecordingIsWhole` and
  `MicrophoneIsOff` follow (`SessionPathProofs`), for every step of
  `SessionPath` is a step of the recording or leaves it alone.
* `SettingsAreInForce` (`SessionPathProofs`) is about the order of calls.
  `Fresh` says that settings on their way, in the bus, the handler and the
  runtime, rise (`Rising`), that the newest are among them (`Newest`), and that
  the settings a Begin is entitled to are ahead of it or in force (`Ahead`);
  then what the session reads and sends is as new (`InUse`).
* `KeysAreRequired`, `OneRecognizerOnly`, `PathTypeCorrect`
  (`SessionPathProofs`): the key a request leaves with was looked up for the
  settings of that request (`KeyChecked`), and audio leaves only from a step that
  is not entered twice (`AudioOnce`).
* `ConversationAlways`, `GivenUpDropped`, `HandedOutTextArrives`,
  `DictationStaysPossible` (`VoiceConversationProofs`). `GivenUpIsDropped` and
  `TextReachesField` are about both ends of a conversation and hold because of
  what is on its way between them; `Conversation` says what that is. Its parts,
  each needed by the next: the calls of a session begin with its Begin, which is
  served once (`BeginCoherent`), and sessions follow one another in the bus
  (`CallsInOrder`), so that a call which finds another session recording belongs
  to one that never began (`RecordingAlone`); so a session that was given up has
  its Cancel on its way, or has been left by the daemon for good
  (`GivenUpCoherent`). For the text: once a signal asks for it no signal moves
  the phase of its session any more (`SignalsCoherent`, `TakingCoherent`), it is
  asked for once although two signals announce it (`AskedOnce`), what was replied
  stays in the mail though the daemon die, and the context
  that waits for it has the slot its reply will find (`SlotCoherent`,
  `AskedCoherent`, `EndedCoherent`). The daemon's side is `Coherent`, whose
  lemmas of `DictationPipelineProofs` are used through `INSTANCE`; so
  `PhaseBacked` holds of the composition too, where the daemon may also die.
* `StoredTextBounded`, `TokensAreKept`, `UserComesFirst`, `AmbiguousIsKept`
  (`TextPathProofs`). `Accounted`, stated there, is inductive: the raw text
  is the transcript resolved, and what is stored is the raw text or was accepted
  against it. The work is below it: that every operator gives a text (of pieces,
  so with a length) needs that its recursive function exists. `UpTo` is
  induction over an interval, stated for a set, from the least element of the
  well-ordered naturals; `Forward`, `Backward` and `DownTo` give from it the
  existence and the values of a function that computes from its predecessor (the
  loops) or from a later position (`Replace`, `ReplaceWord`, which go on after a
  match). Then a text loses none of its own tokens (`OwnTokensPresent`), the
  counts of an accepted text imply a reason (`AcceptedForAReason`),
  deduplication of a list begins with that of any beginning of it
  (`DeduplicatedBegins`), so the packs push no entry of the user out, an entry
  that fits is not changed by the cut (`CutEntry`), and a
  chain of rules without cues is the identity (`NoCueNoChange`).

The proofs assume only the named assumptions of the modules
(`PipelineAssumption`, `WorkerAssumption`, `AddonAssumption`,
`VoiceAssumption`, `RecordingAssumption`, `PathAssumption`, `TextAssumption`):
the sentinels are not members of the sets (and the daemon's bus name is none),
the bounds are numbers, the configurations, texts, vocabularies and rules are of
their type.

Every invariant, every action property and the refinement that a passing run
checks is a theorem. Only model-checked is liveness (`EventuallyIdle`,
`MicReleased`, `JobsEnd`, `ConfigureReturns`, `EventuallyUnloaded`, `Settles`,
`SettingsArrive`, `SessionEnds`): fairness is out of the prover's reach. Of the
text operators the theorems say what the properties need; what `Replace` or
`Resolved` yields for an arbitrary text is seen only in the run.

## Not modelled

* JSON, HTTP and WAV formats, the frames of the worker's protocol: each message
  is what it says. Their size matters in one place (Qwen's Data URL) and is
  modelled there.
* The wording of the prompts, and what is read from the text around the cursor:
  they reach the services and no branch of the program.
* Reading vocabulary files (three directories, limits on number and size,
  comments): `TextPath` begins with the entries they hold.
* The clamping of numbers in `RuntimeConfig`, the paths in `config.rs`.
* `natsu-typelessctl` other than its key commands: status calls GetStatus, and
  doctor, model and setup look at or change the machine, not the program.
* Keys that reach the application during a session: the addon holds them only
  while the session starts and records (`natsutypeless.cpp:262`), where
  `README.md:132` speaks of the whole session; no state depends on them.

What is left to do: a refinement that joins `SessionPath` with
`DictationPipeline`, and an abstract specification of what the user sees (a
session opens, its text is typed once or it is given up) that `VoiceInput`
implements.
