------------------------------ MODULE AsrWorker ------------------------------
(***************************************************************************)
(* The local speech recognizer: daemon/src/worker.rs (WorkerManager), the  *)
(* selection of the provider in daemon/src/asr.rs and Pipeline::configure, *)
(* and the Python process of worker/src/natsu_typeless_asr/worker.py.      *)
(*                                                                         *)
(* The jobs that share the process are                                     *)
(*   <<"warm", s>>        the prewarm task spawned by Begin of session s;  *)
(*   <<"transcribe", s>>  the recognition of session s in its End task;    *)
(*   <<"unload", g>>      the idle timer of generation g;                  *)
(*   Configuring          the D-Bus method Configure.                      *)
(* They meet at WorkerManager::process, a tokio Mutex, which is fair: its  *)
(* holder and those waiting form a queue.  ready, idle_generation and the  *)
(* runtime configuration are read and written without that lock.           *)
(*                                                                         *)
(* Timeouts (180 s to load, 180 s to answer, the idle minutes) may pass at *)
(* any moment.  A request is a header with the request_id, then the audio; *)
(* of audio only whose it is is known, and whether it fits into a pipe.    *)
(***************************************************************************)
EXTENDS Naturals, Sequences

CONSTANTS
  Sessions,       \* session identifiers, the request_id of a request
  Long,           \* those whose audio is larger than a pipe holds (64 KiB)
  None,           \* no session
  Prewarming,     \* bound: sessions whose prewarm task takes part
  MaxConfigures   \* bound: calls of Configure

ASSUME WorkerAssumption ==
  /\ None \notin Sessions
  /\ Long \subseteq Sessions
  /\ Prewarming \subseteq Sessions
  /\ MaxConfigures \in Nat

Providers == {"local", "remote"}
Users == {"warm", "transcribe"} \X Sessions
Configuring == <<"configure", None>>
Unload(g) == <<"unload", g>>
Jobs == Users \cup {Configuring} \cup ({"unload"} \X Nat)

VARIABLES
  provider,    \* Pipeline.runtime.asr_provider
  wanted,      \* the provider of the Configure call in progress
  configures,  \* calls of Configure so far
  at,          \* at[j]: where job j is
  retried,     \* the sessions in their second transcribe_once
  queue,       \* the holder of WorkerManager::process, then those waiting
  installed,   \* WorkerManager::process holds Some(process)
  ready,       \* WorkerManager::ready
  generation,  \* WorkerManager::idle_generation
  asleep,      \* generations whose idle timer sleeps
  unloading,   \* generations whose idle timer is on its way to stop
  child,       \* the Python process
  inbox,       \* requests not answered; the audio of the last may be missing
  outbox,      \* its responses that were not read
  answer       \* history: answer[s]: whose audio the text given for s is of

manager == <<installed, ready, generation, asleep, unloading>>
config == <<provider, wanted, configures>>
pipes == <<child, inbox, outbox>>
vars == <<provider, wanted, configures, at, retried, queue, installed, ready,
          generation, asleep, unloading, child, inbox, outbox, answer>>

Steps ==
  {"off", "queued", "loading", "writing", "sending", "reading", "restarting",
   "stopping", "scheduling", "done", "storing"}
Requests == [request : Sessions, audio : Sessions \cup {None}]
Responses ==
  [request : Sessions, audio : Sessions \cup {None}, result : {"text", "error"}]

TypeOK ==
  /\ provider \in Providers
  /\ wanted \in Providers
  /\ configures \in Nat
  /\ at \in [Users \cup {Configuring} -> Steps]
  /\ retried \subseteq Sessions
  /\ queue \in Seq(Jobs)
  /\ installed \in BOOLEAN
  /\ ready \in BOOLEAN
  /\ generation \in Nat
  /\ asleep \subseteq Nat
  /\ unloading \subseteq Nat
  /\ child \in {"none", "loading", "up", "hung", "dead"}
  /\ inbox \in Seq(Requests)
  /\ outbox \in Seq(Responses)
  /\ answer \in [Sessions -> Sessions \cup {None}]

Init ==
  /\ provider = "local"
  /\ wanted = "local"
  /\ configures = 0
  /\ at = [j \in Users \cup {Configuring} |-> "off"]
  /\ retried = {}
  /\ queue = <<>>
  /\ installed = FALSE
  /\ ready = FALSE
  /\ generation = 0
  /\ asleep = {}
  /\ unloading = {}
  /\ child = "none"
  /\ inbox = <<>>
  /\ outbox = <<>>
  /\ answer = [s \in Sessions |-> None]
-----------------------------------------------------------------------------
(***************************************************************************)
(* The lock and the process                                                *)
(***************************************************************************)
\* Mutant of Holds: a lock that does not exclude.
HoldsOrWaits(j) == \E i \in 1..Len(queue) : queue[i] = j

Holds(j) == queue # <<>> /\ Head(queue) = j
Wait(j) == queue' = Append(queue, j)
Release == queue' = Tail(queue)

GoTo(j, step) == at' = [at EXCEPT ![j] = step]

\* The process is gone and the pipes with it (Child::kill, kill_on_drop).
Kill ==
  /\ child' = "none"
  /\ inbox' = <<>>
  /\ outbox' = <<>>

\* Mutants of Fail: a job that leaves by its error does not schedule the idle
\* timer ...
FailUnscheduled(j) ==
  GoTo(j, IF j[1] = "warm" \/ j[2] \in retried THEN "done" ELSE "restarting")

\* ... or a prewarm that failed ends in a step of its own.
FailApart(j) ==
  GoTo(j, IF j[1] = "warm" THEN "failed"
          ELSE IF j[2] \notin retried THEN "restarting" ELSE "scheduling")

\* warm has ended, or transcribe_once of session s has: well, with a failure
\* that is retried once after a restart, or for good.
Succeed(j) == GoTo(j, "scheduling")
Fail(j) ==
  GoTo(j, IF j[1] = "warm" THEN "done"
          ELSE IF j[2] \notin retried THEN "restarting" ELSE "scheduling")
-----------------------------------------------------------------------------
(***************************************************************************)
(* Using the process: warm and transcribe                                  *)
(***************************************************************************)
\* The job reads the runtime configuration; a remote provider takes it
\* elsewhere (AsrApiClient).
UseAsr(j) ==
  /\ at[j] = "off"
  /\ j[1] = "warm" => j[2] \in Prewarming
  /\ IF provider = "local"
     THEN GoTo(j, "queued") /\ Wait(j)
     ELSE GoTo(j, "done") /\ UNCHANGED queue
  /\ UNCHANGED <<config, manager, pipes, retried, answer>>

\* ensure_started returns: warm is over, transcribe_once writes its request.
Started(j) ==
  IF j[1] = "warm" THEN Release /\ Succeed(j)
  ELSE GoTo(j, "writing") /\ UNCHANGED queue

EnsureStarted(j) ==
  /\ Holds(j)
  /\ at[j] = "queued"
  /\ IF installed
     THEN Started(j) /\ UNCHANGED <<ready, child>>
     ELSE /\ ready' = FALSE
          /\ child' = "loading"
          /\ GoTo(j, "loading")
          /\ UNCHANGED queue
  /\ UNCHANGED <<config, retried, installed, generation, asleep, unloading,
                 inbox, outbox, answer>>

\* The worker said that its model is loaded.
LoadDone(j) ==
  /\ at[j] = "loading"
  /\ child = "loading"
  /\ child' = "up"
  /\ ready' = TRUE
  /\ installed' = TRUE
  /\ Started(j)
  /\ UNCHANGED <<config, retried, generation, asleep, unloading, inbox, outbox,
                 answer>>

\* It could not be started, said that it failed, died, or took too long.
LoadFailed(j) ==
  /\ at[j] = "loading"
  /\ Kill
  /\ Release
  /\ Fail(j)
  /\ UNCHANGED <<config, manager, retried, answer>>

\* The header is in the pipe.
WriteHeader(s) ==
  LET j == <<"transcribe", s>> IN
  /\ at[j] = "writing"
  /\ child # "dead"
  /\ inbox' = Append(inbox, [request |-> s, audio |-> None])
  /\ GoTo(j, "sending")
  /\ UNCHANGED <<config, manager, retried, queue, child, outbox, answer>>

\* The audio follows what was written last.  A write that does not fit waits,
\* without a timeout, until the worker is back at reading requests.
WriteAudio(s) ==
  LET j == <<"transcribe", s>> IN
  /\ at[j] = "sending"
  /\ child # "dead"
  /\ s \in Long => Len(inbox) = 1
  /\ inbox' = [inbox EXCEPT ![Len(inbox)] = [request |-> @.request, audio |-> s]]
  /\ GoTo(j, "reading")
  /\ UNCHANGED <<config, manager, retried, queue, child, outbox, answer>>

WriteFailed(s) ==
  LET j == <<"transcribe", s>> IN
  /\ at[j] \in {"writing", "sending"}
  /\ child = "dead"
  /\ Release
  /\ Fail(j)
  /\ UNCHANGED <<config, manager, retried, pipes, answer>>

\* Mutant of Matches: without the test of request_id.
MatchesAny(response, s) == TRUE

\* The response is for the request that was written.
Matches(response, s) == response.request = s

ReadResponse(s) ==
  LET j == <<"transcribe", s>>
      response == Head(outbox) IN
  /\ at[j] = "reading"
  /\ outbox # <<>>
  /\ outbox' = Tail(outbox)
  /\ Release
  /\ IF Matches(response, s) /\ response.result = "text"
     THEN /\ Succeed(j)
          /\ answer' = [answer EXCEPT ![s] = response.audio]
     ELSE Fail(j) /\ UNCHANGED answer
  /\ UNCHANGED <<config, manager, retried, child, inbox>>

\* Mutant of ReadFailed: no timeout on the answer.
ReadFailedByDeath(s) ==
  LET j == <<"transcribe", s>> IN
  /\ at[j] = "reading"
  /\ outbox = <<>>
  /\ child = "dead"
  /\ Release
  /\ Fail(j)
  /\ UNCHANGED <<config, manager, retried, pipes, answer>>

\* INFERENCE_TIMEOUT has passed, or the worker is dead: the process stays.
ReadFailed(s) ==
  LET j == <<"transcribe", s>> IN
  /\ at[j] = "reading"
  /\ outbox = <<>>
  /\ Release
  /\ Fail(j)
  /\ UNCHANGED <<config, manager, retried, pipes, answer>>

\* Mutant of Schedule: the timer compares with the value before fetch_add.
ScheduleStale(j) ==
  /\ at[j] = "scheduling"
  /\ generation' = generation + 1
  /\ asleep' = asleep \cup {generation}
  /\ GoTo(j, "done")
  /\ UNCHANGED <<config, retried, queue, installed, ready, unloading, pipes,
                 answer>>

\* schedule_idle_unload.
Schedule(j) ==
  /\ at[j] = "scheduling"
  /\ generation' = generation + 1
  /\ asleep' = asleep \cup {generation + 1}
  /\ GoTo(j, "done")
  /\ UNCHANGED <<config, retried, queue, installed, ready, unloading, pipes,
                 answer>>
-----------------------------------------------------------------------------
(***************************************************************************)
(* Stopping the process: retry, idle timer and Configure                   *)
(***************************************************************************)
\* stop: ready is cleared first, the lock is waited for after that.
StopBegins(j) ==
  /\ ready' = FALSE
  /\ Wait(j)

StopEnds ==
  /\ installed' = FALSE
  /\ IF installed THEN Kill ELSE UNCHANGED pipes

\* transcribe, after its first transcribe_once failed.
RestartStops(s) ==
  LET j == <<"transcribe", s>> IN
  /\ at[j] = "restarting"
  /\ StopBegins(j)
  /\ GoTo(j, "stopping")
  /\ UNCHANGED <<config, retried, installed, generation, asleep, unloading,
                 pipes, answer>>

\* ... and then tries again.
Restart(s) ==
  LET j == <<"transcribe", s>> IN
  /\ Holds(j)
  /\ at[j] = "stopping"
  /\ StopEnds
  /\ queue' = Append(Tail(queue), j)
  /\ retried' = retried \cup {s}
  /\ GoTo(j, "queued")
  /\ UNCHANGED <<config, ready, generation, asleep, unloading, answer>>

\* The idle minutes are over; a later use of the worker makes this timer void.
TimerFires(g) ==
  /\ g \in asleep
  /\ asleep' = asleep \ {g}
  /\ unloading' = IF generation = g THEN unloading \cup {g} ELSE unloading
  /\ UNCHANGED <<config, at, retried, queue, installed, ready, generation,
                 pipes, answer>>

UnloadStops(g) ==
  /\ g \in unloading
  /\ unloading' = unloading \ {g}
  /\ StopBegins(Unload(g))
  /\ UNCHANGED <<config, at, retried, installed, generation, asleep, pipes,
                 answer>>

Unloaded(g) ==
  /\ Holds(Unload(g))
  /\ StopEnds
  /\ Release
  /\ UNCHANGED <<config, at, retried, ready, generation, asleep, unloading,
                 answer>>

\* Pipeline::configure: a remote provider stops the worker, then the new
\* configuration becomes the current one.
Configure(p) ==
  /\ at[Configuring] = "off"
  /\ configures < MaxConfigures
  /\ configures' = configures + 1
  /\ wanted' = p
  /\ IF p = "local"
     THEN GoTo(Configuring, "storing") /\ UNCHANGED <<ready, queue>>
     ELSE GoTo(Configuring, "stopping") /\ StopBegins(Configuring)
  /\ UNCHANGED <<provider, retried, installed, generation, asleep, unloading,
                 pipes, answer>>

ConfigureStopped ==
  /\ Holds(Configuring)
  /\ StopEnds
  /\ Release
  /\ GoTo(Configuring, "storing")
  /\ UNCHANGED <<config, retried, ready, generation, asleep, unloading, answer>>

ConfigureStores ==
  /\ at[Configuring] = "storing"
  /\ provider' = wanted
  /\ GoTo(Configuring, "off")
  /\ UNCHANGED <<wanted, configures, retried, queue, manager, pipes, answer>>
-----------------------------------------------------------------------------
(***************************************************************************)
(* The Python process                                                      *)
(***************************************************************************)
\* It has read a header and the audio behind it.
HasRequest == child = "up" /\ inbox # <<>> /\ Head(inbox).audio # None

\* It answers the request it works on, with an error when no speech was recognized
\* or the model raised an exception.
Answers ==
  /\ HasRequest
  /\ inbox' = Tail(inbox)
  /\ \E result \in {"text", "error"} :
       outbox' = Append(outbox,
         [request |-> Head(inbox).request, audio |-> Head(inbox).audio,
          result |-> result])
  /\ UNCHANGED <<config, at, retried, queue, manager, child, answer>>

\* It never comes back from the model (a CUDA call that hangs).
Hangs ==
  /\ HasRequest
  /\ child' = "hung"
  /\ UNCHANGED <<config, at, retried, queue, manager, inbox, outbox, answer>>

\* It is killed for want of memory, crashes, or leaves main by an exception.
Dies ==
  /\ child \in {"loading", "up", "hung"}
  /\ child' = "dead"
  /\ UNCHANGED <<config, at, retried, queue, manager, inbox, outbox, answer>>
-----------------------------------------------------------------------------
UserStep(j) == EnsureStarted(j) \/ LoadDone(j) \/ LoadFailed(j) \/ Schedule(j)

RequestStep(s) ==
  \/ WriteHeader(s) \/ WriteAudio(s) \/ WriteFailed(s)
  \/ ReadResponse(s) \/ ReadFailed(s)
  \/ RestartStops(s) \/ Restart(s)

UnloadStep(g) == TimerFires(g) \/ UnloadStops(g) \/ Unloaded(g)

ConfigureStep == ConfigureStopped \/ ConfigureStores

ChildStep == Answers \/ Hangs \/ Dies

Next ==
  \/ \E j \in Users : UseAsr(j) \/ UserStep(j)
  \/ \E s \in Sessions : RequestStep(s)
  \/ \E g \in 1..generation : UnloadStep(g)
  \/ \E p \in Providers : Configure(p)
  \/ ConfigureStep
  \/ ChildStep

Spec == Init /\ [][Next]_vars

\* The runtime polls every task, timeouts and idle timers end.  The Python
\* process promises nothing: it may hang or die instead of answering.
Fairness ==
  /\ \A j \in Users : WF_vars(UserStep(j))
  /\ \A s \in Sessions : WF_vars(RequestStep(s))
  /\ WF_vars(\E g \in 1..generation : UnloadStep(g))
  /\ WF_vars(ConfigureStep)

FairSpec == Spec /\ Fairness
-----------------------------------------------------------------------------
(***************************************************************************)
(* Safety                                                                  *)
(***************************************************************************)
\* Only its holder touches what the lock protects: while a job loads the model
\* or waits for an answer nobody stops, replaces or writes to its process, and
\* there is no process that neither the manager nor a loading job answers for.
ProcessOwned ==
  /\ \A j \in Users :
       at[j] \in {"loading", "writing", "sending", "reading"} => Holds(j)
  /\ \A j \in Users : at[j] = "loading" => ~installed /\ child # "none"
  /\ \A j \in Users : at[j] \in {"writing", "sending", "reading"} => installed
  /\ installed => child \notin {"none", "loading"}
  /\ child # "none" => installed \/ \E j \in Users : at[j] = "loading"

\* The text given for a session is the text of its own audio.  The worker takes
\* for a request's audio what follows its header, so that two writers at once
\* would exchange theirs, and an answer that came too late stays in the pipe
\* for the next reader (worker.rs:97-132, worker.py:41-49).
NoCrossTalk == \A s \in Sessions : answer[s] \in {None, s}

\* A job that will call schedule_idle_unload, or fail to load the model.
InUse == \E j \in Users : at[j] \notin {"off", "done"}

\* The timer of the current generation has not unloaded the model yet.
UnloadPending ==
  \/ generation \in asleep \cup unloading
  \/ \E i \in 1..Len(queue) : queue[i] = Unload(generation)

\* A loaded model is never forgotten: a job still uses it, or the timer that
\* is not void will unload it.
NoForgottenModel == installed => InUse \/ UnloadPending

(***************************************************************************)
(* What the documentation says and the code does not do                    *)
(***************************************************************************)
\* "Switching to either API provider terminates a running local worker"
\* (README.md), "so choosing a low-resource provider cannot unexpectedly
\* allocate VRAM" (ARCHITECTURE.md): a job that read the configuration before
\* the switch, and got the lock after it, starts the worker again.
RemoteMeansNoWorker ==
  provider = "remote" /\ at[Configuring] = "off" => child = "none"

(***************************************************************************)
(* Liveness                                                                *)
(***************************************************************************)
\* The audio of a session does not fit behind a request the worker has not
\* answered: nothing ends this wait but the worker itself.
WriteBlocked ==
  \E s \in Long : at[<<"transcribe", s>>] = "sending" /\ Len(inbox) > 1

\* Every job that asked for the worker is through with it in the end, unless a
\* write waits for good (worker.rs:66-88, 119-129).
JobsEnd ==
  (\A j \in Users : at[j] = "queued" ~> at[j] = "done") \/ <>[]WriteBlocked

\* Configure returns, unless a write waits for good.  The D-Bus methods are
\* served one at a time: when it does not, the daemon serves nothing any more
\* (asr.rs:29-34, worker.rs:188-193).
ConfigureReturns ==
  (at[Configuring] # "off" ~> at[Configuring] = "off") \/ <>[]WriteBlocked

\* The model does not stay in memory for good, unless a write waits for good.
EventuallyUnloaded == (child # "none" ~> child = "none") \/ <>[]WriteBlocked
=============================================================================
