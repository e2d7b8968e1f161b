-------------------------- MODULE AsrWorkerProofs --------------------------
(***************************************************************************)
(* Proofs about AsrWorker, for any sessions and any number of Configures.  *)
(***************************************************************************)
EXTENDS AsrWorker, SequenceTheorems, TLAPS

\* The three kinds of jobs are apart.
LEMMA JobKinds ==
  /\ Users \subseteq Jobs /\ Configuring \in Jobs /\ Configuring \notin Users
  /\ \A s \in Sessions : <<"warm", s>> \in Users /\ <<"transcribe", s>> \in Users
  /\ \A g \in Nat : Unload(g) \in Jobs \ (Users \cup {Configuring})
BY DEF Users, Configuring, Unload, Jobs

\* Waiting for the lock and releasing it keep the queue a sequence of jobs, and
\* the jobs that wait keep the holder.
LEMMA Waiting ==
  ASSUME queue \in Seq(Jobs), NEW j \in Jobs, Wait(j)
  PROVE  /\ queue' \in Seq(Jobs)
         /\ \A k \in Jobs : Holds(k) => Holds(k)'
BY DEF Wait, Holds

\* The holder leaves the queue; the others stay in it.
LEMMA Releasing ==
  ASSUME queue \in Seq(Jobs), NEW j \in Jobs, Holds(j), Release
  PROVE  queue' \in Seq(Jobs)
BY DEF Release, Holds

\* A job moves to a step, the others stay where they are.
LEMMA Going ==
  ASSUME TypeOK, NEW j \in Users \cup {Configuring}, NEW step \in Steps, GoTo(j, step)
  PROVE  /\ at' \in [Users \cup {Configuring} -> Steps]
         /\ \A k \in Users \cup {Configuring} : at'[k] = IF k = j THEN step ELSE at[k]
BY DEF TypeOK, GoTo

\* Where a failed job goes.
LEMMA Failing ==
  ASSUME TypeOK, NEW j \in Users, Fail(j)
  PROVE  \E step \in {"done", "restarting", "scheduling"} :
           GoTo(j, step) /\ (step = "done" => j[1] = "warm")
BY DEF Fail

\* The two Boolean variables stay Boolean.
LEMMA FlagsStep ==
  ASSUME installed \in BOOLEAN, ready \in BOOLEAN, [Next]_vars
  PROVE  installed' \in BOOLEAN /\ ready' \in BOOLEAN
<1> USE DEF manager, StopBegins, StopEnds
<1>1. ASSUME NEW j \in Users, UseAsr(j) \/ UserStep(j)
      PROVE  installed' \in BOOLEAN /\ ready' \in BOOLEAN
  BY <1>1 DEF UseAsr, UserStep, EnsureStarted, LoadDone, LoadFailed, Schedule
<1>2. ASSUME NEW s \in Sessions, RequestStep(s)
      PROVE  installed' \in BOOLEAN /\ ready' \in BOOLEAN
  BY <1>2 DEF RequestStep, WriteHeader, WriteAudio, WriteFailed, ReadResponse, ReadFailed, RestartStops, Restart
<1>3. ASSUME NEW g \in 1..generation, UnloadStep(g)
      PROVE  installed' \in BOOLEAN /\ ready' \in BOOLEAN
  BY <1>3 DEF UnloadStep, TimerFires, UnloadStops, Unloaded
<1>4. ASSUME NEW p \in Providers, Configure(p)
      PROVE  installed' \in BOOLEAN /\ ready' \in BOOLEAN
  BY <1>4 DEF Configure
<1>5. ASSUME ConfigureStep \/ ChildStep
      PROVE  installed' \in BOOLEAN /\ ready' \in BOOLEAN
  BY <1>5 DEF ConfigureStep, ConfigureStopped, ConfigureStores, ChildStep, Answers, Hangs, Dies
<1> QED
  BY <1>1, <1>2, <1>3, <1>4, <1>5 DEF Next, vars

\* stop leaves the pipes as they are, or empty.
LEMMA Stopping ==
  ASSUME TypeOK, StopEnds
  PROVE  /\ child' \in {"none", "loading", "up", "hung", "dead"}
         /\ inbox' \in Seq(Requests) /\ outbox' \in Seq(Responses)
<1>1. CASE installed
  BY <1>1 DEF StopEnds, Kill
<1>2. CASE ~installed
  BY <1>2 DEF StopEnds, pipes, TypeOK
<1> QED
  BY <1>1, <1>2

\* A header waits for its audio at the end of the pipe, and the audio that comes
\* changes nothing else.
LEMMA Writing ==
  ASSUME TypeOK, NEW s \in Sessions, WriteHeader(s) \/ WriteAudio(s)
  PROVE  inbox' \in Seq(Requests)
<1>1. inbox \in Seq(Requests) BY DEF TypeOK
<1>2. CASE WriteHeader(s)
  BY <1>1, <1>2 DEF WriteHeader, Requests
<1>3. CASE WriteAudio(s)
  <2> DEFINE n == Len(inbox)
             r == [request |-> inbox[n].request, audio |-> s]
  <2>1. n = Len(inbox) /\ n \in Nat BY <1>1
  <2>2. inbox' = [inbox EXCEPT ![n] = r] BY <1>3 DEF WriteAudio
  <2>3. n \in 1..n => r \in Requests
    <3>1. n \in 1..n => inbox[n] \in Requests BY <1>1
    <3> HIDE DEF n
    <3> QED BY <3>1 DEF Requests
  <2> HIDE DEF n, r
  <2>4. CASE n \in 1..n BY <1>1, <2>1, <2>2, <2>3, <2>4
  <2>5. CASE n \notin 1..n
    <3>1. n = 0 BY <2>1, <2>5
    <3>2. inbox = <<>> BY <1>1, <2>1, <3>1, EmptySeq
    <3>3. inbox' = <<>> BY <2>2, <3>1, <3>2
    <3> QED BY <3>3
  <2> QED BY <2>4, <2>5
<1> QED BY <1>2, <1>3

\* Every step keeps the types, given that the process is owned.
LEMMA TypeStep ==
  ASSUME TypeOK, ProcessOwned, [Next]_vars
  PROVE  TypeOK'
<1> USE JobKinds DEF manager, config, pipes, Kill, Succeed
<1>0. installed' \in BOOLEAN /\ ready' \in BOOLEAN
  BY FlagsStep DEF TypeOK
<1> DEFINE RestOK ==
      /\ provider \in Providers /\ wanted \in Providers /\ configures \in Nat
      /\ at \in [Users \cup {Configuring} -> Steps]
      /\ retried \subseteq Sessions
      /\ queue \in Seq(Jobs)
      /\ generation \in Nat /\ asleep \subseteq Nat /\ unloading \subseteq Nat
      /\ child \in {"none", "loading", "up", "hung", "dead"}
      /\ inbox \in Seq(Requests) /\ outbox \in Seq(Responses)
      /\ answer \in [Sessions -> Sessions \cup {None}]
<1>1. RestOK
  BY DEF TypeOK
<1> SUFFICES RestOK'
  BY <1>0 DEF TypeOK
<1>2. CASE UNCHANGED vars
  BY <1>1, <1>2 DEF vars
<1>3. ASSUME NEW j \in Users, UseAsr(j) \/ UserStep(j)
      PROVE  RestOK'
  <2> USE DEF Steps
  <2>1. CASE UseAsr(j)
    <3>1. at' \in [Users \cup {Configuring} -> Steps]
      BY <2>1, Going DEF UseAsr
    <3>2. queue' \in Seq(Jobs)
      BY <1>1, <2>1, Waiting DEF UseAsr
    <3> QED
      BY <1>1, <2>1, <3>1, <3>2 DEF UseAsr
  <2>2. ASSUME Started(j), Holds(j)
        PROVE  /\ at' \in [Users \cup {Configuring} -> Steps]
               /\ queue' \in Seq(Jobs)
    BY <1>1, <2>2, Going, Releasing DEF Started
  <2>3. CASE EnsureStarted(j)
    <3>1. at' \in [Users \cup {Configuring} -> Steps] /\ queue' \in Seq(Jobs)
      BY <1>1, <2>2, <2>3, Going DEF EnsureStarted
    <3> QED
      BY <1>1, <2>3, <3>1 DEF EnsureStarted
  <2>4. CASE LoadDone(j)
    <3>1. Holds(j)
      BY <2>4 DEF LoadDone, ProcessOwned
    <3> QED
      BY <1>1, <2>2, <2>4, <3>1 DEF LoadDone
  <2>5. CASE LoadFailed(j)
    <3>1. Holds(j)
      BY <2>5 DEF LoadFailed, ProcessOwned
    <3>2. at' \in [Users \cup {Configuring} -> Steps] /\ queue' \in Seq(Jobs)
      BY <1>1, <2>5, <3>1, Failing, Going, Releasing DEF LoadFailed
    <3> QED
      BY <1>1, <2>5, <3>2 DEF LoadFailed
  <2>6. CASE Schedule(j)
    <3>1. at' \in [Users \cup {Configuring} -> Steps]
      BY <2>6, Going DEF Schedule
    <3> QED
      BY <1>1, <2>6, <3>1 DEF Schedule
  <2> QED
    BY <1>3, <2>1, <2>3, <2>4, <2>5, <2>6 DEF UserStep
<1>4. ASSUME NEW s \in Sessions, RequestStep(s)
      PROVE  RestOK'
  <2> USE DEF Steps
  <2> DEFINE j == <<"transcribe", s>>
  <2>1. j \in Users
    OBVIOUS
  <2>2. at[j] \in {"writing", "sending", "reading"} => Holds(j)
    BY <2>1 DEF ProcessOwned
  <2> HIDE DEF j
  <2>3. ASSUME Fail(j) \/ Succeed(j), Release, Holds(j)
        PROVE  /\ at' \in [Users \cup {Configuring} -> Steps]
               /\ queue' \in Seq(Jobs)
    BY <1>1, <2>1, <2>3, Failing, Going, Releasing
  <2>4. CASE WriteHeader(s) \/ WriteAudio(s)
    <3>1. at' \in [Users \cup {Configuring} -> Steps]
      BY <2>1, <2>4, Going DEF WriteHeader, WriteAudio, j
    <3>2. inbox' \in Seq(Requests)
      BY <2>4, Writing
    <3> QED
      BY <1>1, <2>4, <3>1, <3>2 DEF WriteHeader, WriteAudio
  <2>5. CASE WriteFailed(s) \/ ReadFailed(s)
    BY <1>1, <2>2, <2>3, <2>5 DEF WriteFailed, ReadFailed, j
  <2>6. CASE ReadResponse(s)
    <3>1. Head(outbox) \in Responses /\ outbox' \in Seq(Responses)
      BY <1>1, <2>6 DEF ReadResponse
    <3>2. answer' \in [Sessions -> Sessions \cup {None}]
      BY <1>1, <2>6, <3>1 DEF ReadResponse, Responses
    <3>3. at' \in [Users \cup {Configuring} -> Steps] /\ queue' \in Seq(Jobs)
      BY <2>2, <2>3, <2>6 DEF ReadResponse, j
    <3> QED
      BY <1>1, <2>6, <3>1, <3>2, <3>3 DEF ReadResponse
  <2>7. CASE RestartStops(s)
    <3>1. at' \in [Users \cup {Configuring} -> Steps]
      BY <2>1, <2>7, Going DEF RestartStops, j
    <3>2. queue' \in Seq(Jobs)
      BY <1>1, <2>1, <2>7, Waiting DEF RestartStops, StopBegins, j
    <3> QED
      BY <1>1, <2>7, <3>1, <3>2 DEF RestartStops
  <2>8. CASE Restart(s)
    <3>1. at' \in [Users \cup {Configuring} -> Steps]
      BY <2>1, <2>8, Going DEF Restart, j
    <3>2. queue' \in Seq(Jobs)
      BY <1>1, <2>1, <2>8 DEF Restart, Holds, j
    <3> QED
      BY <1>1, <2>8, <3>1, <3>2, Stopping DEF Restart
  <2> QED
    BY <1>4, <2>4, <2>5, <2>6, <2>7, <2>8 DEF RequestStep
<1>5. ASSUME NEW g \in 1..generation, UnloadStep(g)
      PROVE  RestOK'
  <2>1. g \in Nat
    BY <1>1, <1>5
  <2>2. CASE TimerFires(g)
    BY <1>1, <2>1, <2>2 DEF TimerFires
  <2>3. CASE UnloadStops(g)
    <3>1. queue' \in Seq(Jobs)
      BY <1>1, <2>1, <2>3, Waiting DEF UnloadStops, StopBegins
    <3> QED
      BY <1>1, <2>3, <3>1 DEF UnloadStops
  <2>4. CASE Unloaded(g)
    <3>1. queue' \in Seq(Jobs)
      BY <1>1, <2>1, <2>4, Releasing DEF Unloaded
    <3> QED
      BY <1>1, <2>4, <3>1, Stopping DEF Unloaded
  <2> QED
    BY <1>5, <2>2, <2>3, <2>4 DEF UnloadStep
<1>6. ASSUME NEW p \in Providers, Configure(p)
      PROVE  RestOK'
  <2>1. at' \in [Users \cup {Configuring} -> Steps]
    BY <1>6, Going DEF Configure, Steps
  <2>2. queue' \in Seq(Jobs)
    BY <1>1, <1>6, Waiting DEF Configure, StopBegins
  <2> QED
    BY <1>1, <1>6, <2>1, <2>2 DEF Configure
<1>7. CASE ConfigureStep
  <2>1. at' \in [Users \cup {Configuring} -> Steps]
    BY <1>7, Going DEF ConfigureStep, ConfigureStopped, ConfigureStores, Steps
  <2>2. queue' \in Seq(Jobs)
    BY <1>1, <1>7, Releasing DEF ConfigureStep, ConfigureStopped, ConfigureStores
  <2> QED
    BY <1>1, <1>7, <2>1, <2>2, Stopping
    DEF ConfigureStep, ConfigureStopped, ConfigureStores
<1>8. CASE ChildStep
  <2>1. CASE Answers
    <3>1. inbox' \in Seq(Requests) /\ Head(inbox) \in Requests
      BY <1>1, <2>1 DEF Answers, HasRequest
    <3>2. outbox' \in Seq(Responses)
      BY <1>1, <2>1, <3>1 DEF Answers, Requests, Responses
    <3> QED
      BY <1>1, <2>1, <3>1, <3>2 DEF Answers
  <2>2. CASE Hangs \/ Dies
    BY <1>1, <2>2 DEF Hangs, Dies
  <2> QED
    BY <1>8, <2>1, <2>2 DEF ChildStep
<1> HIDE DEF RestOK
<1> QED
  BY <1>2, <1>3, <1>4, <1>5, <1>6, <1>7, <1>8 DEF Next

\* The lock excludes: a job at work with the process is the one that holds it.
LEMMA OnlyHolder ==
  ASSUME ProcessOwned, NEW h, Holds(h), NEW k \in Users,
         at[k] \in {"loading", "writing", "sending", "reading"}
  PROVE  k = h
BY DEF ProcessOwned, Holds

\* Killing the process under the lock takes it from nobody.
LEMMA StoppingOwned ==
  ASSUME TypeOK, ProcessOwned, NEW h, Holds(h), StopEnds,
         \A k \in Users : at[k] \in {"loading", "writing", "sending", "reading"} => k # h,
         \A k \in Users : at'[k] \in {"loading", "writing", "sending", "reading"} =>
                            at'[k] = at[k]
  PROVE  ProcessOwned'
<1>1. \A k \in Users : at[k] \notin {"loading", "writing", "sending", "reading"}
  BY OnlyHolder
<1>2. \A k \in Users : at'[k] \notin {"loading", "writing", "sending", "reading"}
  BY <1>1
<1>3. child' = "none" /\ ~installed'
  <2>1. CASE installed
    BY <2>1 DEF StopEnds, Kill
  <2>2. CASE ~installed
    BY <1>1, <2>2 DEF StopEnds, pipes, ProcessOwned
  <2> QED
    BY <2>1, <2>2
<1> QED
  BY <1>2, <1>3 DEF ProcessOwned

\* Every step keeps the process owned.
LEMMA OwnedStep ==
  ASSUME TypeOK, ProcessOwned, [Next]_vars
  PROVE  ProcessOwned'
<1> USE JobKinds DEF manager, config, pipes
<1> DEFINE Locking == {"loading", "writing", "sending", "reading"}
<1>1. queue \in Seq(Jobs)
  BY DEF TypeOK
<1>2. CASE UNCHANGED vars
  BY <1>2 DEF vars, ProcessOwned, Holds
<1>3. ASSUME NEW j \in Users, UseAsr(j) \/ UserStep(j)
      PROVE  ProcessOwned'
  <2>1. CASE UseAsr(j)
    <3>1. \A k \in Users : at'[k] \in Locking => at'[k] = at[k]
      BY <2>1, Going DEF UseAsr, Steps
    <3>2. \A k \in Users : at[k] \in Locking => at'[k] = at[k]
      BY <2>1, Going DEF UseAsr, Steps
    <3>3. \A k \in Users : Holds(k) => Holds(k)'
      BY <1>1, <2>1, Waiting DEF UseAsr, Holds
    <3> QED
      BY <2>1, <3>1, <3>2, <3>3 DEF UseAsr, ProcessOwned
  <2>2. ASSUME Started(j), Holds(j), installed', child' \notin {"none", "loading"},
               at[j] \in {"queued", "loading"}
        PROVE  ProcessOwned'
    <3>1. \A k \in Users \ {j} : at'[k] \notin Locking
      BY <2>2, Going, OnlyHolder DEF Started, Succeed, Steps
    <3>2. CASE at'[j] \in Locking
      <4>1. at'[j] = "writing" /\ Holds(j)'
        BY <2>2, <3>2, Going DEF Started, Succeed, Steps, Holds
      <4> QED
        BY <2>2, <3>1, <4>1 DEF ProcessOwned
    <3>3. CASE at'[j] \notin Locking
      BY <2>2, <3>1, <3>3 DEF ProcessOwned
    <3> QED
      BY <3>2, <3>3
  <2>3. CASE EnsureStarted(j) /\ installed
    BY <2>2, <2>3 DEF EnsureStarted, ProcessOwned
  <2>4. CASE EnsureStarted(j) /\ ~installed
    <3>1. \A k \in Users \ {j} : at'[k] \notin Locking
      BY <2>4, Going, OnlyHolder DEF EnsureStarted, Steps
    <3>2. at'[j] = "loading" /\ Holds(j)' /\ child' = "loading" /\ ~installed'
      BY <2>4, Going DEF EnsureStarted, Steps, Holds
    <3> QED
      BY <3>1, <3>2 DEF ProcessOwned
  <2>5. CASE LoadDone(j)
    <3>1. Holds(j) /\ installed' /\ child' = "up"
      BY <2>5 DEF LoadDone, ProcessOwned
    <3> QED
      BY <2>2, <2>5, <3>1 DEF LoadDone
  <2>6. CASE LoadFailed(j)
    <3>1. Holds(j) /\ ~installed
      BY <2>6 DEF LoadFailed, ProcessOwned
    <3>2. \A k \in Users : at'[k] \notin Locking
      BY <2>6, <3>1, Failing, Going, OnlyHolder DEF LoadFailed, Steps
    <3>3. child' = "none" /\ ~installed'
      BY <2>6, <3>1 DEF LoadFailed, Kill
    <3> QED
      BY <3>2, <3>3 DEF ProcessOwned
  <2>7. CASE Schedule(j)
    <3>1. \A k \in Users : at'[k] \in Locking => at'[k] = at[k]
      BY <2>7, Going DEF Schedule, Steps
    <3>2. \A k \in Users : at[k] \in Locking => at'[k] = at[k]
      BY <2>7, Going DEF Schedule, Steps
    <3> QED
      BY <2>7, <3>1, <3>2 DEF Schedule, ProcessOwned, Holds
  <2> QED
    BY <1>3, <2>1, <2>3, <2>4, <2>5, <2>6, <2>7 DEF UserStep
<1>4. ASSUME NEW s \in Sessions, RequestStep(s)
      PROVE  ProcessOwned'
  <2> DEFINE j == <<"transcribe", s>>
  <2>1. j \in Users
    OBVIOUS
  <2> HIDE DEF j
  <2>2. CASE WriteHeader(s) \/ WriteAudio(s)
    <3>1. Holds(j) /\ installed
      BY <2>1, <2>2 DEF WriteHeader, WriteAudio, ProcessOwned, j
    <3>2. \A k \in Users \ {j} : at'[k] \notin Locking
      BY <2>1, <2>2, <3>1, Going, OnlyHolder DEF WriteHeader, WriteAudio, Steps, j
    <3>3. at'[j] \in {"sending", "reading"}
      BY <2>1, <2>2, Going DEF WriteHeader, WriteAudio, Steps, j
    <3> QED
      BY <2>2, <3>1, <3>2, <3>3 DEF WriteHeader, WriteAudio, manager, ProcessOwned, Holds
  <2>3. ASSUME Fail(j) \/ Succeed(j), at[j] \in {"writing", "sending", "reading"},
               UNCHANGED <<installed, child>>
        PROVE  ProcessOwned'
    <3>1. Holds(j) /\ installed
      BY <2>1, <2>3 DEF ProcessOwned
    <3>2. \A k \in Users \ {j} : at[k] \notin Locking
      BY <3>1, OnlyHolder
    <3>3. CASE Succeed(j)
      <4>1. \A k \in Users : at'[k] \notin Locking
        BY <2>1, <3>2, <3>3, Going DEF Succeed, Steps
      <4> QED
        BY <2>3, <3>1, <4>1 DEF ProcessOwned
    <3>4. CASE Fail(j)
      <4>0. PICK step \in {"done", "restarting", "scheduling"} : GoTo(j, step)
        BY <2>1, <3>4, Failing
      <4>1. \A k \in Users : at'[k] \notin Locking
        BY <2>1, <3>2, <4>0, Going DEF Steps
      <4> QED
        BY <2>3, <3>1, <4>1 DEF ProcessOwned
    <3> QED
      BY <2>3, <3>3, <3>4
  <2>4. CASE WriteFailed(s) \/ ReadFailed(s) \/ ReadResponse(s)
    BY <2>3, <2>4 DEF WriteFailed, ReadFailed, ReadResponse, j
  <2>5. CASE RestartStops(s)
    <3>1. \A k \in Users : at'[k] \in Locking => at'[k] = at[k]
      BY <2>1, <2>5, Going DEF RestartStops, Steps, j
    <3>2. \A k \in Users : at[k] \in Locking => at'[k] = at[k]
      BY <2>1, <2>5, Going DEF RestartStops, Steps, j
    <3>3. \A k \in Users : Holds(k) => Holds(k)'
      BY <1>1, <2>1, <2>5, Waiting DEF RestartStops, StopBegins, j
    <3> QED
      BY <2>5, <3>1, <3>2, <3>3 DEF RestartStops, ProcessOwned
  <2>6. CASE Restart(s)
    <3>1. Holds(j) /\ StopEnds /\ at[j] = "stopping"
      BY <2>6 DEF Restart, j
    <3>2. \A k \in Users : at'[k] \in Locking => at'[k] = at[k]
      BY <2>1, <2>6, Going DEF Restart, Steps, j
    <3> QED
      BY <3>1, <3>2, StoppingOwned
  <2> QED
    BY <1>4, <2>2, <2>4, <2>5, <2>6 DEF RequestStep
<1>5. ASSUME NEW g \in 1..generation, UnloadStep(g)
      PROVE  ProcessOwned'
  <2>1. g \in Nat
    BY <1>5 DEF TypeOK
  <2>2. CASE TimerFires(g)
    BY <2>2 DEF TimerFires, ProcessOwned, Holds
  <2>3. CASE UnloadStops(g)
    <3>1. \A k \in Users : Holds(k) => Holds(k)'
      BY <1>1, <2>1, <2>3, Waiting DEF UnloadStops, StopBegins
    <3> QED
      BY <2>3, <3>1 DEF UnloadStops, ProcessOwned
  <2>4. CASE Unloaded(g)
    <3>1. \A k \in Users : k # Unload(g)
      BY <2>1
    <3> QED
      BY <2>4, <3>1, StoppingOwned DEF Unloaded
  <2> QED
    BY <1>5, <2>2, <2>3, <2>4 DEF UnloadStep
<1>6. ASSUME NEW p \in Providers, Configure(p)
      PROVE  ProcessOwned'
  <2>1. \A k \in Users : at'[k] = at[k]
    BY <1>6, Going DEF Configure, Steps
  <2>2. \A k \in Users : Holds(k) => Holds(k)'
    BY <1>1, <1>6, Waiting DEF Configure, StopBegins, Holds
  <2> QED
    BY <1>6, <2>1, <2>2 DEF Configure, ProcessOwned
<1>7. CASE ConfigureStep
  <2>1. \A k \in Users : at'[k] = at[k]
    BY <1>7, Going DEF ConfigureStep, ConfigureStopped, ConfigureStores, Steps
  <2>2. CASE ConfigureStopped
    <3>1. \A k \in Users : k # Configuring
      OBVIOUS
    <3> QED
      BY <2>1, <2>2, <3>1, StoppingOwned DEF ConfigureStopped
  <2>3. CASE ConfigureStores
    BY <2>1, <2>3 DEF ConfigureStores, ProcessOwned, Holds
  <2> QED
    BY <1>7, <2>2, <2>3 DEF ConfigureStep
<1>8. CASE ChildStep
  BY <1>8 DEF ChildStep, Answers, HasRequest, Hangs, Dies, ProcessOwned, Holds
<1> QED
  BY <1>2, <1>3, <1>4, <1>5, <1>6, <1>7, <1>8 DEF Next

\* The variables keep their types and the process is always owned: by the lock's
\* holder while it is loaded or used, by the manager otherwise.  Neither is
\* inductive alone: the queue stays a queue because a job that releases the lock
\* holds it.
THEOREM WorkerOwned == Spec => [](TypeOK /\ ProcessOwned)
<1>1. Init => TypeOK
  <2>1. Init => installed \in BOOLEAN /\ ready \in BOOLEAN
    BY DEF Init
  <2> QED
    BY <2>1 DEF Init, TypeOK, Providers, Steps
<1>2. Init => ProcessOwned
  BY JobKinds DEF Init, ProcessOwned
<1> QED
  BY <1>1, <1>2, TypeStep, OwnedStep, PTL DEF Spec

\* What makes NoCrossTalk inductive: a header without audio is the last of the
\* pipe and of the job that sends its audio, so that every request that is
\* answered has its own audio.
Paired ==
  /\ \A i \in 1..Len(inbox) : inbox[i].audio \in {None, inbox[i].request}
  /\ \A s \in Sessions : at[<<"transcribe", s>>] = "sending" =>
       /\ Len(inbox) > 0
       /\ inbox[Len(inbox)] = [request |-> s, audio |-> None]
  /\ \A i \in 1..Len(outbox) : outbox[i].audio = outbox[i].request
  /\ NoCrossTalk

\* A step that leaves the pipes alone.
LEMMA QuietPaired ==
  ASSUME Paired, UNCHANGED <<inbox, outbox, answer>>,
         \A k \in Users : at'[k] = "sending" => at[k] = "sending"
  PROVE  Paired'
BY JobKinds DEF Paired, NoCrossTalk

\* The process is killed while nobody writes.
LEMMA KilledPaired ==
  ASSUME Paired, Kill \/ UNCHANGED pipes, UNCHANGED answer,
         \A k \in Users : at'[k] # "sending"
  PROVE  Paired'
<1>1. CASE Kill
  <2>1. inbox' = <<>> /\ outbox' = <<>> BY <1>1 DEF Kill
  <2>2. Len(inbox') = 0 /\ Len(outbox') = 0 BY <2>1
  <2>3. 1..Len(inbox') = {} /\ 1..Len(outbox') = {} BY <2>2
  <2>4. \A s \in Sessions : at'[<<"transcribe", s>>] # "sending" BY JobKinds
  <2> QED BY <2>3, <2>4 DEF Paired, NoCrossTalk
<1>2. CASE UNCHANGED pipes BY <1>2, JobKinds DEF pipes, Paired, NoCrossTalk
<1> QED BY <1>1, <1>2

\* stop, by a job that holds the lock and does not write.
LEMMA StoppedPaired ==
  ASSUME ProcessOwned, Paired, NEW h, Holds(h), StopEnds, UNCHANGED answer,
         h \in Users => at[h] # "sending",
         \A k \in Users : at'[k] = "sending" => at[k] = "sending"
  PROVE  Paired'
<1>1. \A k \in Users : at'[k] # "sending" BY OnlyHolder
<1> QED BY <1>1, KilledPaired DEF StopEnds

\* A job writes its header, then its audio: the lock keeps others from writing
\* in between.
LEMMA WritePaired ==
  ASSUME TypeOK, ProcessOwned, Paired, NEW s \in Sessions,
         WriteHeader(s) \/ WriteAudio(s)
  PROVE  Paired'
<1> DEFINE j == <<"transcribe", s>>
<1>1. j \in Users BY JobKinds
<1> HIDE DEF j
<1>2. inbox \in Seq(Requests) BY DEF TypeOK
<1>3. \A k \in Users \ {j} : at'[k] # "sending"
  <2>1. Holds(j) BY <1>1 DEF WriteHeader, WriteAudio, ProcessOwned, j
  <2>2. \A k \in Users \ {j} : at[k] # "sending" BY <1>1, <2>1, OnlyHolder
  <2> QED BY <1>1, <2>2, Going DEF WriteHeader, WriteAudio, Steps, j
<1>4. \A t \in Sessions : t # s => at'[<<"transcribe", t>>] # "sending"
  BY <1>3, JobKinds DEF j
<1>5. UNCHANGED <<outbox, answer>> BY DEF WriteHeader, WriteAudio
<1>6. CASE WriteHeader(s)
  <2> DEFINE r == [request |-> s, audio |-> None]
  <2>1. inbox' = Append(inbox, r) BY <1>6 DEF WriteHeader
  <2>2. /\ Len(inbox') = Len(inbox) + 1 /\ inbox'[Len(inbox')] = r
        /\ \A i \in 1..Len(inbox) : inbox'[i] = inbox[i]
    BY <1>2, <2>1
  <2>3. r.audio = None OBVIOUS
  <2> HIDE DEF r
  <2>4. \A i \in 1..Len(inbox') : inbox'[i].audio \in {None, inbox'[i].request}
    <3> SUFFICES ASSUME NEW i \in 1..Len(inbox')
                 PROVE  inbox'[i].audio \in {None, inbox'[i].request}
      OBVIOUS
    <3>1. CASE i = Len(inbox') BY <2>2, <2>3, <3>1
    <3>2. CASE i # Len(inbox')
      <4>1. i \in 1..Len(inbox) BY <1>2, <2>2, <3>2
      <4> QED BY <2>2, <4>1 DEF Paired
    <3> QED BY <3>1, <3>2
  <2>5. Len(inbox') > 0 BY <1>2, <2>2
  <2> QED BY <1>4, <1>5, <2>2, <2>4, <2>5 DEF Paired, NoCrossTalk, r
<1>7. CASE WriteAudio(s)
  <2> DEFINE n == Len(inbox)
  <2>1. /\ n > 0 /\ inbox[n].request = s
    <3>1. at[<<"transcribe", s>>] = "sending" BY <1>7 DEF WriteAudio
    <3>2. Len(inbox) > 0 /\ inbox[Len(inbox)] = [request |-> s, audio |-> None]
      BY <3>1 DEF Paired
    <3>3. inbox[Len(inbox)].request = s BY <3>2
    <3> QED BY <3>2, <3>3
  <2>2. n \in 1..n /\ n = Len(inbox) BY <1>2, <2>1
  <2> HIDE DEF n
  <2>3. inbox' = [inbox EXCEPT ![n] = [request |-> s, audio |-> s]]
    BY <1>7, <2>1, <2>2 DEF WriteAudio
  <2>4. /\ Len(inbox') = Len(inbox)
        /\ inbox'[n] = [request |-> s, audio |-> s]
        /\ \A i \in 1..Len(inbox) : i # n => inbox'[i] = inbox[i]
    BY <1>2, <2>2, <2>3
  <2>5. \A i \in 1..Len(inbox') : inbox'[i].audio \in {None, inbox'[i].request}
    BY <2>4 DEF Paired
  <2>6. at'[j] # "sending" BY <1>1, <1>7, Going DEF WriteAudio, Steps, j
  <2> QED BY <1>4, <1>5, <2>5, <2>6 DEF Paired, NoCrossTalk, j
<1> QED BY <1>6, <1>7

\* The worker answers a request with the audio that came behind its header, and
\* the reader takes the answer to its own.
LEMMA AnswerPaired ==
  ASSUME TypeOK, Paired, Answers \/ \E s \in Sessions : ReadResponse(s)
  PROVE  Paired'
<1>1. inbox \in Seq(Requests) /\ outbox \in Seq(Responses) BY DEF TypeOK
<1>2. CASE Answers
  <2>1. inbox # <<>> /\ inbox[1].audio = inbox[1].request /\ inbox[1].audio # None
    BY <1>1, <1>2 DEF Answers, HasRequest, Paired
  <2>2. /\ Len(inbox') = Len(inbox) - 1
        /\ \A i \in 1..Len(inbox') : i + 1 \in 1..Len(inbox) /\ inbox'[i] = inbox[i + 1]
    BY <1>1, <1>2, <2>1 DEF Answers
  <2>3. \A i \in 1..Len(inbox') : inbox'[i].audio \in {None, inbox'[i].request}
    BY <2>2 DEF Paired
  <2>4. ASSUME NEW s \in Sessions, at'[<<"transcribe", s>>] = "sending"
        PROVE  Len(inbox') > 0 /\ inbox'[Len(inbox')] = [request |-> s, audio |-> None]
    <3>1. Len(inbox) > 0 /\ inbox[Len(inbox)] = [request |-> s, audio |-> None]
      BY <1>2, <2>4 DEF Answers, Paired
    <3>2. inbox[Len(inbox)].audio = None BY <3>1
    <3>3. Len(inbox) > 1 BY <1>1, <2>1, <3>1, <3>2
    <3> QED BY <1>1, <2>2, <3>1, <3>3
  <2>5. PICK r : outbox' = Append(outbox, r) /\ r.audio = r.request
    BY <1>2, <2>1 DEF Answers
  <2>6. \A i \in 1..Len(outbox') : outbox'[i].audio = outbox'[i].request
    <3> SUFFICES ASSUME NEW i \in 1..Len(outbox')
                 PROVE  outbox'[i].audio = outbox'[i].request
      OBVIOUS
    <3>1. \/ i \in 1..Len(outbox) /\ outbox'[i] = outbox[i]
          \/ outbox'[i] = r
      BY <1>1, <2>5
    <3> QED BY <2>5, <3>1 DEF Paired
  <2>7. UNCHANGED answer BY <1>2 DEF Answers
  <2> QED BY <2>3, <2>4, <2>6, <2>7 DEF Paired, NoCrossTalk
<1>3. ASSUME NEW s \in Sessions, ReadResponse(s) PROVE Paired'
  <2>1. outbox # <<>> /\ outbox' = Tail(outbox) /\ inbox' = inbox
    BY <1>3 DEF ReadResponse
  <2>2. /\ outbox[1].audio = outbox[1].request /\ Head(outbox) = outbox[1]
        /\ \A i \in 1..Len(outbox') : outbox'[i].audio = outbox'[i].request
    BY <1>1, <2>1 DEF Paired
  <2>3. answer' = answer \/ answer' = [answer EXCEPT ![s] = s]
    BY <1>3, <2>2 DEF ReadResponse, Matches
  <2>4. NoCrossTalk' BY <2>3 DEF Paired, NoCrossTalk, TypeOK
  <2>5. \A k \in Users : at'[k] = "sending" => at[k] = "sending"
    <3> DEFINE j == <<"transcribe", s>>
    <3>1. j \in Users BY JobKinds
    <3> HIDE DEF j
    <3>2. Succeed(j) \/ Fail(j) BY <1>3 DEF ReadResponse, j
    <3>3. PICK step \in {"done", "restarting", "scheduling"} : GoTo(j, step)
      BY <3>1, <3>2, Failing DEF Succeed
    <3> QED BY <3>1, <3>3, Going DEF Steps
  <2>6. \A t \in Sessions : at'[<<"transcribe", t>>] = "sending" =>
          at[<<"transcribe", t>>] = "sending"
    BY <2>5, JobKinds
  <2> QED BY <2>1, <2>2, <2>4, <2>6 DEF Paired
<1> QED BY <1>2, <1>3

\* Every step keeps headers and audio together.
LEMMA PairedStep ==
  ASSUME TypeOK, ProcessOwned, Paired, [Next]_vars
  PROVE  Paired'
<1> USE JobKinds
<1> DEFINE Quiet == \A k \in Users : at'[k] = "sending" => at[k] = "sending"
<1>1. ASSUME NEW j \in Users \cup {Configuring}, NEW step \in Steps \ {"sending"},
             GoTo(j, step)
      PROVE  Quiet
  BY <1>1, Going
<1>2. ASSUME NEW j \in Users, Fail(j) PROVE Quiet
  BY <1>1, <1>2, Failing DEF Steps
<1> HIDE DEF Quiet
<1>3. ASSUME Quiet, UNCHANGED <<inbox, outbox, answer>> PROVE Paired'
  BY <1>3, QuietPaired DEF Quiet
<1>4. CASE UNCHANGED vars
  BY <1>3, <1>4 DEF vars, Quiet
<1>5. ASSUME NEW j \in Users, UseAsr(j) \/ UserStep(j) PROVE Paired'
  <2>1. CASE UseAsr(j)
    <3>1. Quiet BY <1>1, <2>1 DEF UseAsr, Steps
    <3> QED BY <1>3, <2>1, <3>1 DEF UseAsr, pipes
  <2>2. CASE EnsureStarted(j) \/ LoadDone(j)
    <3>1. Quiet BY <1>1, <2>2 DEF EnsureStarted, LoadDone, Started, Succeed, Steps
    <3> QED BY <1>3, <2>2, <3>1 DEF EnsureStarted, LoadDone, pipes
  <2>3. CASE LoadFailed(j)
    <3>1. Quiet BY <1>2, <2>3 DEF LoadFailed
    <3>2. Holds(j) /\ at[j] = "loading" BY <2>3 DEF LoadFailed, ProcessOwned
    <3>3. \A k \in Users : at'[k] # "sending"
      BY <3>1, <3>2, OnlyHolder DEF Quiet
    <3> QED BY <2>3, <3>3, KilledPaired DEF LoadFailed
  <2>4. CASE Schedule(j)
    <3>1. Quiet BY <1>1, <2>4 DEF Schedule, Steps
    <3> QED BY <1>3, <2>4, <3>1 DEF Schedule, pipes
  <2> QED BY <1>5, <2>1, <2>2, <2>3, <2>4 DEF UserStep
<1>6. ASSUME NEW s \in Sessions, RequestStep(s) PROVE Paired'
  <2> DEFINE j == <<"transcribe", s>>
  <2>1. j \in Users OBVIOUS
  <2> HIDE DEF j
  <2>2. CASE WriteFailed(s) \/ ReadFailed(s)
    <3>1. Quiet BY <1>2, <2>1, <2>2 DEF WriteFailed, ReadFailed, j
    <3> QED BY <1>3, <2>2, <3>1 DEF WriteFailed, ReadFailed, pipes
  <2>3. CASE RestartStops(s)
    <3>1. Quiet BY <1>1, <2>1, <2>3 DEF RestartStops, Steps, j
    <3> QED BY <1>3, <2>3, <3>1 DEF RestartStops, pipes
  <2>4. CASE Restart(s)
    <3>1. Quiet BY <1>1, <2>1, <2>4 DEF Restart, Steps, j
    <3> QED BY <2>4, <3>1, StoppedPaired DEF Restart, Quiet
  <2> QED
    BY <1>6, <2>2, <2>3, <2>4, WritePaired, AnswerPaired DEF RequestStep
<1>7. ASSUME NEW g \in 1..generation, UnloadStep(g) PROVE Paired'
  <2>1. at' = at BY <1>7 DEF UnloadStep, TimerFires, UnloadStops, Unloaded
  <2>2. Quiet BY <2>1 DEF Quiet
  <2>3. CASE TimerFires(g) \/ UnloadStops(g)
    BY <1>3, <2>2, <2>3 DEF TimerFires, UnloadStops, pipes
  <2>4. CASE Unloaded(g)
    <3>1. g \in Nat BY <1>7 DEF TypeOK
    <3>2. Unload(g) \notin Users BY <3>1
    <3> QED BY <2>2, <2>4, <3>2, StoppedPaired DEF Unloaded, Quiet
  <2> QED BY <1>7, <2>3, <2>4 DEF UnloadStep
<1>8. ASSUME NEW p \in Providers, Configure(p) PROVE Paired'
  <2>1. Quiet BY <1>1, <1>8 DEF Configure, Steps
  <2> QED BY <1>3, <1>8, <2>1 DEF Configure, pipes
<1>9. CASE ConfigureStep
  <2>1. Quiet
    BY <1>1, <1>9 DEF ConfigureStep, ConfigureStopped, ConfigureStores, Steps
  <2>2. CASE ConfigureStopped
    BY <2>1, <2>2, StoppedPaired DEF ConfigureStopped, Quiet
  <2>3. CASE ConfigureStores
    BY <1>3, <2>1, <2>3 DEF ConfigureStores, pipes
  <2> QED BY <1>9, <2>2, <2>3 DEF ConfigureStep
<1>10. CASE ChildStep
  <2>1. CASE Hangs \/ Dies
    <3>1. at' = at BY <2>1 DEF Hangs, Dies
    <3> QED BY <1>3, <2>1, <3>1 DEF Hangs, Dies, Quiet
  <2> QED BY <1>10, <2>1, AnswerPaired DEF ChildStep
<1> QED BY <1>4, <1>5, <1>6, <1>7, <1>8, <1>9, <1>10 DEF Next

\* The text given for a session is the text of its own audio, whatever answers
\* were left behind and however the jobs write (worker.rs:90-144): the lock
\* keeps headers and audio together, request_id keeps late answers away.
THEOREM AnswersMatch == Spec => []NoCrossTalk
<1>1. ASSUME Init PROVE Paired
  <2>1. inbox = <<>> /\ outbox = <<>> BY <1>1 DEF Init
  <2>2. Len(inbox) = 0 /\ Len(outbox) = 0 BY <2>1
  <2>3. 1..Len(inbox) = {} /\ 1..Len(outbox) = {} BY <2>2
  <2>4. \A s \in Sessions : at[<<"transcribe", s>>] # "sending"
    BY <1>1, JobKinds DEF Init
  <2>5. NoCrossTalk BY <1>1 DEF Init, NoCrossTalk
  <2> QED BY <2>3, <2>4, <2>5 DEF Paired
<1>2. Paired => NoCrossTalk BY DEF Paired
<1> QED BY <1>1, <1>2, WorkerOwned, PairedStep, PTL DEF Spec

\* The idle timer that is not void stays in the queue, unless it is its turn.
LEMMA PendingKept ==
  ASSUME TypeOK, UnloadPending, UNCHANGED <<generation, asleep, unloading>>,
         \/ queue' = queue
         \/ \E j \in Jobs : Wait(j)
         \/ \E j \in Jobs : Holds(j) /\ j # Unload(generation) /\ Release
  PROVE  UnloadPending'
<1>1. CASE generation \in asleep \cup unloading BY <1>1 DEF UnloadPending
<1>2. ASSUME NEW i \in 1..Len(queue), queue[i] = Unload(generation)
      PROVE  UnloadPending'
  <2>1. queue \in Seq(Jobs) BY DEF TypeOK
  <2>2. CASE queue' = queue BY <1>2, <2>2 DEF UnloadPending, Unload
  <2>3. ASSUME NEW j \in Jobs, Wait(j) PROVE UnloadPending'
    <3>1. i \in 1..Len(queue') /\ queue'[i] = Unload(generation)
      BY <1>2, <2>1, <2>3 DEF Wait
    <3> QED BY <3>1 DEF UnloadPending, Unload
  <2>4. ASSUME NEW j \in Jobs, Holds(j), j # Unload(generation), Release
        PROVE  UnloadPending'
    <3>1. i # 1 BY <1>2, <2>1, <2>4 DEF Holds
    <3>2. i - 1 \in 1..Len(queue') /\ queue'[i - 1] = Unload(generation)
      BY <1>2, <2>1, <2>4, <3>1 DEF Release, Holds
    <3> QED BY <3>2 DEF UnloadPending, Unload
  <2> QED BY <2>2, <2>3, <2>4
<1> QED BY <1>1, <1>2 DEF UnloadPending

\* A job that leaves the lock is followed by its own idle timer, and a timer
\* that is overtaken by a later use leaves the model to that one's.
LEMMA ForgottenStep ==
  ASSUME TypeOK, ProcessOwned, NoForgottenModel, [Next]_vars
  PROVE  NoForgottenModel'
<1> USE JobKinds
<1>1. ASSUME NEW j \in Users, NEW step \in Steps \ {"off", "done"}, GoTo(j, step)
      PROVE  NoForgottenModel'
  BY <1>1, Going DEF NoForgottenModel, InUse
<1>2. ASSUME ~installed' PROVE NoForgottenModel'
  BY <1>2 DEF NoForgottenModel
<1>3. ASSUME installed' = installed, UNCHANGED <<generation, asleep, unloading>>,
             InUse => InUse',
             \/ queue' = queue
             \/ \E j \in Jobs : Wait(j)
             \/ \E j \in Jobs : Holds(j) /\ j # Unload(generation) /\ Release
      PROVE  NoForgottenModel'
  BY <1>3, PendingKept DEF NoForgottenModel
<1>4. CASE UNCHANGED vars
  BY <1>3, <1>4 DEF vars, InUse
<1>5. ASSUME NEW j \in Users, UseAsr(j) \/ UserStep(j) PROVE NoForgottenModel'
  <2>1. CASE UseAsr(j) /\ provider = "local"
    BY <1>1, <2>1 DEF UseAsr, Steps
  <2>2. CASE UseAsr(j) /\ provider # "local"
    <3>1. InUse => InUse'
      BY <2>2, Going DEF UseAsr, InUse, Steps
    <3> QED BY <1>3, <2>2, <3>1 DEF UseAsr, manager
  <2>3. CASE EnsureStarted(j) \/ LoadDone(j)
    BY <1>1, <2>3 DEF EnsureStarted, LoadDone, Started, Succeed, Steps
  <2>4. CASE LoadFailed(j)
    BY <1>2, <2>4 DEF LoadFailed, ProcessOwned, manager
  <2>5. CASE Schedule(j)
    BY <2>5 DEF Schedule, NoForgottenModel, UnloadPending
  <2> QED BY <1>5, <2>1, <2>2, <2>3, <2>4, <2>5 DEF UserStep
<1>6. ASSUME NEW s \in Sessions, RequestStep(s) PROVE NoForgottenModel'
  <2> DEFINE j == <<"transcribe", s>>
  <2>1. j \in Users /\ j[1] # "warm" OBVIOUS
  <2> HIDE DEF j
  <2>2. ASSUME Fail(j) PROVE NoForgottenModel'
    BY <1>1, <2>1, <2>2, Failing DEF Steps
  <2>3. CASE WriteFailed(s) \/ ReadFailed(s)
    BY <2>2, <2>3 DEF WriteFailed, ReadFailed, j
  <2>4. CASE ReadResponse(s)
    BY <1>1, <2>1, <2>2, <2>4 DEF ReadResponse, Succeed, Steps, j
  <2>5. CASE WriteHeader(s) \/ WriteAudio(s) \/ RestartStops(s) \/ Restart(s)
    BY <1>1, <2>1, <2>5 DEF WriteHeader, WriteAudio, RestartStops, Restart, Steps, j
  <2> QED BY <1>6, <2>3, <2>4, <2>5 DEF RequestStep
<1>7. ASSUME NEW g \in 1..generation, UnloadStep(g) PROVE NoForgottenModel'
  <2>1. g \in Nat BY <1>7 DEF TypeOK
  <2>2. CASE TimerFires(g)
    BY <2>2 DEF TimerFires, NoForgottenModel, InUse, UnloadPending, Unload
  <2>3. CASE UnloadStops(g)
    <3>1. CASE generation = g
      <4>1. Len(queue') \in 1..Len(queue') /\ queue'[Len(queue')] = Unload(g)
        BY <2>3, <2>1 DEF UnloadStops, StopBegins, Wait, TypeOK
      <4> QED
        BY <2>3, <3>1, <4>1 DEF UnloadStops, NoForgottenModel, UnloadPending, Unload
    <3>2. CASE generation # g
      <4>1. UnloadPending => UnloadPending'
        <5>1. \A i \in 1..Len(queue) :
                i \in 1..Len(queue') /\ queue'[i] = queue[i]
          BY <2>1, <2>3 DEF UnloadStops, StopBegins, Wait, TypeOK
        <5> QED BY <2>3, <3>2, <5>1 DEF UnloadStops, UnloadPending, Unload
      <4> QED BY <2>3, <4>1 DEF UnloadStops, NoForgottenModel, InUse
    <3> QED BY <3>1, <3>2
  <2>4. CASE Unloaded(g)
    BY <1>2, <2>4 DEF Unloaded, StopEnds
  <2> QED BY <1>7, <2>2, <2>3, <2>4 DEF UnloadStep
<1>8. ASSUME NEW p \in Providers, Configure(p) PROVE NoForgottenModel'
  <2>1. \A k \in Users : at'[k] = at[k]
    BY <1>8, Going DEF Configure, Steps
  <2> QED BY <1>3, <1>8, <2>1 DEF Configure, StopBegins, InUse
<1>9. CASE ConfigureStep
  <2>1. CASE ConfigureStopped
    BY <1>2, <2>1 DEF ConfigureStopped, StopEnds
  <2>2. CASE ConfigureStores
    <3>1. \A k \in Users : at'[k] = at[k]
      BY <2>2, Going DEF ConfigureStores, Steps
    <3> QED BY <1>3, <2>2, <3>1 DEF ConfigureStores, manager, InUse
  <2> QED BY <1>9, <2>1, <2>2 DEF ConfigureStep
<1>10. CASE ChildStep
  BY <1>3, <1>10 DEF ChildStep, Answers, Hangs, Dies, manager, InUse
<1> QED BY <1>4, <1>5, <1>6, <1>7, <1>8, <1>9, <1>10 DEF Next

\* No model stays loaded that nobody will unload: a job still uses it, or the
\* last idle timer is on its way (worker.rs:66-87, 188-207).
THEOREM ModelRemembered == Spec => []NoForgottenModel
<1>1. Init => NoForgottenModel BY DEF Init, NoForgottenModel
<1> QED BY <1>1, WorkerOwned, ForgottenStep, PTL DEF Spec

\* Every variable of the worker's manager keeps its type.
THEOREM WorkerTypeCorrect == Spec => []TypeOK
BY WorkerOwned, PTL
=============================================================================
