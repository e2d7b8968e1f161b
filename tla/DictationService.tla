-------------------------- MODULE DictationService --------------------------
(***************************************************************************)
(* What the daemon promises to the callers of its D-Bus interface, with    *)
(* the pipeline behind it abstracted away: the life of each dictation      *)
(* session, from Begin to the one delivery of its text or to its loss.     *)
(*                                                                         *)
(* DictationPipeline implements this specification; see Service there.     *)
(***************************************************************************)
CONSTANTS
  Sessions,   \* session identifiers; each is begun at most once
  Callers,    \* D-Bus unique names
  None        \* no caller

VARIABLES
  status,     \* status[s]: where session s is in its life
  owner,      \* owner[s]: the caller whose Begin(s) was accepted
  receiver    \* receiver[s]: the caller the text of s was returned to

svars == <<status, owner, receiver>>

Statuses ==
  {"new", "recording", "processing", "failed", "ready", "delivered", "dropped"}

\* The sessions that still hold something of the daemon's.
Held == {s \in Sessions :
           status[s] \in {"recording", "processing", "failed", "ready"}}

SInit ==
  /\ status = [s \in Sessions |-> "new"]
  /\ owner = [s \in Sessions |-> None]
  /\ receiver = [s \in Sessions |-> None]

\* One microphone: a session begins only when none is recording.
Begin(o, s) ==
  /\ status[s] = "new"
  /\ \A t \in Sessions : status[t] # "recording"
  /\ status' = [status EXCEPT ![s] = "recording"]
  /\ owner' = [owner EXCEPT ![s] = o]
  /\ UNCHANGED receiver

\* One session in processing: an earlier one still there is given up.
End(s) ==
  /\ status[s] = "recording"
  /\ status' = [t \in Sessions |->
                  IF t = s THEN "processing"
                  ELSE IF status[t] \in {"processing", "failed"} THEN "dropped"
                  ELSE status[t]]
  /\ UNCHANGED <<owner, receiver>>

Fail(s) ==
  /\ status[s] = "processing"
  /\ status' = [status EXCEPT ![s] = "failed"]
  /\ UNCHANGED <<owner, receiver>>

\* The text of s is ready; results past their time go at the same moment.
Store(s) ==
  /\ status[s] = "processing"
  /\ \E expired \in SUBSET {t \in Sessions : status[t] = "ready"} :
       status' = [t \in Sessions |->
                    IF t = s THEN "ready"
                    ELSE IF t \in expired THEN "dropped"
                    ELSE status[t]]
  /\ UNCHANGED <<owner, receiver>>

\* The text goes to the caller that began the session, and to no other.
Deliver(s) ==
  /\ status[s] = "ready"
  /\ status' = [status EXCEPT ![s] = "delivered"]
  /\ receiver' = [receiver EXCEPT ![s] = owner[s]]
  /\ UNCHANGED owner

\* Cancelled, expired or given up: what a session held is gone for good.
Drop(lost) ==
  /\ status' = [s \in Sessions |-> IF s \in lost THEN "dropped" ELSE status[s]]
  /\ UNCHANGED <<owner, receiver>>

SNext ==
  \/ \E o \in Callers, s \in Sessions : Begin(o, s)
  \/ \E s \in Sessions : End(s) \/ Fail(s) \/ Store(s) \/ Deliver(s)
  \/ \E lost \in SUBSET Held : Drop(lost)

SSpec == SInit /\ [][SNext]_svars
=============================================================================
