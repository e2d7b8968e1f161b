------------------------------ MODULE Recording ------------------------------
(***************************************************************************)
(* One recording: daemon/src/audio.rs.                                     *)
(*                                                                         *)
(* Three actors: the pw-record process, which writes PCM into a pipe until *)
(* it obeys SIGINT, dies, or is killed when its Child is dropped; the      *)
(* reader task, which collects the bytes up to a limit; and the owner,     *)
(* which calls start and then finish or cancel.  Bytes are counted, in     *)
(* units of the model.  Signals and timeouts take effect at any moment, or,*)
(* as far as pw-record is concerned, never.                                *)
(***************************************************************************)
EXTENDS Naturals

CONSTANTS
  Limits,    \* the values max_bytes may have
  MinBytes,  \* a tenth of a second
  Chunk,     \* the size of the reader's buffer
  Pipe       \* the capacity of the pipe

ASSUME RecordingAssumption ==
  /\ Limits \subseteq Nat
  /\ MinBytes \in Nat
  /\ Chunk \in Nat \ {0}
  /\ Pipe \in Nat \ {0}

VARIABLES
  owner,    \* where the owner of the Recording is
  child,    \* pw-record
  reader,   \* the reader task and how it ended
  limit,    \* max_bytes of this recording
  written,  \* bytes pw-record recorded and wrote
  pcm       \* bytes the reader took and kept

recordingVars == <<owner, child, reader, limit, written, pcm>>

Returned == {"audio", "error", "cancelled"}
Owners == {"none", "recording", "stopping", "draining", "cancelling", "lost"}
            \cup Returned

RecordingTypeOK ==
  /\ owner \in Owners
  /\ child \in {"none", "running", "gone"}
  /\ reader \in {"off", "reading", "audio", "too_long", "failed", "aborted"}
  /\ limit \in Nat
  /\ written \in Nat
  /\ pcm \in Nat

RecordingInit ==
  /\ owner = "none"
  /\ child = "none"
  /\ reader = "off"
  /\ limit = 0
  /\ written = 0
  /\ pcm = 0

Start(max) ==
  /\ owner = "none"
  /\ owner' = "recording"
  /\ child' = "running"
  /\ reader' = "reading"
  /\ limit' = max
  /\ UNCHANGED <<written, pcm>>
-----------------------------------------------------------------------------
(***************************************************************************)
(* pw-record and the reader                                                *)
(***************************************************************************)
ChildWrites ==
  /\ child = "running"
  /\ reader = "reading"
  /\ written - pcm < Pipe
  /\ written' = written + 1
  /\ UNCHANGED <<owner, child, reader, limit, pcm>>

\* The pipe has no reader any more: SIGPIPE, and what was written is lost.
ChildBreaks ==
  /\ child = "running"
  /\ reader # "reading"
  /\ written' = written + 1
  /\ child' = "gone"
  /\ UNCHANGED <<owner, reader, limit, pcm>>

\* It obeyed SIGINT or failed by itself.
ChildLeaves ==
  /\ child = "running"
  /\ child' = "gone"
  /\ UNCHANGED <<owner, reader, limit, written, pcm>>

\* Mutant of ReadEnd: an empty pipe is taken for the end of the audio.
ReadPause ==
  /\ reader = "reading"
  /\ written = pcm
  /\ reader' = "audio"
  /\ UNCHANGED <<owner, child, limit, written, pcm>>

\* End of file: nobody holds the other end of the pipe and it is empty.
ReadEnd ==
  /\ reader = "reading"
  /\ child = "gone"
  /\ written = pcm
  /\ reader' = "audio"
  /\ UNCHANGED <<owner, child, limit, written, pcm>>

\* The chunk that crosses the limit ends the task: all the audio is lost.
ReadChunk ==
  \E n \in 1..Chunk :
    /\ reader = "reading"
    /\ n <= written - pcm
    /\ IF pcm + n > limit
       THEN reader' = "too_long" /\ UNCHANGED pcm
       ELSE pcm' = pcm + n /\ UNCHANGED reader
    /\ UNCHANGED <<owner, child, limit, written>>

ReadFails ==
  /\ reader = "reading"
  /\ reader' = "failed"
  /\ UNCHANGED <<owner, child, limit, written, pcm>>
-----------------------------------------------------------------------------
(***************************************************************************)
(* finish and cancel                                                       *)
(***************************************************************************)
Finish ==
  /\ owner = "recording"
  /\ owner' = "stopping"
  /\ UNCHANGED <<child, reader, limit, written, pcm>>

\* pw-record has left, or two seconds have passed.
FinishWaited ==
  /\ owner = "stopping"
  /\ owner' = "draining"
  /\ UNCHANGED <<child, reader, limit, written, pcm>>

\* Dropping the Recording kills pw-record.
FinishDrained ==
  /\ owner = "draining"
  /\ reader \in {"audio", "too_long", "failed"}
  /\ owner' = IF reader = "audio" /\ pcm >= MinBytes THEN "audio" ELSE "error"
  /\ child' = "gone"
  /\ UNCHANGED <<reader, limit, written, pcm>>

\* Mutant of FinishTimesOut: pw-record is not killed on drop.
FinishForgets ==
  /\ owner = "draining"
  /\ reader = "reading"
  /\ owner' = "error"
  /\ UNCHANGED <<child, reader, limit, written, pcm>>

\* After two more seconds; the reader goes on without its handle.
FinishTimesOut ==
  /\ owner = "draining"
  /\ reader = "reading"
  /\ owner' = "error"
  /\ child' = "gone"
  /\ UNCHANGED <<reader, limit, written, pcm>>

Cancel ==
  /\ owner = "recording"
  /\ owner' = "cancelling"
  /\ UNCHANGED <<child, reader, limit, written, pcm>>

\* Mutant of CancelWaited: the owner trusts SIGINT to stop pw-record.
CancelTrusts ==
  /\ owner = "cancelling"
  /\ owner' = "cancelled"
  /\ reader' = IF reader = "reading" THEN "aborted" ELSE reader
  /\ UNCHANGED <<child, limit, written, pcm>>

\* pw-record has left, or one second has passed.
CancelWaited ==
  /\ owner = "cancelling"
  /\ owner' = "cancelled"
  /\ reader' = IF reader = "reading" THEN "aborted" ELSE reader
  /\ child' = "gone"
  /\ UNCHANGED <<limit, written, pcm>>

\* The daemon dies: nothing is dropped, pw-record is left with a broken pipe.
Abandon ==
  /\ owner' = "lost"
  /\ reader' = IF reader = "reading" THEN "aborted" ELSE reader
  /\ UNCHANGED <<child, limit, written, pcm>>

ChildStep == ChildWrites \/ ChildBreaks \/ ChildLeaves
ReaderStep == ReadChunk \/ ReadEnd \/ ReadFails
OwnerStep == FinishWaited \/ FinishDrained \/ FinishTimesOut \/ CancelWaited

-----------------------------------------------------------------------------
(***************************************************************************)
(* Audio that finish returns is all that pw-record wrote, within the       *)
(* bounds, however late pw-record stops and however the reads are cut      *)
(* (audio.rs:52-71, 82-93).                                                *)
(***************************************************************************)
WholeRecording ==
  owner = "audio" => pcm = written /\ pcm \in MinBytes..limit

(***************************************************************************)
(* When finish or cancel has returned the microphone is off, even if       *)
(* pw-record ignores SIGINT (audio.rs:44, 82-99).                          *)
(***************************************************************************)
MicrophoneOff == owner \in Returned => child = "gone"
=============================================================================
