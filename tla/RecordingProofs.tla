--------------------------- MODULE RecordingProofs ---------------------------
(***************************************************************************)
(* A recording keeps its promises whatever its size, the cut of the reads  *)
(* and the moment of every signal and timeout.                             *)
(***************************************************************************)
EXTENDS Recording, TLAPS

(***************************************************************************)
(* What the three actors know of one another.  End of file was seen when   *)
(* pw-record had left and the pipe was empty, and nothing is written after *)
(* that; the owner returns with pw-record dropped, and with audio only if  *)
(* the reader had reached the end.                                         *)
(***************************************************************************)
ReaderKnows ==
  /\ pcm <= written
  /\ pcm <= limit
  /\ reader = "audio" => child = "gone" /\ pcm = written
OwnerKnows ==
  /\ owner = "none" => child = "none" /\ written = 0 /\ pcm = 0
  /\ owner \in Returned => child = "gone"
  /\ owner = "audio" => reader = "audio" /\ pcm >= MinBytes

RecordingInv == RecordingTypeOK /\ ReaderKnows /\ OwnerKnows

RecordingStep ==
  \/ \E max \in Limits : Start(max)
  \/ ChildStep \/ ReaderStep \/ OwnerStep
  \/ Finish \/ Cancel
  \/ Abandon

\* Nothing is recorded before start (audio.rs:25).
LEMMA RecordingInitInv == RecordingInit => RecordingInv
BY RecordingAssumption
   DEF RecordingInit, RecordingInv, RecordingTypeOK, ReaderKnows, OwnerKnows,
       Owners, Returned

\* No step of pw-record, of the reader or of the owner breaks what they know
\* of one another (audio.rs:25-108).
LEMMA RecordingStepInv ==
  RecordingInv /\ [RecordingStep]_recordingVars => RecordingInv'
<1> SUFFICES ASSUME RecordingInv, [RecordingStep]_recordingVars
             PROVE  RecordingInv'
    OBVIOUS
<1> USE RecordingAssumption
    DEF RecordingInv, RecordingTypeOK, ReaderKnows, OwnerKnows, Owners, Returned
<1>1. ASSUME NEW max \in Limits, Start(max) PROVE RecordingInv'
  BY <1>1 DEF Start
<1>2. CASE ChildStep
  BY <1>2 DEF ChildStep, ChildWrites, ChildBreaks, ChildLeaves
<1>3. CASE ReaderStep
  <2>1. CASE ReadChunk
    <3>1. PICK n \in 1..Chunk :
            /\ reader = "reading"
            /\ n <= written - pcm
            /\ IF pcm + n > limit
               THEN reader' = "too_long" /\ UNCHANGED pcm
               ELSE pcm' = pcm + n /\ UNCHANGED reader
            /\ UNCHANGED <<owner, child, limit, written>>
      BY <2>1 DEF ReadChunk
    <3> QED BY <3>1
  <2>2. CASE ReadEnd BY <2>2 DEF ReadEnd
  <2>3. CASE ReadFails BY <2>3 DEF ReadFails
  <2> QED BY <1>3, <2>1, <2>2, <2>3 DEF ReaderStep
<1>4. CASE OwnerStep
  <2>1. CASE FinishWaited BY <2>1 DEF FinishWaited
  <2>2. CASE FinishDrained BY <2>2 DEF FinishDrained
  <2>3. CASE FinishTimesOut BY <2>3 DEF FinishTimesOut
  <2>4. CASE CancelWaited BY <2>4 DEF CancelWaited
  <2> QED BY <1>4, <2>1, <2>2, <2>3, <2>4 DEF OwnerStep
<1>5. CASE Finish BY <1>5 DEF Finish
<1>6. CASE Cancel BY <1>6 DEF Cancel
<1>7. CASE Abandon BY <1>7 DEF Abandon
<1>8. CASE UNCHANGED recordingVars BY <1>8 DEF recordingVars
<1> QED BY <1>1, <1>2, <1>3, <1>4, <1>5, <1>6, <1>7, <1>8 DEF RecordingStep

\* What finish returns is whole, and the microphone is off when finish or
\* cancel has returned (audio.rs:82-99).
LEMMA RecordingPromises == RecordingInv => WholeRecording /\ MicrophoneOff
BY RecordingAssumption
   DEF RecordingInv, RecordingTypeOK, ReaderKnows, OwnerKnows, Returned,
       WholeRecording, MicrophoneOff
=============================================================================
