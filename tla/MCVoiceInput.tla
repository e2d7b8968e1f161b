---------------------------- MODULE MCVoiceInput -----------------------------
(***************************************************************************)
(* Small instances of VoiceInput for TLC: their sets of model values are in*)
(* Voice*.cfg.  Closing, Slow and Overtime name the fields and the sessions*)
(* a run is about, so that no two of them are interchangeable.             *)
(***************************************************************************)
EXTENDS VoiceInput, TLC
=============================================================================
