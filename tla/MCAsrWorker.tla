----------------------------- MODULE MCAsrWorker -----------------------------
(***************************************************************************)
(* Small instances of AsrWorker for TLC: their sets of model values are in *)
(* Worker*.cfg.  No two sessions are interchangeable where one of them is  *)
(* Long, and the liveness runs could not use symmetry.                     *)
(***************************************************************************)
EXTENDS AsrWorker, TLC
=============================================================================
