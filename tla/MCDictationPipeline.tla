------------------------- MODULE MCDictationPipeline -------------------------
(***************************************************************************)
(* The small instance of DictationPipeline for TLC: sessions and callers are*)
(* the model values of PipelineService.cfg, without symmetry, for the run  *)
(* checks liveness too.                                                    *)
(***************************************************************************)
EXTENDS DictationPipeline, TLC
=============================================================================
