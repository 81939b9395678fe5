------------------------- MODULE MCPhaseOneCorpus -------------------------
(* PhaseOneCorpus for TLC.  No symmetry: a liveness property is checked.   *)
EXTENDS PhaseOneCorpus
==============================================================================
