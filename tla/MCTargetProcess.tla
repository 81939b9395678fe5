-------------------------- MODULE MCTargetProcess --------------------------
(* TargetProcess for TLC.                                                  *)
EXTENDS TargetProcess

MCStreams == {"stdout", "stderr"}
==============================================================================
