---------------------------- MODULE MCNaiveDiff ----------------------------
(* NaiveDiff for TLC.                                                      *)
EXTENDS NaiveDiff, TLC

CONSTANTS i1, i2, i3

MCBehaviours == {{"read"}, {"read", "write"}}
Symmetry == Permutations({i1, i2, i3})
==============================================================================
