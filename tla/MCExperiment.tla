---------------------------- MODULE MCExperiment ----------------------------
(* Experiment for TLC, on recipes shaped like the ones of libsndfile under *)
(* experiment-helpers/simple-releases: "a" and "b" share the current       *)
(* version and its builds, "c", which the sanity check uses, shares only   *)
(* the previous version with "a" and nothing with "b".  The ground-truth   *)
(* builds do not take part in what is checked, and are left out of the     *)
(* lists of targets, as are the targets that Prebuilt would have run.sh    *)
(* skip.                                                                   *)
EXTENDS Experiment, TLC

CONSTANTS c1, c2

MCBuilds   == {"v1", "v2", "v3", "v3-coverage", "v4", "v4-coverage"}
MCPrevious == [r \in Recipes |-> IF r = "b" THEN "v2" ELSE "v1"]
MCCurrent  == [r \in Recipes |-> IF r = "c" THEN "v4" ELSE "v3"]
MCCoverage == [r \in Recipes |-> IF r = "c" THEN "v4-coverage" ELSE "v3-coverage"]
MCTargets  == [r \in Recipes |-> IF r = "b" THEN <<"v2", "v3-coverage">> ELSE <<MCCoverage[r]>>]
Symmetry   == Permutations({c1, c2})
==============================================================================
