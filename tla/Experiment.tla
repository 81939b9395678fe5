----------------------------- MODULE Experiment -----------------------------
(***************************************************************************)
(* tools/experiment-helpers/run.sh with tools/evaluation/build-target.sh   *)
(* and run-sanity-check.sh: containers that perform experiments on one     *)
(* volume (/root/experiments), which holds the builds, shared by every     *)
(* experiment that names them, the experiment directories, named after the *)
(* recipe and the date, and the packaged experiments.  Nothing is locked.  *)
(***************************************************************************)
EXTENDS Naturals, Sequences

CONSTANTS
  Containers, Recipes, Builds,
  Targets,          \* recipe -> BENCHMARK_TARGETS, a sequence of builds
  Previous, Current, Coverage,  \* recipe -> BENCHMARK_PREVIOUS, ...
  SanityRecipes,    \* the recipe of run-sanity-check.sh; {}: it is not used
  Prebuilt,         \* builds finished by earlier experiments
  MaxDays,          \* bound on the days that go by
  MaxStarts,        \* bound on the experiments started
  None

ASSUME RecipesAssumption ==
  /\ Recipes # {}
  /\ Targets \in [Recipes -> Seq(Builds)]
  /\ Previous \in [Recipes -> Builds]
  /\ Current \in [Recipes -> Builds]
  /\ Coverage \in [Recipes -> Builds]
  /\ SanityRecipes \subseteq Recipes
  /\ Prebuilt \subseteq Builds
ASSUME BoundsAssumption == MaxDays \in Nat \ {0} /\ MaxStarts \in Nat

VARIABLES
  day, starts,
  pc, recipe, sanity,  \* per container: where its script is, and which one
  name, sanity_name,   \* $experiment_dir of run.sh, of run-sanity-check.sh
  pos,                 \* position in BENCHMARK_TARGETS
  ran,                 \* what the benchmark left: "runs", "partial", "none"
  used,                \* the patch that the evaluation read
  refused,             \* containers whose last script stopped itself
  build,               \* "absent", "unfinished", "finished", "broken"
  hurt,                \* containers whose build another one has disturbed
  contended,           \* builds that experiments contended for (history)
  patch,               \* build -> content of its full-diff.patch
  dirs,                \* experiment directories that exist
  zips                 \* experiment name -> its packaged content

vars == <<day, starts, pc, recipe, sanity, name, sanity_name, pos, ran, used,
          refused, build, hurt, contended, patch, dirs, zips>>

Days  == 1 .. MaxDays
Names == Recipes \X Days

\* A patch between the finished sources of two builds, or (whole is FALSE)
\* one taken while a build was being made or after it had failed; cut short
\* when git diff failed.
Patch   == [previous : Builds, coverage : Builds, whole : BOOLEAN, cut : BOOLEAN]
Package == [ran : {"runs", "none"}, used : Patch \cup {None}]

ASSUME NoneAssumption == None \notin Names /\ None \notin Package /\ None \notin Patch

TypeOK ==
  /\ day \in Days /\ starts \in 0 .. MaxStarts
  /\ pc \in [Containers -> {"idle", "sanity", "start", "mkdir", "build", "clean", "copy",
                            "make", "benchmark", "evaluate", "package", "zip", "extract"}]
  /\ recipe \in [Containers -> Recipes]
  /\ sanity \in [Containers -> BOOLEAN]
  /\ name \in [Containers -> Names \cup {None}]
  /\ sanity_name \in [Containers -> Names \cup {None}]
  /\ pos \in [Containers -> Nat]
  /\ \A c \in Containers : pos[c] \in 1 .. Len(Targets[recipe[c]]) + 1
  /\ ran \in [Containers -> {"runs", "partial", "none"}]
  /\ used \in [Containers -> Patch \cup {None}]
  /\ refused \subseteq Containers
  /\ build \in [Builds -> {"absent", "unfinished", "finished", "broken"}]
  /\ hurt \subseteq Containers
  /\ contended \subseteq Builds
  /\ patch \in [Builds -> Patch \cup {None}]
  /\ dirs \subseteq Names
  /\ zips \in [Names -> Package \cup {None}]

Init ==
  /\ day = 1 /\ starts = 0
  /\ pc = [c \in Containers |-> "idle"]
  /\ recipe = [c \in Containers |-> CHOOSE r \in Recipes : TRUE]
  /\ sanity = [c \in Containers |-> FALSE]
  /\ name = [c \in Containers |-> None]
  /\ sanity_name = [c \in Containers |-> None]
  /\ pos = [c \in Containers |-> 1]
  /\ ran = [c \in Containers |-> "none"]
  /\ used = [c \in Containers |-> None]
  /\ refused = {}
  /\ build = [b \in Builds |-> IF b \in Prebuilt THEN "finished" ELSE "absent"]
  /\ hurt = {}
  /\ contended = {}
  /\ patch = [b \in Builds |-> None]
  /\ dirs = {}
  /\ zips = [n \in Names |-> None]

-----------------------------------------------------------------------------
Goto(c, from, to) == pc[c] = from /\ pc' = [pc EXCEPT ![c] = to]

\* The script ends, and with it its variables; $experiment_dir is in the
\* message of one that stops itself.
Exit(c, from) ==
  /\ Goto(c, from, "idle")
  /\ pos' = [pos EXCEPT ![c] = 1]
  /\ ran' = [ran EXCEPT ![c] = "none"]
  /\ used' = [used EXCEPT ![c] = None]

End(c, from) ==
  /\ Exit(c, from)
  /\ name' = [name EXCEPT ![c] = None]
  /\ sanity_name' = [sanity_name EXCEPT ![c] = None]
  /\ UNCHANGED refused

Refuse(c, from) ==
  /\ Exit(c, from)
  /\ refused' = refused \cup {c}
  /\ UNCHANGED sanity_name

Running == <<sanity_name, pos, ran, used, refused>>
Unbuilt == <<build, hurt, patch>>
Unset   == <<day, starts, recipe, sanity, contended>>

\* Midnight: $(date --iso-8601) is another one.
Midnight ==
  /\ day < MaxDays
  /\ day' = day + 1
  /\ UNCHANGED <<starts, pc, recipe, sanity, name, sanity_name, pos, ran, used, refused,
                 build, hurt, contended, patch, dirs, zips>>

\* The build directory that holds full-diff.patch.
PatchHome(r) == Coverage[r]

\* The builds that an experiment makes or works with.
Uses(r) == {Targets[r][i] : i \in 1 .. Len(Targets[r])} \cup {Previous[r], Current[r], Coverage[r]}

\* The builds that an experiment with recipe r, started by container c, has
\* in common with one at work: not finished yet, or both keep their patch
\* there.
Contend(c, r) ==
  {b \in Uses(r) : \E o \in Containers \ {c} :
     /\ pc[o] # "idle" /\ b \in Uses(recipe[o])
     /\ build[b] # "finished" \/ (PatchHome(r) = b /\ PatchHome(recipe[o]) = b)}

\* Somebody calls run.sh or run-sanity-check.sh.
Start(c) ==
  /\ starts < MaxStarts
  /\ starts' = starts + 1
  /\ \E r \in Recipes, s \in BOOLEAN :
       /\ s => r \in SanityRecipes
       /\ recipe' = [recipe EXCEPT ![c] = r]
       /\ sanity' = [sanity EXCEPT ![c] = s]
       /\ contended' = contended \cup Contend(c, r)
       /\ Goto(c, "idle", IF s THEN "sanity" ELSE "start")
  /\ refused' = refused \ {c}
  /\ name' = [name EXCEPT ![c] = None]
  /\ sanity_name' = [sanity_name EXCEPT ![c] = None]
  /\ UNCHANGED <<day, pos, ran, used, Unbuilt, dirs, zips>>

\* A command fails (set -e), the script or the container is killed, or
\* Ctrl-C, which run-benchmark.py alone takes for its own.
Abort(c) ==
  /\ pc[c] # "idle"
  /\ End(c, pc[c])
  /\ hurt' = hurt \ {c}
  /\ UNCHANGED <<Unset, build, patch, dirs, zips>>

\* mutant: without rm -rf
PrepareSanityCheckKeepsDir(c) ==
  /\ Goto(c, "sanity", "start")
  /\ sanity_name' = [sanity_name EXCEPT ![c] = <<recipe[c], day>>]
  /\ UNCHANGED <<Unset, name, pos, ran, used, refused, Unbuilt, dirs, zips>>

\* run-sanity-check.sh removes its output and the experiment directory.
PrepareSanityCheck(c) ==
  /\ Goto(c, "sanity", "start")
  /\ sanity_name' = [sanity_name EXCEPT ![c] = <<recipe[c], day>>]
  /\ dirs' = dirs \ {<<recipe[c], day>>}
  /\ UNCHANGED <<Unset, name, pos, ran, used, refused, Unbuilt, zips>>

\* The experiment directory is named; one that exists stops the script.
NameExperiment(c) ==
  /\ name' = [name EXCEPT ![c] = <<recipe[c], day>>]
  /\ \/ /\ <<recipe[c], day>> \notin dirs
        /\ Goto(c, "start", "mkdir")
        /\ UNCHANGED Running
     \/ /\ <<recipe[c], day>> \in dirs
        /\ Refuse(c, "start")
  /\ UNCHANGED <<Unset, Unbuilt, dirs, zips>>

\* mutant: mkdir -p
MakeExperimentDirAnyway(c) ==
  /\ Goto(c, "mkdir", "build")
  /\ dirs' = dirs \cup {name[c]}
  /\ UNCHANGED <<Unset, name, sanity_name, pos, ran, used, refused, Unbuilt, zips>>

\* mkdir, which fails when another container was faster.
MakeExperimentDir(c) ==
  /\ \/ /\ name[c] \notin dirs
        /\ Goto(c, "mkdir", "build")
        /\ dirs' = dirs \cup {name[c]}
        /\ UNCHANGED Running
     \/ /\ name[c] \in dirs
        /\ Refuse(c, "mkdir")
        /\ UNCHANGED dirs
  /\ UNCHANGED <<Unset, name, Unbuilt, zips>>

-----------------------------------------------------------------------------
(* build-target.sh, once per target *)

Target(c)  == Targets[recipe[c]][pos[c]]
ToBuild(c) == pos[c] <= Len(Targets[recipe[c]])

\* Has config.toml: the ROSA tools and the evaluation can work with it.
Usable(b) == build[b] \in {"finished", "broken"}

\* The other containers that are filling the same build directory.
Others(c) ==
  {o \in Containers \ {c} : pc[o] = "make" /\ Target(o) = Target(c)}

\* The build directory exists, finished or not: nothing is built.
SkipBuild(c) ==
  /\ pc[c] = "build" /\ ToBuild(c)
  /\ build[Target(c)] # "absent"
  /\ pos' = [pos EXCEPT ![c] = @ + 1]
  /\ UNCHANGED <<Unset, pc, name, sanity_name, ran, used, refused, Unbuilt, dirs, zips>>

FindNoBuild(c) ==
  /\ Goto(c, "build", "clean") /\ ToBuild(c)
  /\ build[Target(c)] = "absent"
  /\ UNCHANGED <<Unset, name, sanity_name, pos, ran, used, refused, Unbuilt, dirs, zips>>

\* rm -rf of the build directory, whatever has happened to it since.
CleanBuild(c) ==
  /\ Goto(c, "clean", "copy")
  /\ build' = [build EXCEPT ![Target(c)] = "absent"]
  /\ patch' = [patch EXCEPT ![Target(c)] = None]
  /\ hurt' = hurt \cup Others(c)
  /\ UNCHANGED <<Unset, name, sanity_name, pos, ran, used, refused, dirs, zips>>

\* The target is copied; with config.toml there already, over a usable build.
CopyTarget(c) ==
  /\ Goto(c, "copy", "make")
  /\ build' = [build EXCEPT ![Target(c)] = IF Usable(Target(c)) THEN "broken" ELSE "unfinished"]
  /\ hurt' = (hurt \ {c}) \cup Others(c)
  /\ UNCHANGED <<Unset, name, sanity_name, pos, ran, used, refused, patch, dirs, zips>>

\* build.sh succeeds and config.toml is written.
FinishBuild(c) ==
  /\ Goto(c, "make", "build")
  /\ build[Target(c)] # "absent"
  /\ build' = [build EXCEPT ![Target(c)] = IF c \in hurt THEN "broken" ELSE "finished"]
  /\ hurt' = hurt \ {c}
  /\ pos' = [pos EXCEPT ![c] = @ + 1]
  /\ UNCHANGED <<Unset, name, sanity_name, ran, used, refused, patch, dirs, zips>>

-----------------------------------------------------------------------------
(* The experiment *)

\* What git diff writes, to its end or not.
Diff(r, cut) ==
  [previous |-> Previous[r], coverage |-> Coverage[r],
   whole |-> build[Previous[r]] = "finished" /\ build[Coverage[r]] = "finished", cut |-> cut]

\* mutant: a patch that is there is kept
WriteDiffOnce(c) ==
  LET home == PatchHome(recipe[c]) IN
  /\ Goto(c, "build", "benchmark") /\ ~ToBuild(c)
  /\ \/ UNCHANGED patch
     \/ /\ build[home] # "absent" /\ patch[home] = None
        /\ \E cut \in BOOLEAN : patch' = [patch EXCEPT ![home] = Diff(recipe[c], cut)]
  /\ dirs' = dirs \cup {name[c]}
  /\ UNCHANGED <<Unset, name, sanity_name, pos, ran, used, refused, build, hurt, zips>>

\* git diff of the two versions; then mkdir -p.  The shell empties the patch
\* or, without a build directory or space for a new file, fails; git diff may
\* fail after a part of it; `|| true' hides both.
WriteDiff(c) ==
  LET home == PatchHome(recipe[c]) IN
  /\ Goto(c, "build", "benchmark") /\ ~ToBuild(c)
  /\ \/ /\ build[home] = "absent" \/ patch[home] = None
        /\ UNCHANGED patch
     \/ /\ build[home] # "absent"
        /\ \E cut \in BOOLEAN : patch' = [patch EXCEPT ![home] = Diff(recipe[c], cut)]
  /\ dirs' = dirs \cup {name[c]}
  /\ UNCHANGED <<Unset, name, sanity_name, pos, ran, used, refused, build, hurt, zips>>

\* run-benchmark.py (module Benchmark) ends with status 0: the runs are
\* complete, for which its tools need the three builds up to the end, or it
\* was interrupted, before the first run or with a run cut off.
RunBenchmark(c) ==
  LET needed == {Previous[recipe[c]], Current[recipe[c]], Coverage[recipe[c]]} IN
  /\ Goto(c, "benchmark", "evaluate")
  /\ \E left \in {"runs", "partial", "none"} :
       /\ left = "runs" => \A b \in needed : Usable(b)
       /\ ran' = [ran EXCEPT ![c] = left]
  /\ UNCHANGED <<Unset, name, sanity_name, pos, used, refused, Unbuilt, dirs, zips>>

\* evaluate-benchmark.py: the runs are judged with the help of the patch; no
\* run, no results; a run without all of its outputs makes it fail.
EvaluateBenchmark(c) ==
  LET home == PatchHome(recipe[c]) IN
  /\ Goto(c, "evaluate", "package")
  /\ name[c] \in dirs
  /\ \/ /\ ran[c] = "runs" /\ patch[home] # None
        /\ used' = [used EXCEPT ![c] = patch[home]]
     \/ /\ ran[c] = "none"
        /\ used' = [used EXCEPT ![c] = None]
  /\ UNCHANGED <<Unset, name, sanity_name, pos, ran, refused, Unbuilt, dirs, zips>>

\* A packaged experiment of that name stops the script.
CheckPackage(c) ==
  /\ \/ /\ Goto(c, "package", "zip")
        /\ zips[name[c]] = None
        /\ UNCHANGED Running
     \/ /\ Refuse(c, "package")
        /\ zips[name[c]] # None
  /\ UNCHANGED <<Unset, name, Unbuilt, dirs, zips>>

PackageExperiment(c) ==
  /\ \/ /\ sanity[c]
        /\ Goto(c, "zip", "extract")
        /\ UNCHANGED <<name, Running>>
     \/ /\ ~sanity[c]
        /\ End(c, "zip")
  /\ name[c] \in dirs
  /\ zips' = [zips EXCEPT ![name[c]] = [ran |-> ran[c], used |-> used[c]]]
  /\ UNCHANGED <<Unset, Unbuilt, dirs>>

\* extract-results.py on the package, under the name that the sanity check
\* has computed; it fails without results to extract.
ExtractResults(c) ==
  /\ LET zip == zips[sanity_name[c]] IN
       \/ /\ End(c, "extract")
          /\ zip # None /\ zip.ran = "runs"
       \/ /\ Refuse(c, "extract")
          /\ UNCHANGED name
          /\ zip # None => zip.ran # "runs"
  /\ UNCHANGED <<Unset, Unbuilt, dirs, zips>>

Build(c) == SkipBuild(c) \/ FindNoBuild(c) \/ CleanBuild(c) \/ CopyTarget(c) \/ FinishBuild(c)

Step(c) ==
  \/ Start(c) \/ Abort(c) \/ PrepareSanityCheck(c) \/ NameExperiment(c) \/ MakeExperimentDir(c)
  \/ Build(c) \/ WriteDiff(c) \/ RunBenchmark(c) \/ EvaluateBenchmark(c) \/ CheckPackage(c)
  \/ PackageExperiment(c) \/ ExtractResults(c)

Next == Midnight \/ \E c \in Containers : Step(c)

Spec == Init /\ [][Next]_vars

-----------------------------------------------------------------------------
(* Properties *)

Owns(c) == pc[c] \in {"build", "clean", "copy", "make", "benchmark", "evaluate", "package", "zip"}

\* No two containers work in one experiment directory, although both may
\* have found, before mkdir, that there was none; except in the one that
\* sanity checks remove, under whoever works there.
DirExclusive ==
  \A c, o \in Containers :
    c # o /\ Owns(c) /\ Owns(o) /\ recipe[c] \notin SanityRecipes => name[c] # name[o]

\* A package is not written twice: between the check for a package of that
\* name and zip nobody else writes one.  (The sanity check, which removes the
\* directory of its recipe under a container at work, does away with that.)
PackagesKept ==
  [][\A n \in Names : zips[n] # None /\ n[1] \notin SanityRecipes => zips'[n] = zips[n]]_vars

\* "Produce the full diff between the two commits" (run.sh): results that
\* are packaged were computed with the diff between the finished sources of
\* the two versions of their own experiment, whatever has been aborted, half
\* built, built by other experiments before or done by others meanwhile;
\* unless experiments have contended for one of the two builds.  The diff is
\* all there, unless git diff failed, which nobody notices.
PackagedOwnDiff ==
  \A n \in Names :
    zips[n] # None /\ zips[n].ran = "runs" =>
      \/ \E cut \in BOOLEAN :
           zips[n].used = [previous |-> Previous[n[1]], coverage |-> Coverage[n[1]],
                           whole |-> TRUE, cut |-> cut]
      \/ {Previous[n[1]], Coverage[n[1]]} \cap contended # {}

\* The sanity check is not blocked by experiments that were aborted, nor by
\* others at work: unless two experiments have kept their patch in one build
\* at a time, as two with the same recipe do, it gets as far as its date, or
\* a package of the same day, lets it.
SanityNotBlocked ==
  \A c \in Containers :
    sanity[c] /\ c \in refused =>
      zips[name[c]] # None \/ sanity_name[c] # name[c] \/ PatchHome(recipe[c]) \in contended
==============================================================================
