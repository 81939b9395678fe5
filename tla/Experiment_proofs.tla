-------------------------- MODULE Experiment_proofs --------------------------
(***************************************************************************)
(* Proofs about Experiment, for any number of containers, recipes, builds  *)
(* and days: no two containers work in one experiment directory, unless it *)
(* is the one of the sanity check, and no package is written twice; and,   *)
(* as far as experiments do not contend for a build, what is packaged was  *)
(* computed with the diff of its own experiment, and the sanity check is   *)
(* not blocked.                                                            *)
(***************************************************************************)
EXTENDS Experiment, TLAPS

\* The diffs that the results of recipe r may be computed with.
OwnDiff(r) ==
  {[previous |-> Previous[r], coverage |-> Coverage[r], whole |-> TRUE, cut |-> cut] :
     cut \in BOOLEAN}

\* Experiments have contended for a build that the diff is taken from.
Spoilt(r) == {Previous[r], Coverage[r]} \cap contended # {}

-----------------------------------------------------------------------------
(***************************************************************************)
(* What holds however many containers there are.                           *)
(***************************************************************************)

\* From the moment it is set to the end of the script, $experiment_dir is
\* named after the recipe.
Named ==
  \A c \in Containers : Owns(c) \/ pc[c] \in {"mkdir", "extract"} =>
    name[c] \in Names /\ name[c][1] = recipe[c]

\* A build is made only for a target of the recipe.
Building ==
  \A c \in Containers : pc[c] \in {"clean", "copy", "make"} => ToBuild(c)

\* Only the recipe of the sanity check is started by it.
OfSanity ==
  \A c \in Containers : sanity[c] \/ pc[c] = "sanity" => recipe[c] \in SanityRecipes

\* Nobody else removes an experiment directory, and mkdir makes it once.
DirKept ==
  \A c \in Containers : Owns(c) /\ recipe[c] \notin SanityRecipes => name[c] \in dirs

\* An experiment that was cut off inside a run does not get to be packaged;
\* sanity checks extract from a package that is there.
Judged ==
  /\ \A c \in Containers : pc[c] \in {"package", "zip"} => ran[c] \in {"runs", "none"}
  /\ \A c \in Containers : pc[c] = "extract" => zips[name[c]] # None

\* No script: its position in the list of targets is the first one.
Fresh == \A c \in Containers : pc[c] = "idle" => pos[c] = 1

IInv ==
  /\ TypeOK
  /\ Fresh
  /\ Named
  /\ Building
  /\ OfSanity
  /\ DirKept
  /\ DirExclusive
  /\ Judged

\* From the check on, until it is written, there is no package of that name.
NoPackageYet ==
  \A c \in Containers :
    pc[c] = "zip" /\ recipe[c] \notin SanityRecipes => zips[name[c]] = None

-----------------------------------------------------------------------------
(***************************************************************************)
(* What it takes for the right diff.                                       *)
(***************************************************************************)

\* Container c is at work, and its experiment works with build b.
At(c, b) == pc[c] # "idle" /\ b \in Uses(recipe[c])

\* Two experiments at work share only builds that are finished, and do not
\* both keep their patch there, or have contended for the build.
Apart ==
  \A b \in Builds \ contended, c, o \in Containers :
    c # o /\ At(c, b) /\ At(o, b) =>
      build[b] = "finished" /\ ~(PatchHome(recipe[c]) = b /\ PatchHome(recipe[o]) = b)

\* A build that nobody has contended for is as its one builder left it.
Undisturbed ==
  /\ \A b \in Builds \ contended : build[b] # "broken"
  /\ \A c \in Containers : Target(c) \notin contended =>
       /\ pc[c] \in {"clean", "copy"} => build[Target(c)] = "absent"
       /\ pc[c] = "make" => build[Target(c)] = "unfinished" /\ c \notin hurt

\* Without the build directory there is no patch in it.
NoHome == \A b \in Builds : build[b] = "absent" => patch[b] = None

SharedInv == IInv /\ Apart /\ Undisturbed /\ NoHome

\* The diff is the one of the builds as they are, until the runs end.
DiffTaken ==
  \A c \in Containers :
    LET home == PatchHome(recipe[c]) IN
    pc[c] = "benchmark" =>
      \/ Spoilt(recipe[c])
      \/ patch[home] = None
      \/ \E cut \in BOOLEAN : patch[home] = Diff(recipe[c], cut)

\* The evaluation of complete runs finds no other diff than its own.
DiffReady ==
  \A c \in Containers :
    LET home == PatchHome(recipe[c]) IN
    pc[c] = "evaluate" /\ ran[c] = "runs" /\ patch[home] # None =>
      patch[home] \in OwnDiff(recipe[c]) \/ Spoilt(recipe[c])

\* The results on their way into a package were computed with it.
UsedOwnDiff ==
  \A c \in Containers :
    pc[c] \in {"package", "zip"} /\ ran[c] = "runs" =>
      used[c] \in OwnDiff(recipe[c]) \/ Spoilt(recipe[c])

DiffInv == SharedInv /\ DiffTaken /\ DiffReady /\ UsedOwnDiff /\ PackagedOwnDiff

\* The directory that the sanity check has removed is still gone when it is
\* made again, unless the day has changed in between or another experiment
\* with the same recipe is at work.
Unblocked ==
  \A c \in Containers :
    /\ c \in refused => pc[c] = "idle"
    /\ sanity[c] /\ pc[c] = "start" =>
         /\ sanity_name[c] \in Names /\ sanity_name[c][1] = recipe[c]
         /\ sanity_name[c] \in dirs => PatchHome(recipe[c]) \in contended
    /\ pc[c] = "mkdir" /\ name[c] \in dirs => PatchHome(recipe[c]) \in contended

\* Who was refused had named the experiment.
RefusedNamed == \A c \in refused : name[c] \in Names

SanityInv == SharedInv /\ RefusedNamed /\ Unblocked /\ SanityNotBlocked

-----------------------------------------------------------------------------
(***************************************************************************)
(* Lemmas about the steps of one container.                                *)
(***************************************************************************)

\* The script of container o does nothing.
Rests(o) ==
  /\ pc'[o] = pc[o] /\ recipe'[o] = recipe[o] /\ sanity'[o] = sanity[o]
  /\ name'[o] = name[o] /\ sanity_name'[o] = sanity_name[o] /\ pos'[o] = pos[o]
  /\ ran'[o] = ran[o] /\ used'[o] = used[o] /\ (o \in refused' <=> o \in refused)

\* While one container makes a step, the scripts of the others rest.
LEMMA OthersRest ==
  ASSUME TypeOK, NEW c \in Containers, Step(c), NEW o \in Containers, o # c
  PROVE  Rests(o)
<1> USE DEF TypeOK, Rests, Goto, End, Refuse, Exit, Running, Unbuilt, Unset
<1>1. CASE Start(c)
  BY <1>1 DEF Start
<1>2. CASE Abort(c)
  BY <1>2 DEF Abort
<1>3. CASE PrepareSanityCheck(c)
  BY <1>3 DEF PrepareSanityCheck
<1>4. CASE NameExperiment(c)
  BY <1>4 DEF NameExperiment
<1>5. CASE MakeExperimentDir(c)
  BY <1>5 DEF MakeExperimentDir
<1>6. CASE SkipBuild(c)
  BY <1>6 DEF SkipBuild
<1>7. CASE FindNoBuild(c)
  BY <1>7 DEF FindNoBuild
<1>8. CASE CleanBuild(c)
  BY <1>8 DEF CleanBuild
<1>9. CASE CopyTarget(c)
  BY <1>9 DEF CopyTarget
<1>10. CASE FinishBuild(c)
  BY <1>10 DEF FinishBuild
<1>11. CASE WriteDiff(c)
  BY <1>11 DEF WriteDiff
<1>12. CASE RunBenchmark(c)
  BY <1>12 DEF RunBenchmark
<1>13. CASE EvaluateBenchmark(c)
  BY <1>13 DEF EvaluateBenchmark
<1>14. CASE CheckPackage(c)
  BY <1>14 DEF CheckPackage
<1>15. CASE PackageExperiment(c)
  BY <1>15 DEF PackageExperiment
<1>16. CASE ExtractResults(c)
  BY <1>16 DEF ExtractResults
<1> QED
  BY <1>1, <1>2, <1>3, <1>4, <1>5, <1>6, <1>7, <1>8, <1>9, <1>10, <1>11, <1>12, <1>13, <1>14,
      <1>15, <1>16 DEF Step, Build

\* A target that is still to be built is a build.
LEMMA TargetType ==
  ASSUME TypeOK, NEW c \in Containers, ToBuild(c)
  PROVE  Target(c) \in Builds
<1>1. Targets[recipe[c]] \in Seq(Builds) /\ pos[c] \in 1 .. Len(Targets[recipe[c]])
  BY RecipesAssumption DEF TypeOK, ToBuild
<1> QED
  BY <1>1 DEF Target

\* A diff is a patch.
LEMMA DiffType == \A r \in Recipes, cut \in BOOLEAN : Diff(r, cut) \in Patch /\ PatchHome(r) \in Builds
<1> SUFFICES ASSUME NEW r \in Recipes, NEW cut \in BOOLEAN
             PROVE  Diff(r, cut) \in Patch /\ PatchHome(r) \in Builds
  OBVIOUS
<1>1. Previous[r] \in Builds /\ Coverage[r] \in Builds
  BY RecipesAssumption
<1>2. (build[Previous[r]] = "finished" /\ build[Coverage[r]] = "finished") \in BOOLEAN
  OBVIOUS
<1> QED
  BY <1>1, <1>2 DEF Diff, Patch, PatchHome

\* The builds of an experiment are builds; targets and the build that keeps
\* the patch are among them.
LEMMA UsesType ==
  /\ \A r \in Recipes : Uses(r) \subseteq Builds /\ PatchHome(r) \in Uses(r) /\ Previous[r] \in Uses(r)
  /\ \A r \in Recipes : \A i \in 1 .. Len(Targets[r]) : Targets[r][i] \in Uses(r)
<1> SUFFICES ASSUME NEW r \in Recipes
             PROVE  /\ Uses(r) \subseteq Builds /\ PatchHome(r) \in Uses(r) /\ Previous[r] \in Uses(r)
                    /\ \A i \in 1 .. Len(Targets[r]) : Targets[r][i] \in Uses(r)
  OBVIOUS
<1>1. /\ Targets[r] \in Seq(Builds) /\ Previous[r] \in Builds
      /\ Current[r] \in Builds /\ Coverage[r] \in Builds
  BY RecipesAssumption
<1>2. \A i \in 1 .. Len(Targets[r]) : Targets[r][i] \in Builds
  BY <1>1
<1> QED
  BY <1>1, <1>2 DEF Uses, PatchHome

\* The variables of a script that ends are well formed.
LEMMA ExitType ==
  ASSUME TypeOK, NEW c \in Containers, NEW from, Exit(c, from), UNCHANGED recipe
  PROVE  /\ pc' \in [Containers -> {"idle", "sanity", "start", "mkdir", "build", "clean", "copy",
                            "make", "benchmark", "evaluate", "package", "zip", "extract"}]
         /\ pos' \in [Containers -> Nat]
         /\ \A o \in Containers : pos'[o] \in 1 .. Len(Targets[recipe'[o]]) + 1
         /\ ran' \in [Containers -> {"runs", "partial", "none"}]
         /\ used' \in [Containers -> Patch \cup {None}]
         /\ pc[c] = from /\ pc'[c] = "idle"
<1>1. \A o \in Containers : Len(Targets[recipe[o]]) \in Nat
  BY RecipesAssumption DEF TypeOK
<1> QED
  BY <1>1 DEF Exit, Goto, TypeOK

\* The name of an experiment directory is one of the names.
LEMMA NameType ==
  ASSUME TypeOK, NEW c \in Containers
  PROVE  <<recipe[c], day>> \in Names
BY DEF TypeOK, Names

\* The state stays well formed.
LEMMA TypeKept ==
  ASSUME IInv, NEW c \in Containers, Step(c)
  PROVE  TypeOK'
<1> USE DEF IInv, Unbuilt, Unset
<1>1. CASE Start(c)
  <2>1. PICK r \in Recipes, s \in BOOLEAN :
          /\ recipe' = [recipe EXCEPT ![c] = r]
          /\ sanity' = [sanity EXCEPT ![c] = s]
          /\ contended' = contended \cup Contend(c, r)
          /\ Goto(c, "idle", IF s THEN "sanity" ELSE "start")
    BY <1>1 DEF Start
  <2>2. contended' \subseteq Builds
    BY <2>1, UsesType DEF Contend, TypeOK
  <2>3. \A o \in Containers : pos'[o] \in 1 .. Len(Targets[recipe'[o]]) + 1
    <3>1. pos[c] = 1
      BY <2>1 DEF Goto, Fresh
    <3>2. Len(Targets[r]) \in Nat
      BY RecipesAssumption
    <3> QED
      BY <1>1, <2>1, <3>1, <3>2 DEF Start, TypeOK
  <2>4. /\ pc' \in [Containers -> {"idle", "sanity", "start", "mkdir", "build", "clean", "copy",
                            "make", "benchmark", "evaluate", "package", "zip", "extract"}]
        /\ recipe' \in [Containers -> Recipes] /\ sanity' \in [Containers -> BOOLEAN]
    BY <2>1 DEF Goto, TypeOK
  <2> QED
    BY <1>1, <2>2, <2>3, <2>4, BoundsAssumption DEF Start, TypeOK
<1>2. CASE Abort(c)
  <2>1. Exit(c, pc[c]) /\ UNCHANGED recipe
    BY <1>2 DEF Abort, End
  <2> QED
    BY <1>2, <2>1, ExitType DEF Abort, End, TypeOK
<1>3. CASE PrepareSanityCheck(c)
  <2>1. <<recipe[c], day>> \in Names
    BY NameType
  <2> QED
    BY <1>3, <2>1 DEF PrepareSanityCheck, Goto, TypeOK
<1>4. CASE NameExperiment(c)
  <2>1. name' \in [Containers -> Names \cup {None}]
    BY <1>4, NameType DEF NameExperiment, TypeOK
  <2>2. CASE Goto(c, "start", "mkdir") /\ UNCHANGED Running
    BY <1>4, <2>1, <2>2 DEF NameExperiment, Goto, Running, TypeOK
  <2>3. CASE Refuse(c, "start")
    <3>1. Exit(c, "start") /\ UNCHANGED recipe
      BY <1>4, <2>3 DEF NameExperiment, Refuse
    <3> QED
      BY <1>4, <2>1, <2>3, <3>1, ExitType DEF NameExperiment, Refuse, TypeOK
  <2> QED
    BY <1>4, <2>2, <2>3 DEF NameExperiment
<1>5. CASE MakeExperimentDir(c)
  <2>1. CASE Goto(c, "mkdir", "build") /\ dirs' = dirs \cup {name[c]} /\ UNCHANGED Running
    <3>1. name[c] \in Names
      BY <2>1 DEF Goto, Named
    <3> QED
      BY <1>5, <2>1, <3>1 DEF MakeExperimentDir, Goto, Running, TypeOK
  <2>2. CASE Refuse(c, "mkdir") /\ UNCHANGED dirs
    <3>1. Exit(c, "mkdir") /\ UNCHANGED recipe
      BY <1>5, <2>2 DEF MakeExperimentDir, Refuse
    <3> QED
      BY <1>5, <2>2, <3>1, ExitType DEF MakeExperimentDir, Refuse, TypeOK
  <2> QED
    BY <1>5, <2>1, <2>2 DEF MakeExperimentDir
<1>6. CASE SkipBuild(c)
  <2>1. pos[c] + 1 \in 1 .. Len(Targets[recipe[c]]) + 1
    BY <1>6, RecipesAssumption DEF SkipBuild, ToBuild, TypeOK
  <2>2. \A o \in Containers : pos'[o] \in 1 .. Len(Targets[recipe'[o]]) + 1
    BY <1>6, <2>1 DEF SkipBuild, TypeOK
  <2> QED
    BY <1>6, <2>2 DEF SkipBuild, TypeOK
<1>7. CASE FindNoBuild(c)
  BY <1>7 DEF FindNoBuild, Goto, TypeOK
<1>8. CASE CleanBuild(c)
  <2>1. Target(c) \in Builds
    BY <1>8, TargetType DEF CleanBuild, Goto, Building
  <2>2. hurt' \subseteq Containers
    BY <1>8 DEF CleanBuild, Others, TypeOK
  <2> QED
    BY <1>8, <2>1, <2>2 DEF CleanBuild, Goto, TypeOK
<1>9. CASE CopyTarget(c)
  <2>1. Target(c) \in Builds
    BY <1>9, TargetType DEF CopyTarget, Goto, Building
  <2>2. hurt' \subseteq Containers
    BY <1>9 DEF CopyTarget, Others, TypeOK
  <2> QED
    BY <1>9, <2>1, <2>2 DEF CopyTarget, Goto, TypeOK
<1>10. CASE FinishBuild(c)
  <2>1. ToBuild(c) /\ Target(c) \in Builds
    BY <1>10, TargetType DEF FinishBuild, Goto, Building
  <2>2. pos[c] + 1 \in 1 .. Len(Targets[recipe[c]]) + 1
    BY <2>1, RecipesAssumption DEF ToBuild, TypeOK
  <2>3. \A o \in Containers : pos'[o] \in 1 .. Len(Targets[recipe'[o]]) + 1
    BY <1>10, <2>2 DEF FinishBuild, TypeOK
  <2> QED
    BY <1>10, <2>1, <2>3 DEF FinishBuild, Goto, TypeOK
<1>11. CASE WriteDiff(c)
  <2>1. name[c] \in Names
    BY <1>11 DEF WriteDiff, Goto, Named, Owns
  <2>2. patch' \in [Builds -> Patch \cup {None}]
    <3>1. \/ UNCHANGED patch
          \/ \E cut \in BOOLEAN : patch' = [patch EXCEPT ![PatchHome(recipe[c])] = Diff(recipe[c], cut)]
      BY <1>11 DEF WriteDiff
    <3>2. \A cut \in BOOLEAN : Diff(recipe[c], cut) \in Patch
      BY DiffType DEF TypeOK
    <3> HIDE DEF Unbuilt
    <3> QED
      BY <3>1, <3>2 DEF TypeOK
  <2> QED
    BY <1>11, <2>1, <2>2 DEF WriteDiff, Goto, TypeOK
<1>12. CASE RunBenchmark(c)
  BY <1>12 DEF RunBenchmark, Goto, TypeOK
<1>13. CASE EvaluateBenchmark(c)
  <2>1. patch[PatchHome(recipe[c])] \in Patch \cup {None}
    BY DiffType DEF TypeOK
  <2> QED
    BY <1>13, <2>1 DEF EvaluateBenchmark, Goto, TypeOK
<1>14. CASE CheckPackage(c)
  <2>1. CASE Goto(c, "package", "zip") /\ UNCHANGED Running
    BY <1>14, <2>1 DEF CheckPackage, Goto, Running, TypeOK
  <2>2. CASE Refuse(c, "package")
    <3>1. Exit(c, "package") /\ UNCHANGED recipe
      BY <1>14, <2>2 DEF CheckPackage, Refuse
    <3> QED
      BY <1>14, <2>2, <3>1, ExitType DEF CheckPackage, Refuse, TypeOK
  <2> QED
    BY <1>14, <2>1, <2>2 DEF CheckPackage
<1>15. CASE PackageExperiment(c)
  <2>1. name[c] \in Names /\ ran[c] \in {"runs", "none"}
    BY <1>15 DEF PackageExperiment, Goto, End, Exit, Named, Judged, Owns
  <2>2. [ran |-> ran[c], used |-> used[c]] \in Package
    BY <2>1 DEF Package, TypeOK
  <2>3. zips' \in [Names -> Package \cup {None}]
    BY <1>15, <2>2 DEF PackageExperiment, TypeOK
  <2>4. CASE Goto(c, "zip", "extract") /\ UNCHANGED <<name, Running>>
    BY <1>15, <2>3, <2>4 DEF PackageExperiment, Goto, Running, TypeOK
  <2>5. CASE End(c, "zip")
    <3>1. Exit(c, "zip") /\ UNCHANGED recipe
      BY <1>15, <2>5 DEF PackageExperiment, End
    <3> QED
      BY <1>15, <2>3, <2>5, <3>1, ExitType DEF PackageExperiment, End, TypeOK
  <2> QED
    BY <1>15, <2>4, <2>5 DEF PackageExperiment
<1>16. CASE ExtractResults(c)
  <2>1. End(c, "extract") \/ (Refuse(c, "extract") /\ UNCHANGED name)
    BY <1>16 DEF ExtractResults
  <2>2. Exit(c, "extract") /\ UNCHANGED recipe
    BY <1>16, <2>1 DEF ExtractResults, End, Refuse
  <2>3. /\ name' \in [Containers -> Names \cup {None}]
        /\ sanity_name' \in [Containers -> Names \cup {None}] /\ refused' \subseteq Containers
    BY <2>1 DEF End, Refuse, TypeOK
  <2> QED
    BY <1>16, <2>2, <2>3, ExitType DEF ExtractResults, TypeOK
<1> QED
  BY <1>1, <1>2, <1>3, <1>4, <1>5, <1>6, <1>7, <1>8, <1>9, <1>10, <1>11, <1>12, <1>13, <1>14,
      <1>15, <1>16 DEF Step, Build

\* The variables of a script are as they were at its start before that.
LEMMA FreshKept ==
  ASSUME IInv, NEW c \in Containers, Step(c)
  PROVE  Fresh'
<1>1. ASSUME pc'[c] = "idle"
      PROVE  pos'[c] = 1
  BY <1>1 DEF Step, Build, Start, Abort, PrepareSanityCheck, NameExperiment, MakeExperimentDir,
    SkipBuild, FindNoBuild, CleanBuild, CopyTarget, FinishBuild, WriteDiff, RunBenchmark,
    EvaluateBenchmark, CheckPackage, PackageExperiment, ExtractResults, Goto, End, Refuse, Exit,
    IInv, TypeOK
<1>2. ASSUME NEW o \in Containers, o # c, pc'[o] = "idle"
      PROVE  pos'[o] = 1
  <2>1. Rests(o)
    BY <1>2, OthersRest DEF IInv
  <2> QED
    BY <1>2, <2>1 DEF Rests, IInv, Fresh
<1> QED
  BY <1>1, <1>2 DEF Fresh

\* Only the sanity check removes an experiment directory, and it removes one
\* of its own recipe.
LEMMA DirsStay ==
  ASSUME IInv, NEW c \in Containers, Step(c), NEW n \in dirs, n[1] \notin SanityRecipes
  PROVE  n \in dirs'
<1>1. CASE PrepareSanityCheck(c)
  <2>1. recipe[c] \in SanityRecipes
    BY <1>1 DEF PrepareSanityCheck, Goto, IInv, OfSanity
  <2>2. n # <<recipe[c], day>>
    BY <2>1
  <2> QED
    BY <1>1, <2>2 DEF PrepareSanityCheck
<1>2. CASE ~PrepareSanityCheck(c)
  BY <1>2 DEF Step, Build, Start, Abort, NameExperiment, MakeExperimentDir, SkipBuild, FindNoBuild,
    CleanBuild, CopyTarget, FinishBuild, WriteDiff, RunBenchmark, EvaluateBenchmark, CheckPackage,
    PackageExperiment, ExtractResults
<1> QED
  BY <1>1, <1>2

\* A package is never removed.
LEMMA ZipsStay ==
  ASSUME IInv, NEW c \in Containers, Step(c), NEW n \in Names, zips[n] # None
  PROVE  zips'[n] # None
<1>1. CASE PackageExperiment(c)
  <2>1. name[c] \in Names /\ ran[c] \in {"runs", "none"}
    BY <1>1 DEF PackageExperiment, Goto, End, Refuse, Exit, Running, IInv, Named, Judged, Owns
  <2>2. [ran |-> ran[c], used |-> used[c]] \in Package
    BY <2>1 DEF Package, IInv, TypeOK
  <2>3. [ran |-> ran[c], used |-> used[c]] # None
    BY <2>2, NoneAssumption
  <2>4. zips' = [zips EXCEPT ![name[c]] = [ran |-> ran[c], used |-> used[c]]]
    BY <1>1 DEF PackageExperiment
  <2> QED
    BY <2>1, <2>3, <2>4 DEF IInv, TypeOK
<1>2. CASE ~PackageExperiment(c)
  BY <1>2 DEF Step, Build, Start, Abort, PrepareSanityCheck, NameExperiment, MakeExperimentDir,
    SkipBuild, FindNoBuild, CleanBuild, CopyTarget, FinishBuild, WriteDiff, RunBenchmark,
    EvaluateBenchmark, CheckPackage, ExtractResults
<1> QED
  BY <1>1, <1>2

\* The container that makes the step: its own part of the invariant.
LEMMA NamedKept ==
  ASSUME IInv, NEW c \in Containers, Step(c)
  PROVE  Named'
<1>1. Owns(c)' \/ pc'[c] \in {"mkdir", "extract"} => name'[c] \in Names /\ name'[c][1] = recipe'[c]
  <2>1. <<recipe[c], day>> \in Names /\ <<recipe[c], day>>[1] = recipe[c]
    BY NameType DEF IInv
  <2>2. CASE NameExperiment(c)
    BY <2>1, <2>2 DEF NameExperiment, Unset, IInv, TypeOK
  <2>3. CASE Start(c)
    BY <2>3 DEF Start, Goto, IInv, TypeOK, Owns
  <2>4. CASE Abort(c)
    BY <2>4 DEF Abort, Goto, End, Refuse, Exit, Running, IInv, TypeOK, Owns
  <2>5. CASE PrepareSanityCheck(c)
    BY <2>5 DEF PrepareSanityCheck, Goto, IInv, TypeOK, Owns
  <2>6. CASE ExtractResults(c)
    BY <2>6 DEF ExtractResults, Goto, End, Refuse, Exit, IInv, TypeOK, Owns
  <2>7. CASE PackageExperiment(c)
    <3>1. pc[c] = "zip" /\ (pc'[c] = "idle" \/ name' = name) /\ recipe' = recipe
      BY <2>7 DEF PackageExperiment, Goto, End, Exit, Unset, IInv, TypeOK
    <3> QED
      BY <3>1 DEF IInv, Named, Owns
  <2>8. CASE MakeExperimentDir(c) \/ Build(c) \/ WriteDiff(c) \/ RunBenchmark(c)
             \/ EvaluateBenchmark(c) \/ CheckPackage(c)
    <3>1. name'[c] = name[c] /\ recipe'[c] = recipe[c]
      BY <2>8 DEF Build, MakeExperimentDir, SkipBuild, FindNoBuild, CleanBuild, CopyTarget,
        FinishBuild, WriteDiff, RunBenchmark, EvaluateBenchmark, CheckPackage, Unset
    <3>2. Owns(c) \/ pc[c] \in {"mkdir", "extract"}
      BY <2>8 DEF Build, MakeExperimentDir, SkipBuild, FindNoBuild, CleanBuild, CopyTarget,
        FinishBuild, WriteDiff, RunBenchmark, EvaluateBenchmark, CheckPackage,
        Goto, End, Refuse, Exit, Owns
    <3> QED
      BY <3>1, <3>2 DEF IInv, Named
  <2> QED
    BY <2>2, <2>3, <2>4, <2>5, <2>6, <2>7, <2>8 DEF Step
<1>2. ASSUME NEW o \in Containers, o # c, Owns(o)' \/ pc'[o] \in {"mkdir", "extract"}
      PROVE  name'[o] \in Names /\ name'[o][1] = recipe'[o]
  <2>1. Rests(o)
    BY <1>2, OthersRest DEF IInv
  <2> QED
    BY <1>2, <2>1 DEF Rests, Owns, IInv, Named
<1> QED
  BY <1>1, <1>2 DEF Named

\* Every build under way is one of a target.
LEMMA BuildingKept ==
  ASSUME IInv, NEW c \in Containers, Step(c)
  PROVE  Building'
<1>1. ASSUME pc'[c] \in {"clean", "copy", "make"}
      PROVE  ToBuild(c)'
  <2>1. FindNoBuild(c) \/ CleanBuild(c) \/ CopyTarget(c)
    BY <1>1 DEF Step, Build, Start, Abort, PrepareSanityCheck, NameExperiment, MakeExperimentDir,
      SkipBuild, FinishBuild, WriteDiff, RunBenchmark, EvaluateBenchmark, CheckPackage,
      PackageExperiment, ExtractResults, Goto, End, Refuse, Exit, Running, IInv, TypeOK
  <2>2. ToBuild(c) /\ UNCHANGED <<pos, recipe>>
    BY <2>1 DEF FindNoBuild, CleanBuild, CopyTarget, Goto, Unset, IInv, Building
  <2> QED
    BY <2>2 DEF ToBuild
<1>2. ASSUME NEW o \in Containers, o # c, pc'[o] \in {"clean", "copy", "make"}
      PROVE  ToBuild(o)'
  <2>1. Rests(o)
    BY <1>2, OthersRest DEF IInv
  <2> QED
    BY <1>2, <2>1 DEF Rests, ToBuild, IInv, Building
<1> QED
  BY <1>1, <1>2 DEF Building

\* A recipe is set together with the script that uses it.
LEMMA OfSanityKept ==
  ASSUME IInv, NEW c \in Containers, Step(c)
  PROVE  OfSanity'
<1>1. sanity'[c] \/ pc'[c] = "sanity" => recipe'[c] \in SanityRecipes
  <2>1. CASE Start(c)
    <3>1. PICK r \in Recipes, s \in BOOLEAN :
            /\ s => r \in SanityRecipes
            /\ recipe' = [recipe EXCEPT ![c] = r]
            /\ sanity' = [sanity EXCEPT ![c] = s]
            /\ pc' = [pc EXCEPT ![c] = IF s THEN "sanity" ELSE "start"]
      BY <2>1 DEF Start, Goto
    <3>2. recipe'[c] = r /\ sanity'[c] = s /\ pc'[c] = IF s THEN "sanity" ELSE "start"
      BY <3>1 DEF IInv, TypeOK
    <3> QED
      BY <3>1, <3>2
  <2>2. CASE ~Start(c)
    <3>1. recipe' = recipe /\ sanity' = sanity
      BY <2>2 DEF Step, Build, Abort, PrepareSanityCheck, NameExperiment, MakeExperimentDir,
        SkipBuild, FindNoBuild, CleanBuild, CopyTarget, FinishBuild, WriteDiff, RunBenchmark,
        EvaluateBenchmark, CheckPackage, PackageExperiment, ExtractResults, Unset
    <3>2. pc'[c] # "sanity"
      BY <2>2 DEF Step, Build, Abort, PrepareSanityCheck, NameExperiment, MakeExperimentDir,
        SkipBuild, FindNoBuild, CleanBuild, CopyTarget, FinishBuild, WriteDiff, RunBenchmark,
        EvaluateBenchmark, CheckPackage, PackageExperiment, ExtractResults, Goto, End, Refuse, Exit, Running, IInv, TypeOK
    <3> QED
      BY <3>1, <3>2 DEF IInv, OfSanity
  <2> QED
    BY <2>1, <2>2
<1>2. ASSUME NEW o \in Containers, o # c
      PROVE  sanity'[o] \/ pc'[o] = "sanity" => recipe'[o] \in SanityRecipes
  <2>1. Rests(o)
    BY <1>2, OthersRest DEF IInv
  <2> QED
    BY <1>2, <2>1 DEF Rests, IInv, OfSanity
<1> QED
  BY <1>1, <1>2 DEF OfSanity

\* A container comes to own a directory by making it.
LEMMA Owning ==
  ASSUME IInv, NEW c \in Containers, Step(c), Owns(c)'
  PROVE  /\ UNCHANGED <<recipe, name>>
         /\ name[c] \in Names /\ name[c][1] = recipe[c]
         /\ \/ Owns(c)
            \/ name[c] \notin dirs /\ dirs' = dirs \cup {name[c]}
<1>1. MakeExperimentDir(c) \/ Build(c) \/ WriteDiff(c) \/ RunBenchmark(c) \/ EvaluateBenchmark(c)
        \/ CheckPackage(c)
  BY DEF Owns, Step, Start, Abort, PrepareSanityCheck, NameExperiment, PackageExperiment,
    ExtractResults, Goto, End, Refuse, Exit, Running, IInv, TypeOK
<1>2. UNCHANGED <<recipe, name>>
  BY <1>1 DEF Build, MakeExperimentDir, SkipBuild, FindNoBuild, CleanBuild, CopyTarget,
    FinishBuild, WriteDiff, RunBenchmark, EvaluateBenchmark, CheckPackage, Unset
<1>3. CASE MakeExperimentDir(c)
  <2>1. name[c] \in Names /\ name[c][1] = recipe[c]
    BY <1>3 DEF MakeExperimentDir, Goto, End, Refuse, Exit, Running, IInv, Named
  <2>2. name[c] \notin dirs /\ dirs' = dirs \cup {name[c]}
    BY <1>3 DEF MakeExperimentDir, Goto, End, Refuse, Exit, Running, IInv, TypeOK, Owns
  <2> QED
    BY <1>2, <2>1, <2>2
<1>4. CASE ~MakeExperimentDir(c)
  <2>1. Owns(c)
    BY <1>1, <1>4 DEF Build, SkipBuild, FindNoBuild, CleanBuild, CopyTarget, FinishBuild, WriteDiff,
      RunBenchmark, EvaluateBenchmark, CheckPackage, Goto, End, Refuse, Exit, Running, Owns
  <2> QED
    BY <1>2, <2>1 DEF IInv, Named
<1> QED
  BY <1>3, <1>4

\* The directory of an owner stays.
LEMMA DirKeptKept ==
  ASSUME IInv, NEW c \in Containers, Step(c)
  PROVE  DirKept'
<1>1. ASSUME Owns(c)', recipe'[c] \notin SanityRecipes
      PROVE  name'[c] \in dirs'
  <2>1. Owns(c) => name[c] \in dirs
    BY <1>1, Owning DEF IInv, DirKept
  <2> QED
    BY <1>1, <2>1, Owning, DirsStay
<1>2. ASSUME NEW o \in Containers, o # c, Owns(o)', recipe'[o] \notin SanityRecipes
      PROVE  name'[o] \in dirs'
  <2>1. Rests(o)
    BY <1>2, OthersRest DEF IInv
  <2>2. Owns(o) /\ recipe[o] \notin SanityRecipes /\ name'[o] = name[o]
    BY <1>2, <2>1 DEF Rests, Owns
  <2>3. name[o] \in dirs /\ name[o][1] \notin SanityRecipes
    BY <2>2 DEF IInv, DirKept, Named
  <2> QED
    BY <2>2, <2>3, DirsStay
<1> QED
  BY <1>1, <1>2 DEF DirKept

\* mkdir succeeds for one container only: the directory of another owner is
\* there, unless the sanity check has removed it.
LEMMA ExclusiveKept ==
  ASSUME IInv, NEW c \in Containers, Step(c)
  PROVE  DirExclusive'
<1>1. ASSUME Owns(c)', NEW o \in Containers, o # c, Owns(o)', recipe'[o] \notin SanityRecipes
      PROVE  name'[c] # name'[o]
  <2>1. Rests(o)
    BY <1>1, OthersRest DEF IInv
  <2>2. Owns(o) /\ recipe[o] \notin SanityRecipes /\ name'[o] = name[o]
    BY <1>1, <2>1 DEF Rests, Owns
  <2>3. name[o] \in dirs
    BY <2>2 DEF IInv, DirKept
  <2>4. CASE Owns(c)
    BY <1>1, <2>2, <2>4, Owning DEF IInv, DirExclusive
  <2>5. CASE ~Owns(c)
    BY <1>1, <2>2, <2>3, <2>5, Owning
  <2> QED
    BY <2>4, <2>5
<1>2. ASSUME Owns(c)', NEW o \in Containers, o # c, Owns(o)', recipe'[c] \notin SanityRecipes
      PROVE  name'[c] # name'[o]
  <2>1. Rests(o)
    BY <1>2, OthersRest DEF IInv
  <2>2. Owns(o) /\ name'[o] = name[o] /\ recipe'[o] = recipe[o]
    BY <1>2, <2>1 DEF Rests, Owns
  <2>3. name'[c][1] = recipe'[c] /\ name'[o][1] = recipe'[o]
    BY <1>2, <2>2, Owning DEF IInv, Named
  <2>4. name'[c] = name'[o] => recipe'[o] \notin SanityRecipes
    BY <1>2, <2>3
  <2> QED
    BY <1>1, <1>2, <2>4
<1>3. ASSUME NEW d \in Containers, NEW o \in Containers, d # o, d # c, o # c,
             Owns(d)', Owns(o)', recipe'[d] \notin SanityRecipes
      PROVE  name'[d] # name'[o]
  <2>1. Rests(d) /\ Rests(o)
    BY <1>3, OthersRest DEF IInv
  <2> QED
    BY <1>3, <2>1 DEF Rests, Owns, IInv, DirExclusive
<1> QED
  BY <1>1, <1>2, <1>3 DEF DirExclusive

\* What is packaged has been judged.
LEMMA JudgedKept ==
  ASSUME IInv, NEW c \in Containers, Step(c)
  PROVE  Judged'
<1>1. ASSUME pc'[c] \in {"package", "zip"}
      PROVE  ran'[c] \in {"runs", "none"}
  <2>1. EvaluateBenchmark(c) \/ CheckPackage(c)
    BY <1>1 DEF Step, Build, Start, Abort, PrepareSanityCheck, NameExperiment, MakeExperimentDir,
      SkipBuild, FindNoBuild, CleanBuild, CopyTarget, FinishBuild, WriteDiff, RunBenchmark,
      PackageExperiment, ExtractResults, Goto, End, Refuse, Exit, Running, IInv, TypeOK
  <2> QED
    BY <1>1, <2>1 DEF EvaluateBenchmark, CheckPackage, Goto, End, Refuse, Exit, Running, IInv, TypeOK, Judged
<1>2. ASSUME pc'[c] = "extract"
      PROVE  zips'[name'[c]] # None
  <2>1. PackageExperiment(c)
    BY <1>2 DEF Step, Build, Start, Abort, PrepareSanityCheck, NameExperiment, MakeExperimentDir,
      SkipBuild, FindNoBuild, CleanBuild, CopyTarget, FinishBuild, WriteDiff, RunBenchmark,
      EvaluateBenchmark, CheckPackage, ExtractResults, Goto, End, Refuse, Exit, Running, IInv, TypeOK
  <2>2. name[c] \in Names /\ ran[c] \in {"runs", "none"}
    BY <2>1 DEF PackageExperiment, Goto, End, Refuse, Exit, Running, IInv, Named, Judged, Owns
  <2>3. [ran |-> ran[c], used |-> used[c]] \in Package
    BY <2>2 DEF Package, IInv, TypeOK
  <2>4. [ran |-> ran[c], used |-> used[c]] # None
    BY <2>3, NoneAssumption
  <2>5. zips' = [zips EXCEPT ![name[c]] = [ran |-> ran[c], used |-> used[c]]] /\ name' = name
    BY <1>2, <2>1 DEF PackageExperiment, End, Exit, Goto, IInv, TypeOK
  <2> QED
    BY <2>2, <2>4, <2>5 DEF IInv, TypeOK
<1>3. ASSUME NEW o \in Containers, o # c
      PROVE  /\ pc'[o] \in {"package", "zip"} => ran'[o] \in {"runs", "none"}
             /\ pc'[o] = "extract" => zips'[name'[o]] # None
  <2>1. Rests(o)
    BY <1>3, OthersRest DEF IInv
  <2>2. pc[o] = "extract" => name[o] \in Names /\ zips[name[o]] # None
    BY DEF IInv, Judged, Named
  <2> QED
    BY <2>1, <2>2, ZipsStay DEF Rests, IInv, Judged
<1> QED
  BY <1>1, <1>2, <1>3 DEF Judged

-----------------------------------------------------------------------------
(***************************************************************************)
(* Any number of containers.                                               *)
(***************************************************************************)

\* An empty volume, idle containers.
LEMMA InitInv == Init => IInv
<1> SUFFICES ASSUME Init PROVE IInv
  OBVIOUS
<1>1. TypeOK
  BY RecipesAssumption, BoundsAssumption DEF Init, TypeOK, Days
<1>2. \A c \in Containers : pc[c] = "idle" /\ sanity[c] = FALSE
  BY DEF Init
<1> QED
  BY <1>1, <1>2 DEF Init, IInv, Fresh, Named, Building, OfSanity, DirKept, DirExclusive, Judged, Owns

\* Every step of any container keeps the invariant.
LEMMA StepInv == IInv /\ [Next]_vars => IInv'
<1> SUFFICES ASSUME IInv, [Next]_vars PROVE IInv'
  OBVIOUS
<1>1. CASE UNCHANGED vars
  BY <1>1 DEF vars, IInv, TypeOK, Fresh, Named, Building, ToBuild, OfSanity, DirKept,
    DirExclusive, Judged, Owns
<1>2. CASE Midnight
  BY <1>2, BoundsAssumption DEF Midnight, Days, IInv, TypeOK, Fresh, Named, Building, ToBuild, OfSanity,
    DirKept, DirExclusive, Judged, Owns
<1>3. ASSUME NEW c \in Containers, Step(c)
      PROVE  IInv'
  BY <1>3, TypeKept, FreshKept, NamedKept, BuildingKept, OfSanityKept, DirKeptKept, ExclusiveKept, JudgedKept
     DEF IInv
<1> QED
  BY <1>1, <1>2, <1>3 DEF Next

\* The inductive invariant holds throughout.
LEMMA Inductive == Spec => []IInv
BY InitInv, StepInv, PTL DEF Spec

\* Whose package a step writes, if any.
LEMMA ZipsOthersStay ==
  ASSUME IInv, NEW c \in Containers, Step(c), NEW n \in Names, zips'[n] # zips[n]
  PROVE  /\ PackageExperiment(c) /\ pc[c] = "zip" /\ pc'[c] # "zip"
         /\ n = name[c] /\ n[1] = recipe[c]
<1>1. PackageExperiment(c)
  BY DEF Step, Build, Start, Abort, PrepareSanityCheck, NameExperiment, MakeExperimentDir,
    SkipBuild, FindNoBuild, CleanBuild, CopyTarget, FinishBuild, WriteDiff, RunBenchmark,
    EvaluateBenchmark, CheckPackage, ExtractResults
<1>2. pc[c] = "zip" /\ pc'[c] # "zip"
  BY <1>1 DEF PackageExperiment, Goto, End, Refuse, Exit, Running, IInv, TypeOK
<1>3. zips' = [zips EXCEPT ![name[c]] = [ran |-> ran[c], used |-> used[c]]]
  BY <1>1 DEF PackageExperiment
<1>4. n = name[c]
  BY <1>3 DEF IInv, TypeOK
<1>5. name[c][1] = recipe[c]
  BY <1>2 DEF IInv, Named, Owns
<1> QED
  BY <1>1, <1>2, <1>4, <1>5

\* Nobody else writes the package of a container that has found none: who
\* could is in the same directory.
LEMMA NoPackageKept ==
  ASSUME IInv, NoPackageYet, NEW c \in Containers, Step(c)
  PROVE  NoPackageYet'
<1> SUFFICES ASSUME NEW o \in Containers, pc'[o] = "zip", recipe'[o] \notin SanityRecipes
             PROVE  zips'[name'[o]] = None
  BY DEF NoPackageYet
<1>1. CASE o = c
  <2>1. CheckPackage(c)
    BY <1>1 DEF Step, Build, Start, Abort, PrepareSanityCheck, NameExperiment, MakeExperimentDir,
      SkipBuild, FindNoBuild, CleanBuild, CopyTarget, FinishBuild, WriteDiff, RunBenchmark,
      EvaluateBenchmark, PackageExperiment, ExtractResults, Goto, End, Refuse, Exit, Running, IInv, TypeOK
  <2>2. zips[name[c]] = None /\ zips' = zips /\ name' = name
    BY <1>1, <2>1 DEF CheckPackage, Goto, End, Refuse, Exit, Running, IInv, TypeOK
  <2> QED
    BY <1>1, <2>2
<1>2. CASE o # c
  <2>1. Rests(o)
    BY <1>2, OthersRest DEF IInv
  <2>2. pc[o] = "zip" /\ recipe[o] \notin SanityRecipes /\ name'[o] = name[o]
    BY <2>1 DEF Rests
  <2>3. zips[name[o]] = None /\ name[o] \in Names
    BY <2>2 DEF NoPackageYet, IInv, Named, Owns
  <2>4. zips'[name[o]] = zips[name[o]]
    <3> SUFFICES ASSUME zips'[name[o]] # zips[name[o]]
                 PROVE  FALSE
      OBVIOUS
    <3>1. pc[c] = "zip" /\ name[o] = name[c]
      BY <2>3, ZipsOthersStay
    <3> QED
      BY <1>2, <2>2, <3>1 DEF IInv, DirExclusive, Owns
  <2> QED
    BY <2>2, <2>3, <2>4
<1> QED
  BY <1>1, <1>2

\* That there is none yet holds throughout.
LEMMA NoPackageInductive == Spec => []NoPackageYet
<1>1. Init => NoPackageYet
  BY DEF Init, NoPackageYet
<1>2. IInv /\ NoPackageYet /\ [Next]_vars => NoPackageYet'
  <2> SUFFICES ASSUME IInv, NoPackageYet, [Next]_vars
               PROVE  NoPackageYet'
    OBVIOUS
  <2>1. CASE UNCHANGED vars \/ Midnight
    BY <2>1 DEF vars, Midnight, NoPackageYet
  <2>2. ASSUME NEW c \in Containers, Step(c)
        PROVE  NoPackageYet'
    BY <2>2, NoPackageKept
  <2> QED
    BY <2>1, <2>2 DEF Next
<1> QED
  BY <1>1, <1>2, Inductive, PTL DEF Spec

-----------------------------------------------------------------------------
(***************************************************************************)
(* Builds that nobody contends for.                                        *)
(***************************************************************************)

\* A container at a target works with it.
LEMMA AtTarget ==
  ASSUME IInv, NEW c \in Containers, pc[c] \in {"clean", "copy", "make"}
  PROVE  Target(c) \in Builds /\ At(c, Target(c))
<1>1. ToBuild(c) /\ pos[c] \in 1 .. Len(Targets[recipe[c]]) /\ recipe[c] \in Recipes
  BY DEF IInv, Building, ToBuild, TypeOK
<1>2. Target(c) \in Uses(recipe[c])
  BY <1>1, UsesType DEF Target
<1> QED
  BY <1>1, <1>2, UsesType DEF At

\* Who changes a build, or the patch in it, is at work with it.
LEMMA BuildStays ==
  ASSUME IInv, NEW c \in Containers, Step(c), NEW b \in Builds, build'[b] # build[b]
  PROVE  pc[c] \in {"clean", "copy", "make"} /\ Target(c) = b /\ At(c, b)
<1>1. CleanBuild(c) \/ CopyTarget(c) \/ FinishBuild(c)
  BY DEF Step, Build, Start, Abort, PrepareSanityCheck, NameExperiment, MakeExperimentDir,
    SkipBuild, FindNoBuild, WriteDiff, RunBenchmark, EvaluateBenchmark, CheckPackage,
    PackageExperiment, ExtractResults, Unbuilt
<1>2. pc[c] \in {"clean", "copy", "make"}
  BY <1>1 DEF CleanBuild, CopyTarget, FinishBuild, Goto
<1>3. \E v : build' = [build EXCEPT ![Target(c)] = v]
  BY <1>1 DEF CleanBuild, CopyTarget, FinishBuild
<1>4. Target(c) = b
  BY <1>3 DEF IInv, TypeOK
<1> QED
  BY <1>2, <1>4, AtTarget

LEMMA PatchStays ==
  ASSUME IInv, NEW c \in Containers, Step(c), NEW b \in Builds, patch'[b] # patch[b]
  PROVE  /\ At(c, b)
         /\ \/ pc[c] = "clean" /\ Target(c) = b
            \/ WriteDiff(c) /\ PatchHome(recipe[c]) = b
<1>1. CleanBuild(c) \/ WriteDiff(c)
  BY DEF Step, Build, Start, Abort, PrepareSanityCheck, NameExperiment, MakeExperimentDir,
    SkipBuild, FindNoBuild, CopyTarget, FinishBuild, RunBenchmark, EvaluateBenchmark, CheckPackage,
    PackageExperiment, ExtractResults, Unbuilt
<1>2. CASE CleanBuild(c)
  <2>1. pc[c] = "clean" /\ patch' = [patch EXCEPT ![Target(c)] = None]
    BY <1>2 DEF CleanBuild, Goto
  <2>2. Target(c) = b
    BY <2>1 DEF IInv, TypeOK
  <2> QED
    BY <2>1, <2>2, AtTarget
<1>3. CASE WriteDiff(c)
  <2>1. pc[c] = "build" /\ \E v : patch' = [patch EXCEPT ![PatchHome(recipe[c])] = v]
    BY <1>3 DEF WriteDiff, Goto
  <2>2. PatchHome(recipe[c]) = b
    BY <2>1 DEF IInv, TypeOK
  <2>3. PatchHome(recipe[c]) \in Uses(recipe[c])
    BY UsesType DEF IInv, TypeOK
  <2> QED
    BY <1>3, <2>1, <2>2, <2>3 DEF At
<1> QED
  BY <1>1, <1>2, <1>3

\* No step but the start of an experiment changes who works with what.
LEMMA AtStays ==
  ASSUME IInv, NEW c \in Containers, Step(c), ~Start(c)
  PROVE  /\ UNCHANGED <<recipe, contended>>
         /\ \A o \in Containers, b \in Builds : At(o, b)' => At(o, b)
<1>1. UNCHANGED <<recipe, contended>>
  BY DEF Step, Build, Abort, PrepareSanityCheck, NameExperiment, MakeExperimentDir,
    SkipBuild, FindNoBuild, CleanBuild, CopyTarget, FinishBuild, WriteDiff, RunBenchmark,
    EvaluateBenchmark, CheckPackage, PackageExperiment, ExtractResults, Unset
<1>2. pc[c] # "idle"
  BY DEF Step, Build, Abort, PrepareSanityCheck, NameExperiment, MakeExperimentDir,
    SkipBuild, FindNoBuild, CleanBuild, CopyTarget, FinishBuild, WriteDiff, RunBenchmark,
    EvaluateBenchmark, CheckPackage, PackageExperiment, ExtractResults, Goto, End, Refuse, Exit
<1>3. ASSUME NEW o \in Containers, NEW b \in Builds, At(o, b)'
      PROVE  At(o, b)
  <2>1. pc[o] # "idle"
    <3>1. CASE o = c
      BY <1>2, <3>1
    <3>2. CASE o # c
      BY <1>3, <3>2, OthersRest DEF At, Rests, IInv
    <3> QED
      BY <3>1, <3>2
  <2> QED
    BY <1>1, <1>3, <2>1 DEF At, Uses
<1> QED
  BY <1>1, <1>3

\* Whoever starts an experiment changes nothing that is built; the builds
\* it would share are contended from then on.
LEMMA Starting ==
  ASSUME IInv, NEW c \in Containers, Start(c)
  PROVE  /\ UNCHANGED <<build, hurt, patch, dirs, zips>> /\ contended \subseteq contended'
         /\ pc[c] = "idle" /\ pc'[c] \in {"sanity", "start"}
         /\ (pc'[c] = "start") => ~sanity'[c]
         /\ c \notin refused'
         /\ \A b \in Builds \ contended', o \in Containers :
              o # c /\ At(c, b)' /\ At(o, b) =>
                build[b] = "finished" /\ ~(PatchHome(recipe'[c]) = b /\ PatchHome(recipe[o]) = b)
<1>1. PICK r \in Recipes, s \in BOOLEAN :
        /\ recipe' = [recipe EXCEPT ![c] = r]
        /\ sanity' = [sanity EXCEPT ![c] = s]
        /\ contended' = contended \cup Contend(c, r)
        /\ Goto(c, "idle", IF s THEN "sanity" ELSE "start")
  BY DEF Start
<1>2. recipe'[c] = r /\ sanity'[c] = s /\ pc'[c] = (IF s THEN "sanity" ELSE "start") /\ pc[c] = "idle"
  BY <1>1 DEF Goto, IInv, TypeOK
<1>3. ASSUME NEW b \in Builds \ contended', NEW o \in Containers, o # c, At(c, b)', At(o, b)
      PROVE  build[b] = "finished" /\ ~(PatchHome(recipe'[c]) = b /\ PatchHome(recipe[o]) = b)
  <2>1. b \in Uses(r) /\ b \notin Contend(c, r)
    BY <1>1, <1>2, <1>3 DEF At, Uses
  <2> QED
    BY <1>2, <1>3, <2>1 DEF Contend, At
<1>4. UNCHANGED <<build, hurt, patch, dirs, zips>> /\ c \notin refused'
  BY DEF Start, Unbuilt
<1> QED
  BY <1>1, <1>2, <1>3, <1>4

\* The experiments of two containers stay apart.
LEMMA ApartKept ==
  ASSUME IInv, Apart, Undisturbed, NEW c \in Containers, Step(c)
  PROVE  Apart'
<1> SUFFICES ASSUME NEW b \in Builds \ contended', NEW x \in Containers, NEW y \in Containers,
                    x # y, At(x, b)', At(y, b)'
             PROVE  build'[b] = "finished" /\ ~(PatchHome(recipe'[x]) = b /\ PatchHome(recipe'[y]) = b)
  BY DEF Apart, PatchHome
<1>1. CASE Start(c)
  <2>1. build' = build /\ b \notin contended
    BY <1>1, Starting
  <2>2. \A o \in Containers : o # c => recipe'[o] = recipe[o] /\ (At(o, b)' => At(o, b))
    <3> SUFFICES ASSUME NEW o \in Containers, o # c
                 PROVE  recipe'[o] = recipe[o] /\ (At(o, b)' => At(o, b))
      OBVIOUS
    <3>1. Rests(o)
      BY OthersRest DEF IInv
    <3> QED
      BY <3>1 DEF Rests, At, Uses
  <2>3. CASE x # c /\ y # c
    BY <2>1, <2>2, <2>3 DEF Apart
  <2>4. CASE x = c
    BY <1>1, <2>1, <2>2, <2>4, Starting
  <2>5. CASE y = c
    BY <1>1, <2>1, <2>2, <2>5, Starting
  <2> QED
    BY <2>3, <2>4, <2>5
<1>2. CASE ~Start(c)
  <2>1. b \in Builds \ contended /\ At(x, b) /\ At(y, b) /\ recipe' = recipe
    BY <1>2, AtStays
  <2>2. build[b] = "finished" /\ ~(PatchHome(recipe[x]) = b /\ PatchHome(recipe[y]) = b)
    BY <2>1 DEF Apart
  <2>3. build'[b] = build[b]
    <3> SUFFICES ASSUME build'[b] # build[b]
                 PROVE  FALSE
      OBVIOUS
    <3>1. pc[c] \in {"clean", "copy", "make"} /\ Target(c) = b
      BY BuildStays
    <3> QED
      BY <2>1, <2>2, <3>1 DEF Undisturbed
  <2> QED
    BY <2>1, <2>2, <2>3
<1> QED
  BY <1>1, <1>2

\* What one experiment works with, the others leave alone.
LEMMA LeftAlone ==
  ASSUME IInv, Apart, Undisturbed, NEW c \in Containers, Step(c),
         NEW o \in Containers, o # c, NEW b \in Builds \ contended, At(o, b)
  PROVE  /\ build'[b] = build[b]
         /\ PatchHome(recipe[o]) = b => patch'[b] = patch[b]
<1>1. ASSUME At(c, b), pc[c] \in {"clean", "copy", "make"}, Target(c) = b
      PROVE  FALSE
  <2>1. build[b] = "finished"
    BY <1>1 DEF Apart
  <2> QED
    BY <1>1, <2>1 DEF Undisturbed
<1>2. build'[b] = build[b]
  BY <1>1, BuildStays
<1>3. ASSUME PatchHome(recipe[o]) = b, patch'[b] # patch[b]
      PROVE  FALSE
  <2>1. At(c, b) /\ ((pc[c] = "clean" /\ Target(c) = b) \/ PatchHome(recipe[c]) = b)
    BY <1>3, PatchStays
  <2>2. PatchHome(recipe[c]) # b
    BY <1>3, <2>1 DEF Apart
  <2> QED
    BY <1>1, <2>1, <2>2
<1> QED
  BY <1>2, <1>3

\* Contended builds stay so.
LEMMA ContendedGrows ==
  ASSUME IInv, NEW c \in Containers, Step(c)
  PROVE  contended \subseteq contended' /\ \A r \in Recipes : Spoilt(r) => Spoilt(r)'
<1>1. contended \subseteq contended'
  BY Starting, AtStays
<1> QED
  BY <1>1 DEF Spoilt

\* The step of a container that is at a target: what becomes of the build.
LEMMA OnlyBuild ==
  ASSUME IInv, NEW c \in Containers, Step(c)
  PROVE  /\ pc[c] = "clean" /\ build' # build => build' = [build EXCEPT ![Target(c)] = "absent"]
         /\ pc[c] = "copy" /\ build' # build =>
              build' = [build EXCEPT ![Target(c)] = IF Usable(Target(c)) THEN "broken" ELSE "unfinished"]
         /\ pc[c] = "make" /\ build' # build =>
              build' = [build EXCEPT ![Target(c)] = IF c \in hurt THEN "broken" ELSE "finished"]
<1> SUFFICES ASSUME build' # build
             PROVE  /\ pc[c] = "clean" => build' = [build EXCEPT ![Target(c)] = "absent"]
                    /\ pc[c] = "copy" =>
                         build' = [build EXCEPT ![Target(c)] = IF Usable(Target(c)) THEN "broken" ELSE "unfinished"]
                    /\ pc[c] = "make" =>
                         build' = [build EXCEPT ![Target(c)] = IF c \in hurt THEN "broken" ELSE "finished"]
  OBVIOUS
<1>1. CleanBuild(c) \/ CopyTarget(c) \/ FinishBuild(c)
  BY DEF Step, Build, Start, Abort, PrepareSanityCheck, NameExperiment, MakeExperimentDir,
    SkipBuild, FindNoBuild, WriteDiff, RunBenchmark, EvaluateBenchmark, CheckPackage,
    PackageExperiment, ExtractResults, Unbuilt
<1> QED
  BY <1>1 DEF CleanBuild, CopyTarget, FinishBuild, Goto

\* Nobody disturbs a build that nobody has contended for.
LEMMA UndisturbedKept ==
  ASSUME IInv, Apart, Undisturbed, NEW c \in Containers, Step(c)
  PROVE  Undisturbed'
<1>1. contended \subseteq contended'
  BY ContendedGrows
<1>2. ASSUME NEW b \in Builds, b \notin contended'
      PROVE  build'[b] # "broken"
  <2> SUFFICES ASSUME build'[b] = "broken"
               PROVE  FALSE
    OBVIOUS
  <2>1. build[b] # "broken" /\ b \notin contended
    BY <1>1, <1>2 DEF Undisturbed
  <2>2. pc[c] \in {"clean", "copy", "make"} /\ Target(c) = b
    BY <2>1, BuildStays
  <2>3. CASE pc[c] = "clean"
    <3>1. build' = [build EXCEPT ![b] = "absent"] \/ build' = build
      BY <2>2, <2>3, OnlyBuild
    <3> QED
      BY <2>1, <3>1 DEF IInv, TypeOK
  <2>4. CASE pc[c] = "copy"
    <3>1. build[b] = "absent"
      BY <2>1, <2>2, <2>4 DEF Undisturbed
    <3>2. build' = [build EXCEPT ![b] = "unfinished"] \/ build' = build
      BY <2>2, <2>4, <3>1, OnlyBuild DEF Usable
    <3> QED
      BY <2>1, <3>2 DEF IInv, TypeOK
  <2>5. CASE pc[c] = "make"
    <3>1. c \notin hurt
      BY <2>1, <2>2, <2>5 DEF Undisturbed
    <3>2. build' = [build EXCEPT ![b] = "finished"] \/ build' = build
      BY <2>2, <2>5, <3>1, OnlyBuild
    <3> QED
      BY <2>1, <3>2 DEF IInv, TypeOK
  <2> QED
    BY <2>2, <2>3, <2>4, <2>5
<1>3. ASSUME Target(c)' \notin contended'
      PROVE  /\ pc'[c] \in {"clean", "copy"} => build'[Target(c)'] = "absent"
             /\ pc'[c] = "make" => build'[Target(c)'] = "unfinished" /\ c \notin hurt'
  <2>1. CASE FindNoBuild(c)
    <3>1. pc'[c] = "clean" /\ build[Target(c)] = "absent" /\ build' = build /\ Target(c)' = Target(c)
      BY <2>1 DEF FindNoBuild, Goto, Unset, Unbuilt, Target, IInv, TypeOK
    <3> QED
      BY <3>1
  <2>2. CASE CleanBuild(c)
    <3>1. pc[c] = "clean" /\ pc'[c] = "copy" /\ Target(c)' = Target(c)
      BY <2>2 DEF CleanBuild, Goto, Unset, Target, IInv, TypeOK
    <3>2. Target(c) \in Builds /\ build' = [build EXCEPT ![Target(c)] = "absent"]
      BY <2>2, <3>1, AtTarget DEF CleanBuild
    <3> QED
      BY <3>1, <3>2 DEF IInv, TypeOK
  <2>3. CASE CopyTarget(c)
    <3>1. pc[c] = "copy" /\ pc'[c] = "make" /\ Target(c)' = Target(c)
      BY <2>3 DEF CopyTarget, Goto, Unset, Target, IInv, TypeOK
    <3>2. build[Target(c)] = "absent" /\ Target(c) \in Builds
      BY <1>1, <1>3, <3>1, AtTarget DEF Undisturbed
    <3>3. build' = [build EXCEPT ![Target(c)] = "unfinished"] /\ c \notin hurt'
      BY <2>3, <3>2 DEF CopyTarget, Usable, Others
    <3> QED
      BY <3>1, <3>2, <3>3 DEF IInv, TypeOK
  <2>4. CASE ~FindNoBuild(c) /\ ~CleanBuild(c) /\ ~CopyTarget(c)
    <3>1. pc'[c] \notin {"clean", "copy", "make"}
      BY <2>4 DEF Step, Build, Start, Abort, PrepareSanityCheck, NameExperiment, MakeExperimentDir,
        SkipBuild, FinishBuild, WriteDiff, RunBenchmark, EvaluateBenchmark, CheckPackage,
        PackageExperiment, ExtractResults, Goto, End, Refuse, Exit, IInv, TypeOK
    <3> QED
      BY <3>1
  <2> QED
    BY <2>1, <2>2, <2>3, <2>4
<1>4. ASSUME NEW o \in Containers, o # c, Target(o)' \notin contended'
      PROVE  /\ pc'[o] \in {"clean", "copy"} => build'[Target(o)'] = "absent"
             /\ pc'[o] = "make" => build'[Target(o)'] = "unfinished" /\ o \notin hurt'
  <2>1. pc'[o] = pc[o] /\ Target(o)' = Target(o)
    BY <1>4, OthersRest DEF IInv, Rests, Target
  <2> SUFFICES ASSUME pc[o] \in {"clean", "copy", "make"}
               PROVE  /\ build'[Target(o)] = build[Target(o)]
                      /\ pc[o] = "make" => o \notin hurt'
    BY <1>1, <1>4, <2>1 DEF Undisturbed
  <2>2. Target(o) \in Builds \ contended /\ At(o, Target(o))
    BY <1>1, <1>4, <2>1, AtTarget
  <2>3. build'[Target(o)] = build[Target(o)]
    BY <1>4, <2>2, LeftAlone
  <2>4. ASSUME pc[o] = "make", o \in hurt'
        PROVE  FALSE
    <3>1. o \notin hurt /\ build[Target(o)] = "unfinished"
      BY <2>2, <2>4 DEF Undisturbed
    <3>2. CleanBuild(c) \/ CopyTarget(c)
      BY <2>4, <3>1 DEF Step, Build, Start, Abort, PrepareSanityCheck, NameExperiment,
        MakeExperimentDir, SkipBuild, FindNoBuild, FinishBuild, WriteDiff, RunBenchmark,
        EvaluateBenchmark, CheckPackage, PackageExperiment, ExtractResults, Unbuilt
    <3>3. pc[c] \in {"clean", "copy"} /\ Target(o) = Target(c)
      BY <2>4, <3>1, <3>2 DEF CleanBuild, CopyTarget, Others, Goto
    <3>4. At(c, Target(o))
      BY <3>3, AtTarget
    <3> QED
      BY <1>4, <2>2, <3>1, <3>4 DEF Apart
  <2> QED
    BY <2>3, <2>4
<1> QED
  BY <1>2, <1>3, <1>4 DEF Undisturbed

\* rm -rf takes the patch with the build.
LEMMA CleanedPatch ==
  ASSUME IInv, NEW c \in Containers, Step(c), pc[c] = "clean", build' # build \/ patch' # patch
  PROVE  patch'[Target(c)] = None
<1>1. CleanBuild(c)
  BY DEF Step, Build, Start, Abort, PrepareSanityCheck, NameExperiment, MakeExperimentDir,
    SkipBuild, FindNoBuild, CopyTarget, FinishBuild, WriteDiff, RunBenchmark, EvaluateBenchmark,
    CheckPackage, PackageExperiment, ExtractResults, Unbuilt, Goto
<1> QED
  BY <1>1, AtTarget DEF CleanBuild, IInv, TypeOK

\* The patch goes with the build directory.
LEMMA NoHomeKept ==
  ASSUME IInv, NoHome, NEW c \in Containers, Step(c)
  PROVE  NoHome'
<1> SUFFICES ASSUME NEW b \in Builds, build'[b] = "absent", patch'[b] # None
             PROVE  FALSE
  BY DEF NoHome
<1>1. CASE build[b] = "absent"
  <2>1. patch'[b] # patch[b]
    BY <1>1 DEF NoHome
  <2>2. (pc[c] = "clean" /\ Target(c) = b) \/ (WriteDiff(c) /\ PatchHome(recipe[c]) = b)
    BY <2>1, PatchStays
  <2>3. CASE pc[c] = "clean" /\ Target(c) = b
    BY <2>1, <2>3, CleanedPatch
  <2>4. CASE WriteDiff(c) /\ PatchHome(recipe[c]) = b
    BY <1>1, <2>1, <2>4 DEF WriteDiff
  <2> QED
    BY <2>2, <2>3, <2>4
<1>2. CASE build[b] # "absent"
  <2>1. pc[c] \in {"clean", "copy", "make"} /\ Target(c) = b
    BY <1>2, BuildStays
  <2>2. pc[c] = "clean"
    BY <1>2, <2>1, OnlyBuild DEF IInv, TypeOK
  <2>3. build' # build
    BY <1>2
  <2> QED
    BY <2>1, <2>2, <2>3, CleanedPatch
<1> QED
  BY <1>1, <1>2

\* No container at work, no build contended for.
LEMMA SharedInit == Init => SharedInv
<1> SUFFICES ASSUME Init PROVE SharedInv
  OBVIOUS
<1>1. \A c \in Containers : pc[c] = "idle"
  BY DEF Init
<1>2. \A b \in Builds : build[b] # "broken"
  BY DEF Init
<1>3. NoHome
  BY DEF Init, NoHome
<1> QED
  BY <1>1, <1>2, <1>3, InitInv DEF SharedInv, Apart, Undisturbed, At

\* They hold throughout.
LEMMA SharedInductive == Spec => []SharedInv
<1>1. SharedInv /\ [Next]_vars => SharedInv'
  <2> SUFFICES ASSUME SharedInv, [Next]_vars PROVE SharedInv'
    OBVIOUS
  <2>1. IInv'
    BY StepInv DEF SharedInv
  <2>2. CASE UNCHANGED vars \/ Midnight
    <3>1. UNCHANGED <<pc, recipe, pos, build, hurt, contended, patch>>
      BY <2>2 DEF vars, Midnight
    <3>2. Apart'
      BY <3>1 DEF SharedInv, Apart, At, Uses, PatchHome
    <3>3. Undisturbed'
      BY <3>1 DEF SharedInv, Undisturbed, Target
    <3>4. NoHome'
      BY <3>1 DEF SharedInv, NoHome
    <3> QED
      BY <2>1, <3>2, <3>3, <3>4 DEF SharedInv
  <2>3. ASSUME NEW c \in Containers, Step(c)
        PROVE  SharedInv'
    BY <2>1, <2>3, ApartKept, UndisturbedKept, NoHomeKept DEF SharedInv
  <2> QED
    BY <2>2, <2>3 DEF Next
<1> QED
  BY <1>1, SharedInit, PTL DEF Spec

-----------------------------------------------------------------------------
(***************************************************************************)
(* The right diff.                                                         *)
(***************************************************************************)

\* The builds that the diff of an experiment at work is taken from.
LEMMA DiffBuilds ==
  ASSUME IInv, NEW o \in Containers, pc[o] # "idle", ~Spoilt(recipe[o])
  PROVE  /\ recipe[o] \in Recipes /\ PatchHome(recipe[o]) = Coverage[recipe[o]]
         /\ Previous[recipe[o]] \in Builds \ contended /\ At(o, Previous[recipe[o]])
         /\ PatchHome(recipe[o]) \in Builds \ contended /\ At(o, PatchHome(recipe[o]))
<1>1. recipe[o] \in Recipes
  BY DEF IInv, TypeOK
<1>2. Previous[recipe[o]] \notin contended /\ Coverage[recipe[o]] \notin contended
  BY DEF Spoilt
<1> QED
  BY <1>1, <1>2, UsesType DEF At, PatchHome

\* The diff that run.sh takes at the end of the builds is still the one of
\* the builds when the benchmark starts.
LEMMA DiffTakenKept ==
  ASSUME SharedInv, DiffTaken, NEW c \in Containers, Step(c)
  PROVE  DiffTaken'
<1> USE DEF SharedInv
<1>1. ASSUME pc'[c] = "benchmark"
      PROVE  \/ patch'[PatchHome(recipe'[c])] = None
             \/ \E cut \in BOOLEAN : patch'[PatchHome(recipe'[c])] = Diff(recipe[c], cut)'
  <2>1. WriteDiff(c)
    BY <1>1 DEF Step, Build, Start, Abort, PrepareSanityCheck, NameExperiment, MakeExperimentDir,
      SkipBuild, FindNoBuild, CleanBuild, CopyTarget, FinishBuild, RunBenchmark,
      EvaluateBenchmark, CheckPackage, PackageExperiment, ExtractResults, Goto, End, Refuse, Exit,
      IInv, TypeOK
  <2>2. UNCHANGED <<recipe, build>> /\ pc[c] = "build"
    BY <2>1 DEF WriteDiff, Unset, Goto
  <2>3. PatchHome(recipe[c]) \in Builds
    BY UsesType DEF IInv, TypeOK
  <2>4. \A cut \in BOOLEAN : Diff(recipe[c], cut)' = Diff(recipe[c], cut)
    BY <2>2 DEF Diff
  <2>5. CASE \E cut \in BOOLEAN : patch' = [patch EXCEPT ![PatchHome(recipe[c])] = Diff(recipe[c], cut)]
    <3>1. PICK cut \in BOOLEAN : patch' = [patch EXCEPT ![PatchHome(recipe[c])] = Diff(recipe[c], cut)]
      BY <2>5
    <3>2. patch'[PatchHome(recipe[c])] = Diff(recipe[c], cut)
      BY <2>3, <3>1 DEF IInv, TypeOK
    <3> QED
      BY <2>2, <2>4, <3>2 DEF PatchHome
  <2>6. CASE UNCHANGED patch /\ patch[PatchHome(recipe[c])] = None
    BY <2>2, <2>6 DEF PatchHome
  <2>7. CASE UNCHANGED patch /\ build[PatchHome(recipe[c])] = "absent"
    BY <2>2, <2>3, <2>7 DEF NoHome, PatchHome
  <2> QED
    BY <2>1, <2>5, <2>6, <2>7 DEF WriteDiff
<1>2. ASSUME NEW o \in Containers, o # c, pc'[o] = "benchmark", ~Spoilt(recipe[o])'
      PROVE  \/ patch'[PatchHome(recipe'[o])] = None
             \/ \E cut \in BOOLEAN : patch'[PatchHome(recipe'[o])] = Diff(recipe[o], cut)'
  <2>1. pc[o] = "benchmark" /\ recipe'[o] = recipe[o] /\ recipe[o] \in Recipes
    BY <1>2, OthersRest DEF Rests, IInv, TypeOK
  <2>2. ~Spoilt(recipe[o])
    BY <1>2, <2>1, ContendedGrows DEF Spoilt
  <2>3. /\ build'[Previous[recipe[o]]] = build[Previous[recipe[o]]]
        /\ build'[Coverage[recipe[o]]] = build[Coverage[recipe[o]]]
        /\ patch'[PatchHome(recipe[o])] = patch[PatchHome(recipe[o])]
    BY <1>2, <2>1, <2>2, DiffBuilds, LeftAlone
  <2>4. \A cut \in BOOLEAN : Diff(recipe[o], cut)' = Diff(recipe[o], cut)
    BY <2>1, <2>3 DEF Diff
  <2>5. \/ patch[PatchHome(recipe[o])] = None
        \/ \E cut \in BOOLEAN : patch[PatchHome(recipe[o])] = Diff(recipe[o], cut)
    BY <2>1, <2>2 DEF DiffTaken
  <2> QED
    BY <2>1, <2>3, <2>4, <2>5 DEF PatchHome
<1> QED
  BY <1>1, <1>2 DEF DiffTaken, PatchHome, Spoilt

\* Runs that are complete had their three builds, finished; so the diff is
\* one between finished sources.
LEMMA DiffReadyKept ==
  ASSUME SharedInv, DiffTaken, DiffReady, NEW c \in Containers, Step(c)
  PROVE  DiffReady'
<1> USE DEF SharedInv
<1>1. ASSUME pc'[c] = "evaluate", ran'[c] = "runs", patch'[PatchHome(recipe'[c])] # None,
             ~Spoilt(recipe[c])'
      PROVE  patch'[PatchHome(recipe'[c])] \in OwnDiff(recipe'[c])
  <2>1. RunBenchmark(c)
    BY <1>1 DEF Step, Build, Start, Abort, PrepareSanityCheck, NameExperiment, MakeExperimentDir,
      SkipBuild, FindNoBuild, CleanBuild, CopyTarget, FinishBuild, WriteDiff,
      EvaluateBenchmark, CheckPackage, PackageExperiment, ExtractResults, Goto, End, Refuse, Exit,
      IInv, TypeOK
  <2>2. UNCHANGED <<recipe, patch, contended>> /\ pc[c] = "benchmark"
    BY <2>1 DEF RunBenchmark, Unset, Unbuilt, Goto
  <2>3. Usable(Previous[recipe[c]]) /\ Usable(Coverage[recipe[c]])
    BY <1>1, <2>1 DEF RunBenchmark, IInv, TypeOK
  <2>4. ~Spoilt(recipe[c])
    BY <1>1, <2>2 DEF Spoilt
  <2>5. build[Previous[recipe[c]]] = "finished" /\ build[Coverage[recipe[c]]] = "finished"
    BY <2>2, <2>3, <2>4, DiffBuilds DEF Usable, Undisturbed
  <2>6. PICK cut \in BOOLEAN : patch[PatchHome(recipe[c])] = Diff(recipe[c], cut)
    BY <1>1, <2>2, <2>4 DEF DiffTaken
  <2>7. Diff(recipe[c], cut) \in OwnDiff(recipe[c])
    BY <2>5 DEF Diff, OwnDiff
  <2> QED
    BY <2>2, <2>6, <2>7
<1>2. ASSUME NEW o \in Containers, o # c, pc'[o] = "evaluate", ran'[o] = "runs",
             patch'[PatchHome(recipe'[o])] # None, ~Spoilt(recipe[o])'
      PROVE  patch'[PatchHome(recipe'[o])] \in OwnDiff(recipe'[o])
  <2>1. pc[o] = "evaluate" /\ ran[o] = "runs" /\ recipe'[o] = recipe[o] /\ recipe[o] \in Recipes
    BY <1>2, OthersRest DEF Rests, IInv, TypeOK
  <2>2. ~Spoilt(recipe[o])
    BY <1>2, <2>1, ContendedGrows DEF Spoilt
  <2>3. patch'[PatchHome(recipe[o])] = patch[PatchHome(recipe[o])]
    BY <1>2, <2>1, <2>2, DiffBuilds, LeftAlone
  <2> QED
    BY <1>2, <2>1, <2>2, <2>3 DEF DiffReady
<1> QED
  BY <1>1, <1>2 DEF DiffReady, PatchHome, OwnDiff, Spoilt

\* Whoever gets to the packaging with complete runs has evaluated them with
\* the diff that DiffReady speaks of.
LEMMA UsedKept ==
  ASSUME IInv, DiffReady, UsedOwnDiff, NEW c \in Containers, Step(c)
  PROVE  UsedOwnDiff'
<1>1. ASSUME pc'[c] \in {"package", "zip"}, ran'[c] = "runs"
      PROVE  used'[c] \in OwnDiff(recipe'[c]) \/ Spoilt(recipe[c])'
  <2>1. EvaluateBenchmark(c) \/ CheckPackage(c)
    BY <1>1 DEF Step, Build, Start, Abort, PrepareSanityCheck, NameExperiment, MakeExperimentDir,
      SkipBuild, FindNoBuild, CleanBuild, CopyTarget, FinishBuild, WriteDiff, RunBenchmark,
      PackageExperiment, ExtractResults, Goto, End, Refuse, Exit, IInv, TypeOK
  <2>2. UNCHANGED <<recipe, contended>>
    BY <2>1 DEF EvaluateBenchmark, CheckPackage, Unset
  <2>3. Spoilt(recipe[c])' <=> Spoilt(recipe[c])
    BY <2>2 DEF Spoilt
  <2>4. CASE EvaluateBenchmark(c)
    <3>1. /\ pc[c] = "evaluate" /\ ran' = ran
      BY <2>4 DEF EvaluateBenchmark, Goto
    <3>2. /\ patch[PatchHome(recipe[c])] # None
          /\ used' = [used EXCEPT ![c] = patch[PatchHome(recipe[c])]]
      BY <1>1, <2>4, <3>1 DEF EvaluateBenchmark
    <3>3. patch[PatchHome(recipe[c])] \in OwnDiff(recipe[c]) \/ Spoilt(recipe[c])
      BY <1>1, <3>1, <3>2 DEF DiffReady
    <3> QED
      BY <2>2, <2>3, <3>2, <3>3 DEF IInv, TypeOK
  <2>5. CASE CheckPackage(c)
    <3>1. pc[c] = "package" /\ used' = used /\ ran' = ran
      BY <1>1, <2>5 DEF CheckPackage, Goto, Refuse, Exit, Running, IInv, TypeOK
    <3> QED
      BY <1>1, <2>2, <2>3, <3>1 DEF UsedOwnDiff
  <2> QED
    BY <2>1, <2>4, <2>5
<1>2. ASSUME NEW o \in Containers, o # c, pc'[o] \in {"package", "zip"}, ran'[o] = "runs"
      PROVE  used'[o] \in OwnDiff(recipe'[o]) \/ Spoilt(recipe[o])'
  <2>1. Rests(o) /\ recipe[o] \in Recipes
    BY <1>2, OthersRest DEF IInv, TypeOK
  <2>2. used[o] \in OwnDiff(recipe[o]) \/ Spoilt(recipe[o])
    BY <1>2, <2>1 DEF Rests, UsedOwnDiff
  <2> QED
    BY <2>1, <2>2, ContendedGrows DEF Rests, Spoilt
<1> QED
  BY <1>1, <1>2 DEF UsedOwnDiff, Spoilt, OwnDiff

\* A package holds what its container has judged.
LEMMA PackagedKept ==
  ASSUME IInv, UsedOwnDiff, PackagedOwnDiff, NEW c \in Containers, Step(c)
  PROVE  PackagedOwnDiff'
<1>0. \A n \in Names : zips[n] # None /\ zips[n].ran = "runs" =>
        zips[n].used \in OwnDiff(n[1]) \/ Spoilt(n[1])
  BY DEF PackagedOwnDiff, OwnDiff, Spoilt
<1>1. contended \subseteq contended'
  BY ContendedGrows
<1> SUFFICES ASSUME NEW n \in Names, zips'[n] # None, zips'[n].ran = "runs"
             PROVE  zips'[n].used \in OwnDiff(n[1]) \/ Spoilt(n[1])
  BY <1>1 DEF PackagedOwnDiff, OwnDiff, Spoilt
<1>2. CASE zips'[n] = zips[n]
  BY <1>0, <1>2
<1>3. CASE zips'[n] # zips[n]
  <2>1. PackageExperiment(c) /\ pc[c] = "zip" /\ n = name[c] /\ n[1] = recipe[c]
    BY <1>3, ZipsOthersStay
  <2>2. zips'[n] = [ran |-> ran[c], used |-> used[c]]
    BY <2>1 DEF PackageExperiment, IInv, TypeOK
  <2>3. ran[c] = "runs" /\ zips'[n].used = used[c]
    BY <2>2
  <2> QED
    BY <2>1, <2>3 DEF UsedOwnDiff
<1> QED
  BY <1>2, <1>3

\* The invariant about the diff holds throughout.
LEMMA DiffInductive == Spec => []DiffInv
<1>1. Init => DiffInv
  <2> SUFFICES ASSUME Init PROVE DiffInv
    OBVIOUS
  <2>1. SharedInv
    BY SharedInit
  <2>2. \A c \in Containers : pc[c] = "idle"
    BY DEF Init
  <2>3. PackagedOwnDiff
    BY DEF Init, PackagedOwnDiff
  <2> QED
    BY <2>1, <2>2, <2>3 DEF DiffInv, DiffTaken, DiffReady, UsedOwnDiff
<1>2. DiffInv /\ SharedInv' /\ [Next]_vars => DiffInv'
  <2> SUFFICES ASSUME DiffInv, SharedInv', [Next]_vars PROVE DiffInv'
    OBVIOUS
  <2>1. CASE UNCHANGED vars \/ Midnight
    <3>1. UNCHANGED <<pc, recipe, ran, used, patch, build, contended, zips>>
      BY <2>1 DEF vars, Midnight
    <3>2. DiffTaken'
      BY <3>1 DEF DiffInv, DiffTaken, Diff, Spoilt, PatchHome
    <3>3. DiffReady' /\ UsedOwnDiff' /\ PackagedOwnDiff'
      BY <3>1 DEF DiffInv, DiffReady, UsedOwnDiff, PackagedOwnDiff, Spoilt, OwnDiff, PatchHome
    <3> QED
      BY <3>2, <3>3 DEF DiffInv
  <2>2. ASSUME NEW c \in Containers, Step(c)
        PROVE  DiffInv'
    BY <2>2, DiffTakenKept, DiffReadyKept, UsedKept, PackagedKept DEF DiffInv, SharedInv
  <2> QED
    BY <2>1, <2>2 DEF Next
<1> QED
  BY <1>1, <1>2, SharedInductive, PTL DEF Spec

-----------------------------------------------------------------------------
(***************************************************************************)
(* The sanity check.                                                       *)
(***************************************************************************)

\* Who makes an experiment directory is at work in it.
LEMMA DirsGrow ==
  ASSUME IInv, NEW c \in Containers, Step(c), NEW n \in dirs' \ dirs
  PROVE  pc[c] # "idle" /\ n = name[c] /\ n[1] = recipe[c]
<1>1. MakeExperimentDir(c) \/ WriteDiff(c)
  BY DEF Step, Build, Start, Abort, PrepareSanityCheck, NameExperiment, SkipBuild, FindNoBuild,
    CleanBuild, CopyTarget, FinishBuild, RunBenchmark, EvaluateBenchmark, CheckPackage,
    PackageExperiment, ExtractResults
<1>2. n = name[c]
  BY <1>1 DEF MakeExperimentDir, WriteDiff
<1>3. pc[c] \in {"mkdir", "build"}
  BY <1>1 DEF MakeExperimentDir, WriteDiff, Goto, Refuse, Exit
<1> QED
  BY <1>2, <1>3 DEF IInv, Named, Owns

\* Two experiments with one recipe contend for the build that keeps the patch.
LEMMA SameRecipe ==
  ASSUME IInv, Apart, NEW c \in Containers, NEW o \in Containers, c # o,
         pc[c] # "idle", pc[o] # "idle", recipe[c] = recipe[o]
  PROVE  PatchHome(recipe[o]) \in contended
<1>1. recipe[o] \in Recipes
  BY DEF IInv, TypeOK
<1>2. PatchHome(recipe[o]) \in Builds /\ PatchHome(recipe[o]) \in Uses(recipe[o])
  BY <1>1, UsesType
<1> QED
  BY <1>2 DEF Apart, At

\* A directory that was removed, or found missing, stays so.
LEMMA UnblockedKept ==
  ASSUME SharedInv, Unblocked, NEW c \in Containers, Step(c)
  PROVE  Unblocked'
<1> USE DEF SharedInv
<1>0. contended \subseteq contended'
  BY ContendedGrows
<1>1. c \in refused' => pc'[c] = "idle"
  BY DEF Step, Build, Start, Abort, PrepareSanityCheck, NameExperiment, MakeExperimentDir,
    SkipBuild, FindNoBuild, CleanBuild, CopyTarget, FinishBuild, WriteDiff, RunBenchmark,
    EvaluateBenchmark, CheckPackage, PackageExperiment, ExtractResults, Goto, End, Refuse, Exit,
    Running, IInv, TypeOK, Unblocked
<1>2. ASSUME sanity'[c], pc'[c] = "start"
      PROVE  /\ sanity_name'[c] \in Names /\ sanity_name'[c][1] = recipe'[c]
             /\ sanity_name'[c] \notin dirs'
  <2>1. PrepareSanityCheck(c) \/ Start(c)
    BY <1>2 DEF Step, Build, Abort, NameExperiment, MakeExperimentDir, SkipBuild, FindNoBuild,
      CleanBuild, CopyTarget, FinishBuild, WriteDiff, RunBenchmark, EvaluateBenchmark,
      CheckPackage, PackageExperiment, ExtractResults, Goto, End, Refuse, Exit, IInv, TypeOK
  <2>2. ~Start(c)
    BY <1>2, Starting
  <2>3. /\ sanity_name'[c] = <<recipe[c], day>> /\ dirs' = dirs \ {<<recipe[c], day>>}
        /\ recipe' = recipe
    BY <2>1, <2>2 DEF PrepareSanityCheck, Unset, IInv, TypeOK
  <2>4. <<recipe[c], day>> \in Names
    BY NameType DEF IInv
  <2> QED
    BY <2>3, <2>4
<1>3. ASSUME pc'[c] = "mkdir"
      PROVE  name'[c] \notin dirs'
  <2>1. NameExperiment(c)
    BY <1>3 DEF Step, Build, Start, Abort, PrepareSanityCheck, MakeExperimentDir, SkipBuild,
      FindNoBuild, CleanBuild, CopyTarget, FinishBuild, WriteDiff, RunBenchmark,
      EvaluateBenchmark, CheckPackage, PackageExperiment, ExtractResults, Goto, End, Refuse, Exit,
      IInv, TypeOK
  <2> QED
    BY <1>3, <2>1 DEF NameExperiment, Goto, Refuse, Exit, IInv, TypeOK
<1>4. ASSUME NEW o \in Containers, o # c
      PROVE  /\ o \in refused' => pc'[o] = "idle"
             /\ sanity'[o] /\ pc'[o] = "start" =>
                  /\ sanity_name'[o] \in Names /\ sanity_name'[o][1] = recipe'[o]
                  /\ sanity_name'[o] \in dirs' => PatchHome(recipe'[o]) \in contended'
             /\ pc'[o] = "mkdir" /\ name'[o] \in dirs' => PatchHome(recipe'[o]) \in contended'
  <2>1. Rests(o)
    BY <1>4, OthersRest DEF IInv
  <2>2. /\ o \in refused => pc[o] = "idle"
        /\ sanity[o] /\ pc[o] = "start" =>
             /\ sanity_name[o] \in Names /\ sanity_name[o][1] = recipe[o]
             /\ sanity_name[o] \in dirs => PatchHome(recipe[o]) \in contended
        /\ pc[o] = "mkdir" /\ name[o] \in dirs => PatchHome(recipe[o]) \in contended
    BY DEF Unblocked
  <2>3. pc[o] = "mkdir" => name[o][1] = recipe[o]
    BY DEF IInv, Named
  <2>4. ASSUME pc[o] # "idle", NEW n \in dirs' \ dirs, n[1] = recipe[o]
        PROVE  PatchHome(recipe[o]) \in contended
    BY <1>4, <2>4, DirsGrow, SameRecipe
  <2>5. ASSUME sanity[o], pc[o] = "start", sanity_name[o] \in dirs'
        PROVE  PatchHome(recipe[o]) \in contended
    BY <2>2, <2>4, <2>5
  <2>6. ASSUME pc[o] = "mkdir", name[o] \in dirs'
        PROVE  PatchHome(recipe[o]) \in contended
    BY <2>2, <2>3, <2>4, <2>6
  <2>7. recipe'[o] = recipe[o]
    BY <2>1 DEF Rests
  <2> QED
    BY <1>0, <2>1, <2>2, <2>5, <2>6, <2>7 DEF Rests
<1>5. ASSUME NEW o \in Containers
      PROVE  /\ o \in refused' => pc'[o] = "idle"
             /\ sanity'[o] /\ pc'[o] = "start" =>
                  /\ sanity_name'[o] \in Names /\ sanity_name'[o][1] = recipe'[o]
                  /\ sanity_name'[o] \in dirs' => PatchHome(recipe'[o]) \in contended'
             /\ pc'[o] = "mkdir" /\ name'[o] \in dirs' => PatchHome(recipe'[o]) \in contended'
  BY <1>1, <1>2, <1>3, <1>4
<1> QED
  BY <1>5 DEF Unblocked, PatchHome, Names, Days

\* Who is refused has named the experiment.
LEMMA RefusedKept ==
  ASSUME SharedInv, RefusedNamed, Unblocked, NEW c \in Containers, Step(c)
  PROVE  RefusedNamed'
<1> USE DEF SharedInv
<1>1. ASSUME c \in refused'
      PROVE  name'[c] \in Names
  <2>1. pc[c] # "idle"
    <3>1. ~Start(c)
      BY <1>1, Starting
    <3> QED
      BY <3>1 DEF Step, Build, Abort, PrepareSanityCheck, NameExperiment, MakeExperimentDir,
        SkipBuild, FindNoBuild, CleanBuild, CopyTarget, FinishBuild, WriteDiff, RunBenchmark,
        EvaluateBenchmark, CheckPackage, PackageExperiment, ExtractResults, Goto, End, Refuse, Exit
  <2>2. c \notin refused
    BY <2>1 DEF Unblocked
  <2>3. \/ NameExperiment(c)
        \/ (MakeExperimentDir(c) \/ CheckPackage(c) \/ ExtractResults(c)) /\ name' = name
    BY <1>1, <2>1, <2>2 DEF Step, Build, Start, Abort, PrepareSanityCheck, NameExperiment,
      MakeExperimentDir, SkipBuild, FindNoBuild, CleanBuild, CopyTarget, FinishBuild, WriteDiff,
      RunBenchmark, EvaluateBenchmark, CheckPackage, PackageExperiment, ExtractResults, End, Running
  <2>4. CASE NameExperiment(c)
    BY <2>4, NameType DEF NameExperiment, IInv, TypeOK
  <2>5. CASE (MakeExperimentDir(c) \/ CheckPackage(c) \/ ExtractResults(c)) /\ name' = name
    <3>1. pc[c] \in {"mkdir", "package", "extract"}
      BY <2>5 DEF MakeExperimentDir, CheckPackage, ExtractResults, Goto, End, Refuse, Exit
    <3> QED
      BY <2>5, <3>1 DEF IInv, Named, Owns
  <2> QED
    BY <2>3, <2>4, <2>5
<1>2. ASSUME NEW o \in Containers, o # c, o \in refused'
      PROVE  name'[o] \in Names
  <2>1. Rests(o)
    BY <1>2, OthersRest DEF IInv
  <2> QED
    BY <1>2, <2>1 DEF Rests, RefusedNamed
<1>3. refused' \subseteq Containers
  BY TypeKept DEF TypeOK
<1> QED
  BY <1>1, <1>2, <1>3 DEF RefusedNamed, Names, Days

\* Each of the four ways to be refused.
LEMMA SanityKept ==
  ASSUME SharedInv, RefusedNamed, Unblocked, SanityNotBlocked, NEW c \in Containers, Step(c)
  PROVE  SanityNotBlocked'
<1> USE DEF SharedInv
<1>0. contended \subseteq contended'
  BY ContendedGrows
<1>1. ASSUME sanity'[c], c \in refused'
      PROVE  zips'[name'[c]] # None \/ sanity_name'[c] # name'[c] \/ PatchHome(recipe'[c]) \in contended'
  <2>1. pc[c] # "idle"
    <3>1. ~Start(c)
      BY <1>1, Starting
    <3> QED
      BY <3>1 DEF Step, Build, Abort, PrepareSanityCheck, NameExperiment, MakeExperimentDir,
        SkipBuild, FindNoBuild, CleanBuild, CopyTarget, FinishBuild, WriteDiff, RunBenchmark,
        EvaluateBenchmark, CheckPackage, PackageExperiment, ExtractResults, Goto, End, Refuse, Exit
  <2>2. c \notin refused
    BY <2>1 DEF Unblocked
  <2>3. \/ NameExperiment(c) /\ Refuse(c, "start") /\ <<recipe[c], day>> \in dirs
        \/ MakeExperimentDir(c) /\ Refuse(c, "mkdir") /\ name[c] \in dirs
        \/ CheckPackage(c) /\ Refuse(c, "package") /\ zips[name[c]] # None
        \/ ExtractResults(c) /\ Refuse(c, "extract") /\ name' = name
    BY <1>1, <2>1, <2>2 DEF Step, Build, Start, Abort, PrepareSanityCheck, NameExperiment,
      MakeExperimentDir, SkipBuild, FindNoBuild, CleanBuild, CopyTarget, FinishBuild, WriteDiff,
      RunBenchmark, EvaluateBenchmark, CheckPackage, PackageExperiment, ExtractResults, End, Running
  <2>4. UNCHANGED <<recipe, sanity, contended, sanity_name, zips>>
    BY <2>3 DEF NameExperiment, MakeExperimentDir, CheckPackage, ExtractResults, Refuse, Unset
  <2>5. CASE NameExperiment(c) /\ Refuse(c, "start") /\ <<recipe[c], day>> \in dirs
    <3>1. pc[c] = "start" /\ name'[c] = <<recipe[c], day>>
      BY <2>5 DEF NameExperiment, Refuse, Exit, Goto, IInv, TypeOK
    <3>2. sanity_name[c] \in dirs => PatchHome(recipe[c]) \in contended
      BY <1>1, <2>4, <3>1 DEF Unblocked
    <3> QED
      BY <2>4, <2>5, <3>1, <3>2
  <2>6. CASE MakeExperimentDir(c) /\ Refuse(c, "mkdir") /\ name[c] \in dirs
    BY <2>4, <2>6 DEF Refuse, Exit, Goto, Unblocked
  <2>7. CASE CheckPackage(c) /\ Refuse(c, "package") /\ zips[name[c]] # None
    BY <2>4, <2>7 DEF CheckPackage
  <2>8. CASE ExtractResults(c) /\ Refuse(c, "extract") /\ name' = name
    BY <2>4, <2>8 DEF Refuse, Exit, Goto, IInv, Judged
  <2> QED
    BY <2>3, <2>5, <2>6, <2>7, <2>8
<1>2. ASSUME NEW o \in Containers, o # c, sanity'[o], o \in refused'
      PROVE  zips'[name'[o]] # None \/ sanity_name'[o] # name'[o] \/ PatchHome(recipe'[o]) \in contended'
  <2>1. Rests(o)
    BY <1>2, OthersRest DEF IInv
  <2>2. sanity[o] /\ o \in refused /\ name'[o] = name[o] /\ sanity_name'[o] = sanity_name[o]
          /\ recipe'[o] = recipe[o]
    BY <1>2, <2>1 DEF Rests
  <2>3. zips[name[o]] # None \/ sanity_name[o] # name[o] \/ PatchHome(recipe[o]) \in contended
    BY <2>2 DEF SanityNotBlocked
  <2>4. zips[name[o]] # None => zips'[name[o]] # None
    <3>1. CASE name[o] \in Names
      BY <3>1, ZipsStay
    <3>2. CASE name[o] \notin Names
      BY <2>2, <3>2 DEF RefusedNamed
    <3> QED
      BY <3>1, <3>2
  <2> QED
    BY <1>0, <2>2, <2>3, <2>4
<1> QED
  BY <1>1, <1>2 DEF SanityNotBlocked, PatchHome

\* The sanity check: the invariant holds throughout.
LEMMA SanityInductive == Spec => []SanityInv
<1>1. Init => SanityInv
  BY SharedInit DEF Init, SanityInv, RefusedNamed, Unblocked, SanityNotBlocked
<1>2. SanityInv /\ SharedInv' /\ [Next]_vars => SanityInv'
  <2> SUFFICES ASSUME SanityInv, SharedInv', [Next]_vars PROVE SanityInv'
    OBVIOUS
  <2>1. CASE UNCHANGED vars \/ Midnight
    <3>1. UNCHANGED <<pc, recipe, sanity, name, sanity_name, refused, dirs, zips, contended>>
      BY <2>1 DEF vars, Midnight
    <3>2. RefusedNamed' /\ Unblocked' /\ SanityNotBlocked'
      BY <3>1 DEF SanityInv, RefusedNamed, Unblocked, SanityNotBlocked, PatchHome, Names, Days
    <3> QED
      BY <3>2 DEF SanityInv
  <2>2. ASSUME NEW c \in Containers, Step(c)
        PROVE  SanityInv'
    BY <2>2, RefusedKept, UnblockedKept, SanityKept DEF SanityInv
  <2> QED
    BY <2>1, <2>2 DEF Next
<1> QED
  BY <1>1, <1>2, SharedInductive, PTL DEF Spec

-----------------------------------------------------------------------------
(***************************************************************************)
(* The theorems.                                                           *)
(***************************************************************************)

\* The state of the containers and of their volume is well formed.
THEOREM TypeCorrect == Spec => []TypeOK
<1>1. IInv => TypeOK
  BY DEF IInv
<1> QED
  BY <1>1, Inductive, PTL

\* However many containers run run.sh and run-sanity-check.sh: no two of them
\* work in the experiment directory of a recipe that no sanity check uses;
\* the mkdir of run.sh is what decides between containers that have both
\* found no directory.
THEOREM DirIsExclusive == Spec => []DirExclusive
<1>1. IInv => DirExclusive
  BY DEF IInv
<1> QED
  BY <1>1, Inductive, PTL

\* However many containers run run.sh, its check for a package of that name
\* and the zip after it act as one step: a package once written stays as it
\* is, unless its recipe is one that sanity checks use.
THEOREM PackagesAreKept == Spec => PackagesKept
<1>1. IInv /\ NoPackageYet /\ [Next]_vars =>
        [\A n \in Names : zips[n] # None /\ n[1] \notin SanityRecipes => zips'[n] = zips[n]]_vars
  <2> SUFFICES ASSUME IInv, NoPackageYet, [Next]_vars,
                      NEW n \in Names, zips[n] # None, n[1] \notin SanityRecipes
               PROVE  zips'[n] = zips[n]
    OBVIOUS
  <2>1. CASE UNCHANGED vars \/ Midnight
    BY <2>1 DEF vars, Midnight
  <2>2. ASSUME NEW c \in Containers, Step(c), zips'[n] # zips[n]
        PROVE  FALSE
    <3>1. pc[c] = "zip" /\ n = name[c] /\ n[1] = recipe[c]
      BY <2>2, ZipsOthersStay
    <3> QED
      BY <3>1 DEF NoPackageYet
  <2> QED
    BY <2>1, <2>2 DEF Next
<1> QED
  BY <1>1, Inductive, NoPackageInductive, PTL DEF Spec, PackagesKept

\* However many containers there are, whatever was aborted or left half
\* built: run.sh packages results that were computed with the diff between
\* the finished sources of its own two versions (as far as git diff wrote
\* it), unless experiments contended for one of the two builds.
THEOREM OwnDiffPackaged == Spec => []PackagedOwnDiff
<1>1. DiffInv => PackagedOwnDiff
  BY DEF DiffInv
<1> QED
  BY <1>1, DiffInductive, PTL

\* However many containers there are: run-sanity-check.sh is refused only
\* because of a package of that name, because it went on past midnight, or
\* because experiments kept their patch in its coverage build at a time.
THEOREM SanityIsNotBlocked == Spec => []SanityNotBlocked
<1>1. SanityInv => SanityNotBlocked
  BY DEF SanityInv
<1> QED
  BY <1>1, SanityInductive, PTL
==============================================================================
