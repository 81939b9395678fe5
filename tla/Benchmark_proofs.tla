--------------------------- MODULE Benchmark_proofs ---------------------------
(***************************************************************************)
(* Proofs about Benchmark: type correctness, and, for every number of runs *)
(* and of invocations, that a run directory holds the output of its own    *)
(* run (OwnOutputs) and that run() clears an empty scratch directory.      *)
(***************************************************************************)
EXTENDS Benchmark, TLAPS

(***************************************************************************)
(* The statements of run() from a given point on, last statement first.    *)
(***************************************************************************)
Storing      == {"store", "unlink"}
PastFilterS  == Storing \cup {"coverage"}
PastFilterP  == PastFilterS \cup {"filter-s"}
PastFilter   == PastFilterP \cup {"filter-p"}
PastNaive    == PastFilter \cup {"filter"}
PastSelected == PastNaive \cup {"naive"}
PastPoisonedSim == PastSelected \cup {"simulate-s", "keep-sim-s"}
PastNormalSim   == PastPoisonedSim \cup {"simulate-p", "keep-sim-p"}
PastQueue    == PastNormalSim \cup {"simulate", "keep-sim"}
PastSource   == PastQueue \cup {"keep-queue"}
PastSelect   == PastSource \cup {"source", "keep-source"}
PastPoison   == PastSelect \cup {"select"}
PastCorpus   == PastPoison \cup {"poison"}
InRun        == PastCorpus \cup {"calibrate", "keep-rosa", "keep-fuzzer", "corpus"}

\* Directories that a move or a copytree brings about: the ones in which an
\* old directory could survive.
Carried == {"rosa-source-out", "fuzzer-source-out", "lily-corpus-out",
            "lily-corpus-poisoned-out", "lily-corpus-selective-poisoned-out"}

\* Content c is what run e may store as d.
OwnContent(e, d, c) ==
  /\ c.by # 0
  /\ d \notin Calibration => c.by = e
  /\ d \in SourceData => c.from = {e}

-----------------------------------------------------------------------------
(***************************************************************************)
(* The inductive invariant.                                                *)
(***************************************************************************)

\* A tool that has just succeeded left its output where it always writes.
Fresh ==
  /\ pc \in {"keep-rosa", "keep-source", "keep-sim", "keep-sim-p", "keep-sim-s"} =>
       scratch["rosa-out"].by = epoch
  /\ pc \in {"keep-rosa", "keep-source"} => scratch["rosa-out"].from = {epoch}
  /\ pc \in {"keep-source", "keep-queue"} =>
       scratch["fuzzer-out"].by = epoch /\ scratch["fuzzer-out"].from = {epoch}

\* Outside the part of a run that works with it, no variant of an earlier
\* run is in the scratch directory unless one of the two directories that
\* stop the next run is there as well.
Guarded ==
  pc \notin PastCorpus =>
    /\ (\E d \in Carried : Present(d)) => Present("naive-diff-out") \/ Present("phase-one-corpus")
    /\ scratch["coverage-data"].residue => Present("phase-one-corpus")

\* Past the corpus either an old naive-diff-out will stop the run, or every
\* variant is the run's own, in place from its own statement on.
InPlace(d, since) == pc \in since => scratch[d].by = epoch
Variant(d, since) == scratch[d].by = IF pc \in since THEN epoch ELSE 0
OwnVariants ==
  /\ Variant("rosa-source-out", PastSource)
  /\ Variant("fuzzer-source-out", PastQueue)
  /\ Variant("lily-corpus-out", PastNormalSim)
  /\ Variant("lily-corpus-poisoned-out", PastPoisonedSim)
  /\ Variant("lily-corpus-selective-poisoned-out", PastSelected)
  /\ pc \in PastSource => scratch["rosa-source-out"].from = {epoch}
  /\ pc \in PastQueue => scratch["fuzzer-source-out"].from = {epoch}
Own ==
  pc \in PastCorpus \ Storing =>
    /\ ~scratch["coverage-data"].residue
    /\ InPlace("phase-one-corpus", PastCorpus)
    /\ InPlace("phase-one-corpus-poisoned", PastPoison)
    /\ InPlace("phase-one-corpus-selective-poisoned", PastSelect)
    /\ InPlace("naive-diff-out", PastNaive)
    /\ InPlace("lily-out", PastFilter)
    /\ InPlace("lily-poisoned-out", PastFilterP)
    /\ InPlace("lily-selective-poisoned-out", PastFilterS)
    /\ pc \in PastNaive => scratch["naive-diff-out"].from = {epoch}
    /\ OwnVariants \/ (pc \notin PastNaive /\ Present("naive-diff-out"))

\* While the directories are moved to run_dir: the ones still to come are
\* there and are the run's own.
Handover ==
  pc \in Storing =>
    /\ ~scratch["coverage-data"].residue
    /\ \A j \in 1 .. 15 :
         IF j > moved THEN OwnContent(epoch, StoreList[j], scratch[StoreList[j]])
                      ELSE ~Present(StoreList[j])

\* The run's own calibration directory is in place, maybe inside an old one.
CalibrationThere ==
  pc \in (PastCorpus \cup {"keep-fuzzer", "corpus"}) \ Storing => Present("rosa-out-phase-one")

FuzzerThere ==
  /\ pc \in (PastCorpus \cup {"corpus"}) \ Storing => Present("fuzzer-out-phase-one")
  /\ pc \in {"keep-rosa", "keep-fuzzer"} => Present("fuzzer-out")

StoredOwn ==
  \A e \in Epochs : \A d \in Outputs :
    stored[e][d].by # 0 => OwnContent(e, d, stored[e][d])

Started ==
  /\ pc \in InRun \cup {"clear"} => epoch # 0 /\ run < Runs
  /\ pc = "unlink" => moved < 15
NothingMoved == pc \in InRun \ Storing => moved = 0

\* The tools' own output directories are empty-handed once the last of their
\* results has been renamed, and all is gone when the last move is done.
Drained ==
  /\ pc \in PastQueue \cup {"clear"} => ~Present("fuzzer-out")
  /\ pc \in PastSelected \cup {"simulate-s", "clear"} => ~Present("rosa-out")
  /\ pc = "clear" => \A d \in Outputs : ~Present(d)

Pipeline ==
  /\ Fresh
  /\ Guarded
  /\ Own
  /\ CalibrationThere
  /\ FuzzerThere
  /\ Started
  /\ NothingMoved
  /\ Drained

\* OwnOutputs by itself is not inductive: it says nothing of the scratch
\* directory the stored content comes from.  The parts above do.
IInv == TypeOK /\ Pipeline /\ Handover /\ StoredOwn

(***************************************************************************)
(* What ContaminationShows needs in addition.                              *)
(***************************************************************************)

\* A calibration directory that a run finds is older than the run.
CalibrationDated ==
  /\ scratch["rosa-out-phase-one"].from \subseteq 1 .. epoch
  /\ pc \in {"calibrate", "keep-rosa"} => epoch \notin scratch["rosa-out-phase-one"].from
  /\ pc = "keep-rosa" => ~scratch["rosa-out"].residue

\* The calibration directory that a run uses is its own or has the run's own
\* one inside; the corpus is made from it.
CalibrationMarked ==
  pc \in PastCorpus \cup {"keep-fuzzer", "corpus"} /\ moved = 0 =>
    (scratch["rosa-out-phase-one"].from = {epoch} <=> ~scratch["rosa-out-phase-one"].residue)
CorpusTraced ==
  pc \in PastCorpus /\ moved = 0 =>
    scratch["phase-one-corpus"].from = scratch["rosa-out-phase-one"].from

\* Between the move of the calibration directory, the first one, and the
\* move of the corpus, the third one, the run directory has the mark.
MarkStored ==
  /\ pc = "unlink" /\ moved = 0 =>
       stored[epoch]["rosa-out-phase-one"] = scratch["rosa-out-phase-one"]
  /\ pc \in Storing /\ moved \in {1, 2} =>
       (scratch["phase-one-corpus"].from = {epoch} <=> ~stored[epoch]["rosa-out-phase-one"].residue)

\* A run directory has no corpus before the run comes to its third move.
CorpusNotStored ==
  \A e \in Epochs :
    e > epoch \/ (e = epoch /\ pc \in InRun /\ moved < 2) => stored[e]["phase-one-corpus"].by = 0

Traced ==
  /\ CalibrationDated
  /\ CalibrationMarked
  /\ CorpusTraced
  /\ MarkStored
  /\ CorpusNotStored
  /\ ContaminationShows

\* From an invocation that ended with a corpus in the scratch directory on.
Blocked ==
  /\ Present("phase-one-corpus")
  /\ pc \in Ended \cup {"loop", "calibrate", "keep-rosa", "keep-fuzzer", "corpus"}

-----------------------------------------------------------------------------
(***************************************************************************)
(* Lemmas about the directories, their content and the calls.              *)
(***************************************************************************)

\* The list of the last loop of run() has the fifteen directories of a run.
LEMMA StoreListType == /\ Len(StoreList) = 15
                       /\ \A j \in 1 .. 15 : StoreList[j] \in Outputs
BY DEF StoreList, Outputs

\* No directory is stored twice.
LEMMA StoreListOneToOne == \A j, k \in 1 .. 15 : StoreList[j] = StoreList[k] => j = k
BY DEF StoreList

\* No directory is forgotten.
LEMMA StoreListOnto == \A d \in Outputs : \E j \in 1 .. 15 : StoreList[j] = d
BY DEF StoreList, Outputs

\* What a run stores is among the directories of the scratch directory.
LEMMA DirsHave == Outputs \subseteq Dirs /\ "rosa-out" \in Dirs /\ "fuzzer-out" \in Dirs
BY DEF Dirs

\* A missing directory is a legal content.
LEMMA AbsentType == Absent \in Content
BY MaxEpochsAssumption DEF Absent, Content

\* So is what a call writes afresh.
LEMMA WrittenType ==
  ASSUME TypeOK, NEW src \in SUBSET Epochs
  PROVE  Written(src) \in Content
BY DEF TypeOK, Written, Content

\* The fields of a content.
LEMMA ContentFields ==
  ASSUME NEW c \in Content
  PROVE  /\ c.by \in 0 .. MaxEpochs /\ c.from \in SUBSET Epochs /\ c.residue \in BOOLEAN
BY DEF Content

\* Marking a directory as left over keeps its type.
LEMMA ResidueType ==
  ASSUME NEW c \in Content
  PROVE  [c EXCEPT !.residue = TRUE] \in Content
BY DEF Content

\* The runs that the content of a directory comes from are runs.
LEMMA FromType ==
  ASSUME TypeOK, NEW d \in Dirs
  PROVE  scratch[d].from \in SUBSET Epochs
BY ContentFields DEF TypeOK

\* The current run is a run.
LEMMA EpochType ==
  ASSUME TypeOK, epoch # 0
  PROVE  epoch \in Epochs /\ {epoch} \in SUBSET Epochs
BY MaxEpochsAssumption DEF TypeOK, Epochs

\* A call of a ROSA tool keeps the types, whether it succeeds or dies.
LEMMA ToolType ==
  ASSUME TypeOK, NEW from, NEW to \in Running, NEW outs, NEW src \in SUBSET Epochs,
         Tool(from, to, outs, src)
  PROVE  TypeOK'
<1>1. Written(src) \in Content
  BY WrittenType
<1>2. pc' \in Ended \cup Running
  BY DEF Tool, ToolSucceeds, ToolDies, Goto, RaiseOrInterrupt, Ended
<1>3. scratch' \in [Dirs -> Content]
  BY <1>1 DEF Tool, ToolSucceeds, ToolDies, TypeOK
<1> QED
  BY <1>2, <1>3 DEF TypeOK, Tool, ToolSucceeds, ToolDies

\* So does shutil.move(), by renaming or by moving into a directory.
LEMMA MoveType ==
  ASSUME TypeOK, NEW from, NEW to \in Running, NEW src \in Dirs, NEW dst \in Dirs,
         Move(from, to, src, dst)
  PROVE  TypeOK'
<1>1. pc' \in Ended \cup Running
  BY DEF Move, Goto, Raise, Ended
<1>2. scratch' \in [Dirs -> Content]
  <2>1. scratch \in [Dirs -> Content] /\ scratch[dst] \in Content /\ scratch[src] \in Content
    BY DEF TypeOK
  <2>2. CASE scratch' = [scratch EXCEPT ![dst] = scratch[src], ![src] = Absent]
    BY <2>1, <2>2, AbsentType
  <2>3. CASE scratch' = [scratch EXCEPT ![dst].residue = TRUE, ![src] = Absent]
    BY <2>1, <2>3, AbsentType, ResidueType
  <2> QED
    BY <2>1, <2>2, <2>3 DEF Move
<1> QED
  BY <1>1, <1>2 DEF TypeOK, Move

\* So does os.makedirs(), which refuses an existing directory.
LEMMA NewDirType ==
  ASSUME TypeOK, NEW from, NEW to \in Running, NEW d \in Dirs, NEW src \in SUBSET Epochs,
         NewDir(from, to, d, src)
  PROVE  TypeOK'
<1>1. CASE Tool(from, to, {d}, src)
  BY <1>1, ToolType
<1>2. CASE Raise(from) /\ UNCHANGED <<run, epoch, scratch, stored, moved>>
  BY <1>2 DEF TypeOK, Raise, Goto, Ended
<1> QED
  BY <1>1, <1>2 DEF NewDir

\* What a call writes is the run's own, from the sources it reads.
LEMMA WrittenFields ==
  ASSUME NEW src
  PROVE  /\ Written(src).by = epoch
         /\ Written(src).from = src
         /\ Written(src).residue = FALSE
BY DEF Written

\* What a call does to the scratch directory, directory by directory.
ToolEffect(to, outs, src) ==
  /\ pc' \in {to, "failed", "interrupted"}
  /\ UNCHANGED <<run, epoch, stored, moved>>
  /\ \A d \in Dirs \ outs : scratch'[d] = scratch[d]
  /\ \A d \in Dirs : d \in outs =>
       \/ scratch'[d].by = epoch /\ scratch'[d].from = src /\ scratch'[d].residue = FALSE
       \/ scratch'[d] = scratch[d] /\ pc' # to

MoveEffect(to, src, dst) ==
  /\ pc' \in {to, "failed"}
  /\ UNCHANGED <<run, epoch, stored, moved>>
  /\ \A d \in Dirs \ {src, dst} : scratch'[d] = scratch[d]
  /\ pc' # to => scratch'[src] = scratch[src] /\ scratch'[dst] = scratch[dst]
  /\ pc' = to => /\ scratch'[src] = Absent
                 /\ ~Present(dst) => scratch'[dst] = scratch[src]
                 /\ Present(dst) => scratch'[dst].by = scratch[dst].by
                                    /\ scratch'[dst].from = scratch[dst].from

\* The effect of a tool: one directory, and who wrote it.
LEMMA ToolStep ==
  ASSUME NEW from, NEW to \in Running, NEW outs, NEW src, Tool(from, to, outs, src)
  PROVE  pc = from /\ ToolEffect(to, outs, src)
<1>1. to \notin {"failed", "interrupted"}
  BY DEF Running
<1>2. CASE ToolSucceeds(from, to, outs, src)
  BY <1>2, WrittenFields DEF ToolSucceeds, Goto, ToolEffect
<1>3. CASE ToolDies(from, outs, src)
  <2>1. PICK part \in SUBSET outs :
          scratch' = [d \in Dirs |-> IF d \in part THEN Written(src) ELSE scratch[d]]
    BY <1>3 DEF ToolDies
  <2>2. /\ \A d \in Dirs \ outs : scratch'[d] = scratch[d]
        /\ \A d \in Dirs : scratch'[d] \in {scratch[d], Written(src)}
    BY <2>1
  <2> QED
    BY <1>1, <1>3, <2>2, WrittenFields DEF ToolDies, RaiseOrInterrupt, ToolEffect
<1> QED
  BY <1>2, <1>3 DEF Tool

\* The effect of a move: a missing target is then the source.
LEMMA MoveStep ==
  ASSUME TypeOK, NEW from, NEW to \in Running, NEW src \in Dirs, NEW dst \in Dirs, src # dst,
         Move(from, to, src, dst)
  PROVE  pc = from /\ MoveEffect(to, src, dst)
<1>1. to # "failed"
  BY DEF Running
<1>2. scratch \in [Dirs -> Content] /\ scratch[dst] \in Content /\ scratch[src] \in Content
  BY DEF TypeOK
<1>3. CASE /\ Goto(from, to)
           /\ ~Present(dst)
           /\ scratch' = [scratch EXCEPT ![dst] = scratch[src], ![src] = Absent]
  BY <1>1, <1>2, <1>3 DEF Move, MoveEffect, Goto
<1>4. CASE /\ Goto(from, to)
           /\ Present(dst)
           /\ scratch' = [scratch EXCEPT ![dst].residue = TRUE, ![src] = Absent]
  <2>1. [scratch[dst] EXCEPT !.residue = TRUE].by = scratch[dst].by
    BY <1>2 DEF Content
  <2>2. [scratch[dst] EXCEPT !.residue = TRUE].from = scratch[dst].from
    BY <1>2 DEF Content
  <2>3. /\ scratch'[dst] = [scratch[dst] EXCEPT !.residue = TRUE]
        /\ scratch'[src] = Absent
        /\ \A d \in Dirs \ {src, dst} : scratch'[d] = scratch[d]
    BY <1>2, <1>4
  <2> QED
    BY <1>1, <1>4, <2>1, <2>2, <2>3 DEF Move, MoveEffect, Goto
<1>5. CASE Raise(from) /\ UNCHANGED scratch
  BY <1>1, <1>5 DEF Move, MoveEffect, Goto, Raise
<1> QED
  BY <1>3, <1>4, <1>5 DEF Move

\* The effect of os.makedirs().
LEMMA NewDirStep ==
  ASSUME TypeOK, NEW from, NEW to \in Running, NEW d \in Dirs, NEW src,
         NewDir(from, to, d, src)
  PROVE  /\ pc = from
         /\ ToolEffect(to, {d}, src)
         /\ pc' = to => ~Present(d)
<1>1. to # "failed"
  BY DEF Running
<1>2. CASE ~Present(d) /\ Tool(from, to, {d}, src)
  BY <1>2, ToolStep
<1>3. CASE Raise(from) /\ UNCHANGED <<run, epoch, scratch, stored, moved>>
  BY <1>1, <1>3 DEF Raise, Goto, ToolEffect
<1> QED
  BY <1>2, <1>3 DEF NewDir

-----------------------------------------------------------------------------
(***************************************************************************)
(* Type correctness.                                                       *)
(***************************************************************************)

CoverageSource ==
  scratch["fuzzer-source-out"].from \cup
    (IF scratch["coverage-data"].residue THEN scratch["coverage-data"].from ELSE {})

\* Collecting coverage keeps the types.
LEMMA CoverageType ==
  ASSUME TypeOK, CollectCoverage
  PROVE  TypeOK'
<1>1. CoverageSource \in SUBSET Epochs
  BY FromType, DirsHave DEF CoverageSource, Outputs
<1>2. CASE ToolSucceeds("coverage", "store", {"coverage-data"}, CoverageSource)
  BY <1>1, <1>2, ToolType DEF Tool, Running
<1>3. CASE /\ RaiseOrInterrupt("coverage")
           /\ scratch' = [scratch EXCEPT !["coverage-data"] =
                            [by |-> epoch, from |-> CoverageSource, residue |-> TRUE]]
           /\ UNCHANGED <<run, epoch, stored, moved>>
  <2>1. [by |-> epoch, from |-> CoverageSource, residue |-> TRUE] \in Content
    BY <1>1 DEF Content, TypeOK
  <2> QED
    BY <1>3, <2>1 DEF TypeOK, RaiseOrInterrupt, Ended
<1> QED
  BY <1>2, <1>3 DEF CollectCoverage, CoverageSource

\* A simulated variant keeps the types.
LEMMA SimulateType ==
  ASSUME TypeOK, NEW from, NEW to \in Running, NEW corpus \in Dirs, Simulate(from, to, corpus)
  PROVE  TypeOK'
<1>1. scratch["rosa-source-out"].from \cup scratch[corpus].from \in SUBSET Epochs
  BY FromType, DirsHave DEF Outputs
<1> QED
  BY <1>1, ToolType DEF Simulate

\* Every call of construct_phase_one_corpus() and run() keeps the types.
LEMMA CallType ==
  ASSUME TypeOK, Started, Construct \/ Variants
  PROVE  TypeOK'
<1> USE DirsHave DEF Outputs, Running
<1>1. CASE CalibrationRun
  <2>1. epoch # 0
    BY <1>1 DEF Started, InRun, PastCorpus, PastPoison, PastSelect, CalibrationRun, Tool,
                ToolSucceeds, ToolDies, Goto, RaiseOrInterrupt
  <2> QED
    BY <1>1, <2>1, ToolType, EpochType DEF CalibrationRun
<1>2. CASE KeepCalibrationRosa
  BY <1>2, MoveType DEF KeepCalibrationRosa
<1>3. CASE KeepCalibrationFuzzer
  BY <1>3, MoveType DEF KeepCalibrationFuzzer
<1>4. CASE NormalCorpus
  BY <1>4, NewDirType, FromType DEF NormalCorpus
<1>5. CASE PoisonedCorpus
  BY <1>5, NewDirType, FromType DEF PoisonedCorpus
<1>6. CASE SelectiveCorpus
  <2>1. scratch["rosa-out-phase-one"].from \in SUBSET Epochs
    BY FromType
  <2>2. scratch["phase-one-corpus-poisoned"].from \in SUBSET Epochs
    BY FromType
  <2>3. scratch["rosa-out-phase-one"].from \cup scratch["phase-one-corpus-poisoned"].from
          \in SUBSET Epochs
    BY <2>1, <2>2
  <2> QED
    BY <1>6, <2>3, NewDirType DEF SelectiveCorpus
<1>7. CASE SourceRun
  <2>1. epoch # 0
    BY <1>7 DEF Started, InRun, PastCorpus, PastPoison, PastSelect, SourceRun, Tool,
                ToolSucceeds, ToolDies, Goto, RaiseOrInterrupt
  <2> QED
    BY <1>7, <2>1, ToolType, EpochType DEF SourceRun
<1>8. CASE KeepSource
  BY <1>8, MoveType DEF KeepSource
<1>9. CASE KeepQueue
  BY <1>9, MoveType DEF KeepQueue
<1>10. CASE SimulateNormal
  BY <1>10, SimulateType DEF SimulateNormal
<1>11. CASE KeepNormal
  BY <1>11, MoveType DEF KeepNormal
<1>12. CASE SimulatePoisoned
  BY <1>12, SimulateType DEF SimulatePoisoned
<1>13. CASE KeepPoisoned
  BY <1>13, MoveType DEF KeepPoisoned
<1>14. CASE SimulateSelective
  BY <1>14, SimulateType DEF SimulateSelective
<1>15. CASE KeepSelective
  BY <1>15, MoveType DEF KeepSelective
<1>16. CASE NaiveDiff
  BY <1>16, NewDirType, FromType DEF NaiveDiff
<1>17. CASE FilterNormal
  BY <1>17, ToolType, FromType DEF FilterNormal
<1>18. CASE FilterPoisoned
  BY <1>18, ToolType, FromType DEF FilterPoisoned
<1>19. CASE FilterSelective
  BY <1>19, ToolType, FromType DEF FilterSelective
<1>20. CASE FallBackOnSource
  BY <1>20 DEF FallBackOnSource, TypeOK, Goto, Raise, Ended
<1>21. CASE CollectCoverage
  BY <1>21, CoverageType
<1> QED
  BY <1>1, <1>2, <1>3, <1>4, <1>5, <1>6, <1>7, <1>8, <1>9, <1>10, <1>11, <1>12, <1>13, <1>14,
      <1>15, <1>16, <1>17, <1>18, <1>19, <1>20, <1>21 DEF Construct, Variants

\* The rest of the script keeps the types.
LEMMA ControlType ==
  ASSUME TypeOK, Started, Invoke \/ StartRun \/ Finish \/ Interrupt \/ Storage
  PROVE  TypeOK'
<1>1. CASE Invoke
  BY <1>1, RunsAssumption DEF Invoke, TypeOK, Running
<1>2. CASE StartRun
  BY <1>2, MaxEpochsAssumption, StoreListType DEF StartRun, Goto, TypeOK, Running
<1>3. CASE Finish
  BY <1>3 DEF Finish, Goto, TypeOK, Ended
<1>4. CASE Interrupt
  BY <1>4 DEF Interrupt, TypeOK, Ended
<1>5. CASE StoreCopy
  <2>1. /\ moved + 1 \in 1 .. 15 /\ epoch # 0 /\ pc = "store"
        /\ StoreList[moved + 1] \in Outputs
    BY <1>5, StoreListType DEF StoreCopy, Raise, Goto, TypeOK, Started, InRun, PastCorpus,
       PastPoison, PastSelect, PastSource, PastQueue, PastNormalSim, PastPoisonedSim,
       PastSelected, PastNaive, PastFilter, PastFilterP, PastFilterS, Storing
  <2>2. scratch[StoreList[moved + 1]] \in Content
    BY <2>1, DirsHave DEF TypeOK
  <2>3. stored' \in [Epochs -> [Outputs -> Content]]
    BY <1>5, <2>1, <2>2, EpochType DEF StoreCopy, TypeOK
  <2> QED
    BY <1>5, <2>3 DEF StoreCopy, Raise, Goto, TypeOK, Ended, Running
<1>6. CASE StoreRemove
  <2>1. moved < 15
    BY <1>6 DEF StoreRemove, Goto, Started
  <2>2. scratch' \in [Dirs -> Content]
    BY <1>6, AbsentType DEF StoreRemove, TypeOK
  <2>3. moved' \in 0 .. Len(StoreList)
    BY <1>6, <2>1, StoreListType DEF StoreRemove, TypeOK
  <2> QED
    BY <1>6, <2>2, <2>3 DEF StoreRemove, Goto, TypeOK, Running
<1>7. CASE StoreFails
  BY <1>7 DEF StoreFails, TypeOK, Ended
<1>8. CASE StoreDone
  BY <1>8 DEF StoreDone, Goto, TypeOK, Running
<1>9. CASE ClearScratch
  <2>1. run < Runs
    BY <1>9 DEF ClearScratch, Goto, Started
  <2>2. scratch' \in [Dirs -> Content]
    BY <1>9, AbsentType DEF ClearScratch, TypeOK
  <2> QED
    BY <1>9, <2>1, <2>2, RunsAssumption DEF ClearScratch, Goto, TypeOK, Running
<1> QED
  BY <1>1, <1>2, <1>3, <1>4, <1>5, <1>6, <1>7, <1>8, <1>9 DEF Storage

-----------------------------------------------------------------------------
(***************************************************************************)
(* The calls keep the inductive invariant.                                 *)
(***************************************************************************)

\* Every call of construct_phase_one_corpus() and run() keeps the pipeline in
\* order: first what each call does, in terms of the effects above, then
\* what that means for the invariant.
LEMMA CallKeepsPipeline ==
  ASSUME TypeOK, Pipeline, Construct \/ Variants
  PROVE  Pipeline'
<1>1. CalibrationRun =>
       /\ pc = "calibrate"
       /\ ToolEffect("keep-rosa", {"rosa-out", "fuzzer-out"}, {epoch})
  BY ToolStep, DirsHave DEF CalibrationRun, Running, Outputs
<1>2. KeepCalibrationRosa =>
       /\ pc = "keep-rosa"
       /\ MoveEffect("keep-fuzzer", "rosa-out", "rosa-out-phase-one")
  BY MoveStep, DirsHave DEF KeepCalibrationRosa, Running, Outputs
<1>3. KeepCalibrationFuzzer =>
       /\ pc = "keep-fuzzer"
       /\ MoveEffect("corpus", "fuzzer-out", "fuzzer-out-phase-one")
  BY MoveStep, DirsHave DEF KeepCalibrationFuzzer, Running, Outputs
<1>4. NormalCorpus =>
       /\ pc = "corpus"
       /\ ToolEffect("poison", {"phase-one-corpus"}, scratch["rosa-out-phase-one"].from)
       /\ pc' = "poison" => ~Present("phase-one-corpus")
  BY NewDirStep, DirsHave DEF NormalCorpus, Running, Outputs
<1>5. PoisonedCorpus =>
       /\ pc = "poison"
       /\ ToolEffect("select", {"phase-one-corpus-poisoned"}, scratch["phase-one-corpus"].from)
       /\ pc' = "select" => ~Present("phase-one-corpus-poisoned")
  BY NewDirStep, DirsHave DEF PoisonedCorpus, Running, Outputs
<1>6. SelectiveCorpus =>
       /\ pc = "select"
       /\ ToolEffect("source", {"phase-one-corpus-selective-poisoned"},
         scratch["rosa-out-phase-one"].from \cup scratch["phase-one-corpus-poisoned"].from)
       /\ pc' = "source" => ~Present("phase-one-corpus-selective-poisoned")
  BY NewDirStep, DirsHave DEF SelectiveCorpus, Running, Outputs
<1>7. SourceRun =>
       /\ pc = "source"
       /\ ToolEffect("keep-source", {"rosa-out", "fuzzer-out"}, {epoch})
  BY ToolStep, DirsHave DEF SourceRun, Running, Outputs
<1>8. KeepSource =>
       /\ pc = "keep-source"
       /\ MoveEffect("keep-queue", "rosa-out", "rosa-source-out")
  BY MoveStep, DirsHave DEF KeepSource, Running, Outputs
<1>9. KeepQueue =>
       /\ pc = "keep-queue"
       /\ MoveEffect("simulate", "fuzzer-out", "fuzzer-source-out")
  BY MoveStep, DirsHave DEF KeepQueue, Running, Outputs
<1>10. SimulateNormal =>
       /\ pc = "simulate"
       /\ ToolEffect("keep-sim", {"rosa-out"},
         scratch["rosa-source-out"].from \cup scratch["phase-one-corpus"].from)
  BY ToolStep, DirsHave DEF SimulateNormal, Simulate, Running, Outputs
<1>11. KeepNormal =>
       /\ pc = "keep-sim"
       /\ MoveEffect("simulate-p", "rosa-out", "lily-corpus-out")
  BY MoveStep, DirsHave DEF KeepNormal, Running, Outputs
<1>12. SimulatePoisoned =>
       /\ pc = "simulate-p"
       /\ ToolEffect("keep-sim-p", {"rosa-out"},
         scratch["rosa-source-out"].from \cup scratch["phase-one-corpus-poisoned"].from)
  BY ToolStep, DirsHave DEF SimulatePoisoned, Simulate, Running, Outputs
<1>13. KeepPoisoned =>
       /\ pc = "keep-sim-p"
       /\ MoveEffect("simulate-s", "rosa-out", "lily-corpus-poisoned-out")
  BY MoveStep, DirsHave DEF KeepPoisoned, Running, Outputs
<1>14. SimulateSelective =>
       /\ pc = "simulate-s"
       /\ ToolEffect("keep-sim-s", {"rosa-out"},
         scratch["rosa-source-out"].from \cup scratch["phase-one-corpus-selective-poisoned"].from)
  BY ToolStep, DirsHave DEF SimulateSelective, Simulate, Running, Outputs
<1>15. KeepSelective =>
       /\ pc = "keep-sim-s"
       /\ MoveEffect("naive", "rosa-out", "lily-corpus-selective-poisoned-out")
  BY MoveStep, DirsHave DEF KeepSelective, Running, Outputs
<1>16. NaiveDiff =>
       /\ pc = "naive"
       /\ ToolEffect("filter", {"naive-diff-out"}, scratch["fuzzer-source-out"].from)
       /\ pc' = "filter" => ~Present("naive-diff-out")
  BY NewDirStep, DirsHave DEF NaiveDiff, Running, Outputs
<1>17. FilterNormal =>
       /\ pc = "filter"
       /\ ToolEffect("filter-p", {"lily-out"}, scratch["lily-corpus-out"].from)
  BY ToolStep, DirsHave DEF FilterNormal, Running, Outputs
<1>18. FilterPoisoned =>
       /\ pc = "filter-p"
       /\ ToolEffect("filter-s", {"lily-poisoned-out"},
         scratch["lily-corpus-poisoned-out"].from)
  BY ToolStep, DirsHave DEF FilterPoisoned, Running, Outputs
<1>19. FilterSelective =>
       /\ pc = "filter-s"
       /\ ToolEffect("coverage", {"lily-selective-poisoned-out"},
         scratch["lily-corpus-selective-poisoned-out"].from)
  BY ToolStep, DirsHave DEF FilterSelective, Running, Outputs
<1> USE DEF Pipeline, Fresh, Guarded, Own, OwnVariants, InPlace, Variant,
       CalibrationThere, FuzzerThere, Started, NothingMoved, Drained, Present, Absent,
       Outputs, Dirs, Carried, InRun, PastCorpus, PastPoison, PastSelect, PastSource,
       PastQueue, PastNormalSim, PastPoisonedSim, PastSelected, PastNaive, PastFilter,
       PastFilterP, PastFilterS, Storing
<1>20. CASE CalibrationRun
  <2>1. (Fresh /\ Guarded)'
    BY <1>1, <1>20 DEF ToolEffect
  <2>2. Own'
    BY <1>1, <1>20 DEF ToolEffect
  <2>3. (CalibrationThere /\ FuzzerThere /\ Started /\ NothingMoved /\ Drained)'
    BY <1>1, <1>20 DEF ToolEffect
  <2> QED
    BY <2>1, <2>2, <2>3
<1>21. CASE KeepCalibrationRosa
  BY <1>2, <1>21 DEF MoveEffect
<1>22. CASE KeepCalibrationFuzzer
  BY <1>3, <1>22 DEF MoveEffect
<1>23. CASE NormalCorpus
  <2>1. (Fresh /\ Guarded)'
    BY <1>4, <1>23 DEF ToolEffect
  <2>2. Own'
    BY <1>4, <1>23 DEF ToolEffect
  <2>3. (CalibrationThere /\ FuzzerThere /\ Started /\ NothingMoved /\ Drained)'
    BY <1>4, <1>23 DEF ToolEffect
  <2> QED
    BY <2>1, <2>2, <2>3
<1>24. CASE PoisonedCorpus
  BY <1>5, <1>24 DEF ToolEffect
<1>25. CASE SelectiveCorpus
  BY <1>6, <1>25 DEF ToolEffect
<1>26. CASE SourceRun
  <2>1. (Fresh /\ Guarded)'
    BY <1>7, <1>26 DEF ToolEffect
  <2>2. Own'
    BY <1>7, <1>26 DEF ToolEffect
  <2>3. (CalibrationThere /\ FuzzerThere /\ Started /\ NothingMoved /\ Drained)'
    BY <1>7, <1>26 DEF ToolEffect
  <2> QED
    BY <2>1, <2>2, <2>3
<1>27. CASE KeepSource
  BY <1>8, <1>27 DEF MoveEffect
<1>28. CASE KeepQueue
  BY <1>9, <1>28 DEF MoveEffect
<1>29. CASE SimulateNormal
  BY <1>10, <1>29 DEF ToolEffect
<1>30. CASE KeepNormal
  BY <1>11, <1>30 DEF MoveEffect
<1>31. CASE SimulatePoisoned
  BY <1>12, <1>31 DEF ToolEffect
<1>32. CASE KeepPoisoned
  BY <1>13, <1>32 DEF MoveEffect
<1>33. CASE SimulateSelective
  BY <1>14, <1>33 DEF ToolEffect
<1>34. CASE KeepSelective
  BY <1>15, <1>34 DEF MoveEffect
<1>35. CASE NaiveDiff
  BY <1>16, <1>35 DEF ToolEffect
<1>36. CASE FilterNormal
  BY <1>17, <1>36 DEF ToolEffect
<1>37. CASE FilterPoisoned
  BY <1>18, <1>37 DEF ToolEffect
<1>38. CASE FilterSelective
  BY <1>19, <1>38 DEF ToolEffect
<1>39. CASE FallBackOnSource
  BY <1>39 DEF FallBackOnSource, Goto, Raise, TypeOK
<1>40. CASE CollectCoverage
  BY <1>40 DEF CollectCoverage, ToolSucceeds, Written, Goto, RaiseOrInterrupt, TypeOK
<1> QED
  BY <1>20, <1>21, <1>22, <1>23, <1>24, <1>25, <1>26, <1>27, <1>28, <1>29, <1>30, <1>31, <1>32,
      <1>33, <1>34, <1>35, <1>36, <1>37, <1>38, <1>39, <1>40 DEF Construct, Variants

\* The last call of the pipeline hands the directories over; no call writes
\* to a run directory.
LEMMA CallKeepsStorage ==
  ASSUME IInv, Construct \/ Variants
  PROVE  (Handover /\ StoredOwn)'
<1>1. UNCHANGED <<epoch, stored, moved>>
  BY DEF Construct, Variants, CalibrationRun, KeepCalibrationRosa, KeepCalibrationFuzzer,
     NormalCorpus, PoisonedCorpus, SelectiveCorpus, SourceRun, KeepSource, KeepQueue,
     SimulateNormal, KeepNormal, SimulatePoisoned, KeepPoisoned, SimulateSelective,
     KeepSelective, FallBackOnSource, NaiveDiff, FilterNormal, FilterPoisoned,
     FilterSelective, CollectCoverage, Simulate, NewDir, Tool, ToolSucceeds, ToolDies, Move
<1>2. StoredOwn'
  BY <1>1 DEF IInv, StoredOwn, OwnContent
<1>3. CASE pc' \notin Storing
  BY <1>2, <1>3 DEF Handover
<1>4. CASE pc' \in Storing
  <2>1. pc = "coverage" /\ CollectCoverage
    BY <1>4 DEF Storing, Construct, Variants, CalibrationRun, KeepCalibrationRosa,
       KeepCalibrationFuzzer, NormalCorpus, PoisonedCorpus, SelectiveCorpus, SourceRun,
       KeepSource, KeepQueue, SimulateNormal, KeepNormal, SimulatePoisoned, KeepPoisoned,
       SimulateSelective, KeepSelective, FallBackOnSource, NaiveDiff, FilterNormal,
       FilterPoisoned, FilterSelective, CollectCoverage, Simulate, NewDir, Tool,
       ToolSucceeds, ToolDies, Move, Goto, Raise, RaiseOrInterrupt
  <2>2. /\ OwnVariants
        /\ moved = 0
        /\ scratch["coverage-data"].residue = FALSE
        /\ Present("rosa-out-phase-one") /\ Present("fuzzer-out-phase-one")
        /\ scratch["naive-diff-out"].from = {epoch}
        /\ \A d \in {"phase-one-corpus", "phase-one-corpus-poisoned",
                     "phase-one-corpus-selective-poisoned", "naive-diff-out", "lily-out",
                     "lily-poisoned-out", "lily-selective-poisoned-out"} :
             scratch[d].by = epoch
    <3>1. scratch["coverage-data"].residue \in BOOLEAN
      BY ContentFields, DirsHave DEF IInv, TypeOK, Outputs
    <3> QED
      BY <2>1, <3>1 DEF IInv, Pipeline, Own, InPlace, CalibrationThere, FuzzerThere,
         NothingMoved, InRun, PastCorpus, PastPoison, PastSelect, PastSource,
       PastQueue, PastNormalSim, PastPoisonedSim, PastSelected, PastNaive, PastFilter,
       PastFilterP, PastFilterS, Storing
  <2>3. /\ \A d \in Dirs \ {"coverage-data"} : scratch'[d] = scratch[d]
        /\ scratch'["coverage-data"].by = epoch
        /\ scratch'["coverage-data"].from = scratch["fuzzer-source-out"].from
        /\ scratch'["coverage-data"].residue = FALSE
    <3>1. ToolSucceeds("coverage", "store", {"coverage-data"}, CoverageSource)
      BY <1>4, <2>1 DEF CollectCoverage, CoverageSource, RaiseOrInterrupt, Storing
    <3>2. CoverageSource = scratch["fuzzer-source-out"].from
      BY <2>2 DEF CoverageSource
    <3>3. "coverage-data" \in Dirs
      BY DirsHave DEF Outputs
    <3>4. \A d \in Dirs : scratch'[d] = IF d = "coverage-data" THEN Written(CoverageSource)
                                                           ELSE scratch[d]
      BY <3>1 DEF ToolSucceeds
    <3>5. /\ Written(CoverageSource).by = epoch
          /\ Written(CoverageSource).from = CoverageSource
          /\ Written(CoverageSource).residue = FALSE
      BY WrittenFields
    <3>6. scratch'["coverage-data"] = Written(CoverageSource)
      BY <3>3, <3>4
    <3>7. \A d \in Dirs \ {"coverage-data"} : scratch'[d] = scratch[d]
      BY <3>4
    <3> QED
      BY <3>2, <3>5, <3>6, <3>7
  <2>4. \A d \in Outputs : OwnContent(epoch, d, scratch'[d])
    BY <2>1, <2>2, <2>3 DEF OwnContent, OwnVariants, Variant, Outputs, Dirs, Calibration,
       SourceData, Present, IInv, Pipeline, Started, InRun, PastCorpus, PastPoison, PastSelect,
       PastSource,
       PastQueue, PastNormalSim, PastPoisonedSim, PastSelected, PastNaive, PastFilter,
       PastFilterP, PastFilterS, Storing
  <2> QED
    BY <1>1, <1>2, <2>2, <2>3, <2>4, StoreListType DEF Handover
<1> QED
  BY <1>3, <1>4

-----------------------------------------------------------------------------
(***************************************************************************)
(* So do the loop around them, an interrupt, and the storage.              *)
(***************************************************************************)

\* A call-free step that leaves the directories alone.
LEMMA ControlKeeps ==
  ASSUME IInv, Invoke \/ StartRun \/ Finish \/ UNCHANGED vars
  PROVE  (Pipeline /\ Handover /\ StoredOwn)'
<1> USE DEF IInv, Pipeline, Fresh, Guarded, Own, OwnVariants, InPlace, Variant,
       CalibrationThere, FuzzerThere, Started, NothingMoved, Drained, Present, StoredOwn,
       OwnContent, Handover, InRun, PastCorpus, PastPoison, PastSelect, PastSource,
       PastQueue, PastNormalSim, PastPoisonedSim, PastSelected, PastNaive, PastFilter,
       PastFilterP, PastFilterS, Storing
<1>1. CASE Invoke
  BY <1>1 DEF Invoke, Ended
<1>2. CASE StartRun
  BY <1>2, MaxEpochsAssumption DEF StartRun, Goto, TypeOK
<1>3. CASE Finish
  BY <1>3 DEF Finish, Goto
<1>4. CASE UNCHANGED vars
  BY <1>4 DEF vars
<1> QED
  BY <1>1, <1>2, <1>3, <1>4

\* Wherever a run stops, no old variant is left without a directory that
\* stops the next run.
LEMMA StoppedIsGuarded ==
  ASSUME IInv
  PROVE  /\ (\E d \in Carried : Present(d)) =>
              Present("naive-diff-out") \/ Present("phase-one-corpus")
         /\ scratch["coverage-data"].residue => Present("phase-one-corpus")
<1>1. CASE pc \notin PastCorpus
  BY <1>1 DEF IInv, Pipeline, Guarded
<1>2. CASE pc \in PastCorpus \ Storing
  BY <1>2 DEF IInv, Pipeline, Own, InPlace, Present, Started, InRun
<1>3. CASE pc \in Storing
  <2>1. \A j \in 1 .. 15 : Present(StoreList[j]) <=> j > moved
    BY <1>3 DEF IInv, Handover, OwnContent, Present
  <2>2. moved \in 0 .. 15
    BY StoreListType DEF IInv, TypeOK
  <2>3. \A d \in Carried : Present(d) => moved < 10
    BY <2>1, <2>2 DEF Carried, StoreList
  <2>4. Present("naive-diff-out") <=> moved < 11
    BY <2>1, <2>2 DEF StoreList
  <2>5. ~scratch["coverage-data"].residue
    BY <1>3 DEF IInv, Handover
  <2> QED
    BY <2>2, <2>3, <2>4, <2>5
<1> QED
  BY <1>1, <1>2, <1>3

\* A step to the end of the invocation that leaves the scratch directory
\* alone.
LEMMA StopKeeps ==
  ASSUME IInv, pc' \in Ended, UNCHANGED scratch
  PROVE  (Pipeline /\ Handover)'
<1>1. pc' \notin InRun \cup {"clear"}
  BY DEF Ended, InRun, PastCorpus, PastPoison, PastSelect, PastSource,
       PastQueue, PastNormalSim, PastPoisonedSim, PastSelected, PastNaive, PastFilter,
       PastFilterP, PastFilterS, Storing
<1>2. Guarded'
  BY StoppedIsGuarded DEF Guarded, Present, Carried
<1> QED
  BY <1>1, <1>2 DEF Pipeline, Fresh, Own, CalibrationThere, FuzzerThere, Started, NothingMoved,
     Drained, Handover, Ended, InRun, PastCorpus, PastPoison, PastSelect, PastSource,
       PastQueue, PastNormalSim, PastPoisonedSim, PastSelected, PastNaive, PastFilter,
       PastFilterP, PastFilterS, Storing

\* Storing one directory after the other, failing or not, keeps the invariant.
LEMMA StorageKeeps ==
  ASSUME IInv, Interrupt \/ Storage
  PROVE  (Pipeline /\ Handover /\ StoredOwn)'
<1>1. CASE Interrupt
  BY <1>1, StopKeeps DEF Interrupt, Ended, IInv, StoredOwn, OwnContent
<1>2. CASE StoreFails
  BY <1>2, StopKeeps DEF StoreFails, Ended, IInv, StoredOwn, OwnContent
<1>3. CASE StoreCopy
  <2> DEFINE d == StoreList[moved + 1]
  <2>1. /\ moved + 1 \in 1 .. 15 /\ epoch \in Epochs /\ pc = "store" /\ d \in Outputs
        /\ moved \in 0 .. 15
    BY <1>3, StoreListType, EpochType DEF StoreCopy, Raise, Goto, IInv, TypeOK, Pipeline,
       Started, InRun, PastCorpus, PastPoison, PastSelect, PastSource,
       PastQueue, PastNormalSim, PastPoisonedSim, PastSelected, PastNaive, PastFilter,
       PastFilterP, PastFilterS, Storing
  <2>2. OwnContent(epoch, d, scratch[d])
    BY <2>1 DEF IInv, Handover, Storing
  <2>3. StoredOwn'
    <3>1. CASE UNCHANGED stored
      BY <1>3, <3>1 DEF IInv, StoredOwn, OwnContent
    <3>2. CASE stored' = [stored EXCEPT ![epoch][d] = scratch[d]]
      <4> SUFFICES ASSUME NEW e \in Epochs, NEW o \in Outputs
                   PROVE  stored'[e][o].by # 0 => OwnContent(e, o, stored'[e][o])
        BY DEF StoredOwn, OwnContent
      <4>1. CASE e = epoch /\ o = d
        BY <2>1, <2>2, <3>2, <4>1 DEF IInv, TypeOK
      <4>2. CASE ~(e = epoch /\ o = d)
        <5>1. stored'[e][o] = stored[e][o]
          BY <2>1, <3>2, <4>2 DEF IInv, TypeOK
        <5> QED
          BY <5>1 DEF IInv, StoredOwn
      <4> QED
        BY <4>1, <4>2
    <3> QED
      BY <1>3, <3>1, <3>2 DEF StoreCopy
  <2>4. CASE pc' \in Ended
    BY <1>3, <2>3, <2>4, StopKeeps DEF StoreCopy
  <2>5. CASE pc' = "unlink"
    <3>1. UNCHANGED <<run, epoch, scratch, moved>>
      BY <1>3 DEF StoreCopy
    <3>2. moved < 15
      BY <2>1
    <3>3. Handover'
      BY <2>1, <2>5, <3>1 DEF IInv, Handover, Storing, OwnContent, Present
    <3>4. Pipeline'
      BY <2>1, <2>5, <3>1, <3>2 DEF IInv, Pipeline, Fresh, Guarded, Own, CalibrationThere,
         FuzzerThere, Started, NothingMoved, Drained, Present, InRun, PastCorpus, PastPoison,
         PastSelect, PastSource,
       PastQueue, PastNormalSim, PastPoisonedSim, PastSelected, PastNaive, PastFilter,
       PastFilterP, PastFilterS, Storing
    <3> QED
      BY <2>3, <3>3, <3>4
  <2> QED
    BY <1>3, <2>4, <2>5 DEF StoreCopy, Raise, Goto, Ended
<1>4. CASE StoreRemove
  <2> DEFINE d == StoreList[moved + 1]
  <2>1. /\ pc = "unlink" /\ pc' = "store" /\ moved' = moved + 1 /\ moved \in 0 .. 14
        /\ UNCHANGED <<run, epoch, stored>>
    BY <1>4, StoreListType DEF StoreRemove, Goto, IInv, TypeOK, Pipeline, Started
  <2>2. d \in Outputs /\ d \in Dirs
    BY <2>1, StoreListType, DirsHave
  <2>3. scratch'[d] = Absent /\ \A o \in Dirs \ {d} : scratch'[o] = scratch[o]
    BY <1>4, <2>2 DEF StoreRemove, IInv, TypeOK
  <2>4. StoredOwn'
    BY <2>1 DEF IInv, StoredOwn, OwnContent
  <2>5. Handover'
    <3>1. ~scratch'["coverage-data"].residue
      <4>1. ~scratch["coverage-data"].residue
        BY <2>1 DEF IInv, Handover, Storing
      <4>2. Absent.residue = FALSE
        BY DEF Absent
      <4>3. "coverage-data" \in Dirs
        BY DirsHave DEF Outputs
      <4> QED
        BY <2>3, <4>1, <4>2, <4>3
    <3> SUFFICES ASSUME NEW j \in 1 .. 15
                 PROVE  IF j > moved' THEN OwnContent(epoch, StoreList[j], scratch'[StoreList[j]])
                                      ELSE scratch'[StoreList[j]].by = 0
      BY <2>1, <3>1 DEF Handover, OwnContent, Present
    <3>2. StoreList[j] \in Dirs
      BY StoreListType, DirsHave
    <3>3. CASE j = moved + 1
      BY <2>1, <2>3, <3>3 DEF Absent
    <3>4. CASE j # moved + 1
      <4>1. scratch'[StoreList[j]] = scratch[StoreList[j]]
        BY <2>1, <2>3, <3>2, <3>4, StoreListOneToOne
      <4>2. IF j > moved THEN OwnContent(epoch, StoreList[j], scratch[StoreList[j]])
                         ELSE scratch[StoreList[j]].by = 0
        BY <2>1 DEF IInv, Handover, Storing, Present
      <4> QED
        BY <2>1, <3>4, <4>1, <4>2
    <3> QED
      BY <3>3, <3>4
  <2>6. Pipeline'
    <3>1. scratch'["rosa-out"] = scratch["rosa-out"] /\ scratch'["fuzzer-out"] = scratch["fuzzer-out"]
      BY <2>2, <2>3, DirsHave DEF Outputs
    <3> QED
      BY <2>1, <3>1 DEF IInv, Pipeline, Fresh, Guarded, Own, CalibrationThere,
         FuzzerThere, Started, NothingMoved, Drained, Present, InRun, PastCorpus, PastPoison,
         PastSelect, PastSource,
       PastQueue, PastNormalSim, PastPoisonedSim, PastSelected, PastNaive, PastFilter,
       PastFilterP, PastFilterS, Storing
  <2> QED
    BY <2>4, <2>5, <2>6
<1>5. CASE StoreDone
  <2>1. \A d \in Outputs : ~Present(d)
    BY <1>5, StoreListOnto, StoreListType
       DEF StoreDone, Goto, IInv, Handover, Storing
  <2>2. pc = "store" /\ pc' = "clear" /\ UNCHANGED <<run, epoch, scratch, stored>>
    BY <1>5 DEF StoreDone, Goto
  <2>3. /\ pc' \notin PastCorpus \cup InRun \cup Storing \cup PastQueue \cup PastSelected
        /\ pc' \notin {"simulate-s", "keep-fuzzer", "corpus", "keep-rosa", "unlink"}
        /\ pc' \notin {"keep-source", "keep-sim", "keep-sim-p", "keep-sim-s", "keep-queue"}
        /\ pc \in InRun \cap PastQueue \cap PastSelected \cap Storing
    BY <2>2 DEF InRun, PastCorpus, PastPoison, PastSelect, PastSource,
       PastQueue, PastNormalSim, PastPoisonedSim, PastSelected, PastNaive, PastFilter,
       PastFilterP, PastFilterS, Storing
  <2>4. Fresh' /\ Own' /\ CalibrationThere' /\ FuzzerThere' /\ NothingMoved' /\ Handover'
    BY <2>3 DEF Fresh, Own, CalibrationThere, FuzzerThere, NothingMoved, Handover
  <2>5. Guarded'
    <3>1. Carried \subseteq Outputs
      BY DEF Carried, Outputs
    <3>2. ~scratch["coverage-data"].residue
      BY <2>3 DEF IInv, Handover
    <3> QED
      BY <2>1, <2>2, <3>1, <3>2 DEF Guarded, Present
  <2>6. Started' /\ Drained'
    BY <2>1, <2>2, <2>3 DEF IInv, Pipeline, Started, Drained, Present
  <2>7. StoredOwn'
    BY <2>2 DEF IInv, StoredOwn, OwnContent
  <2> QED
    BY <2>4, <2>5, <2>6, <2>7 DEF Pipeline
<1>6. CASE ClearScratch
  <2>1. \A d \in Dirs : ~Present(d)
    BY <1>6 DEF ClearScratch, Goto, IInv, Pipeline, Drained, Dirs
  <2>2. \A d \in Dirs : scratch'[d] = Absent
    BY <1>6, <2>1 DEF ClearScratch
  <2>3. Absent.by = 0 /\ Absent.residue = FALSE
    BY DEF Absent
  <2>4. pc' = "loop" /\ UNCHANGED <<epoch, stored>>
    BY <1>6 DEF ClearScratch, Goto
  <2>5. \A d \in Dirs : ~Present(d)' /\ ~scratch'[d].residue
    BY <2>2, <2>3 DEF Present
  <2>6. /\ pc' \notin PastCorpus \cup InRun \cup Storing \cup PastQueue \cup PastSelected
        /\ pc' \notin {"clear", "simulate-s", "keep-fuzzer", "corpus", "keep-rosa", "unlink"}
        /\ pc' \notin {"keep-source", "keep-sim", "keep-sim-p", "keep-sim-s", "keep-queue"}
    BY <2>4 DEF InRun, PastCorpus, PastPoison, PastSelect, PastSource,
       PastQueue, PastNormalSim, PastPoisonedSim, PastSelected, PastNaive, PastFilter,
       PastFilterP, PastFilterS, Storing
  <2>7. Fresh' /\ Own' /\ CalibrationThere' /\ FuzzerThere'
    BY <2>6 DEF Fresh, Own, CalibrationThere, FuzzerThere
  <2>8. Guarded'
    <3>1. Carried \subseteq Dirs /\ "coverage-data" \in Dirs
      BY DirsHave DEF Carried, Outputs
    <3> QED
      BY <2>5, <3>1 DEF Guarded
  <2>9. Started' /\ NothingMoved' /\ Drained' /\ Handover'
    BY <2>6 DEF Started, NothingMoved, Drained, Handover
  <2>10. StoredOwn'
    BY <2>4 DEF IInv, StoredOwn, OwnContent
  <2> QED
    BY <2>7, <2>8, <2>9, <2>10 DEF Pipeline
<1> QED
  BY <1>1, <1>2, <1>3, <1>4, <1>5, <1>6 DEF Storage

-----------------------------------------------------------------------------
(***************************************************************************)
(* The theorems.                                                           *)
(***************************************************************************)

\* IInv is inductive: it holds at the start and every step keeps it.
LEMMA Invariance == Spec => []IInv
<1>1. Init => IInv
  <2> SUFFICES ASSUME Init PROVE IInv
    OBVIOUS
  <2>1. TypeOK
    BY RunsAssumption, MaxEpochsAssumption, StoreListType, AbsentType
       DEF Init, TypeOK, Ended
  <2>2. Absent.by = 0 /\ Absent.residue = FALSE
    BY DEF Absent
  <2>3. StoredOwn
    BY <2>2 DEF Init, StoredOwn
  <2>4. Pipeline /\ Handover
    BY <2>2, DirsHave DEF Init, Pipeline, Fresh, Guarded, Own, CalibrationThere, FuzzerThere,
       Started, NothingMoved, Drained, Handover, Present, Carried, Outputs, InRun, PastCorpus,
       PastPoison, PastSelect, PastSource,
       PastQueue, PastNormalSim, PastPoisonedSim, PastSelected, PastNaive, PastFilter,
       PastFilterP, PastFilterS, Storing
  <2> QED
    BY <2>1, <2>3, <2>4 DEF IInv
<1>2. IInv /\ [Next]_vars => IInv'
  <2> SUFFICES ASSUME IInv, [Next]_vars PROVE IInv'
    OBVIOUS
  <2>1. TypeOK /\ Started /\ Pipeline
    BY DEF IInv, Pipeline
  <2>2. CASE Construct \/ Variants
    BY <2>1, <2>2, CallType, CallKeepsPipeline, CallKeepsStorage DEF IInv
  <2>3. CASE Invoke \/ StartRun \/ Finish
    BY <2>1, <2>3, ControlType, ControlKeeps DEF IInv
  <2>4. CASE Interrupt \/ Storage
    BY <2>1, <2>4, ControlType, StorageKeeps DEF IInv
  <2>5. CASE UNCHANGED vars
    <3>1. TypeOK'
      BY <2>1, <2>5 DEF TypeOK, vars
    <3> QED
      BY <2>5, <3>1, ControlKeeps DEF IInv
  <2> QED
    BY <2>2, <2>3, <2>4, <2>5 DEF Next
<1> QED
  BY <1>1, <1>2, PTL DEF Spec

\* Every state run-benchmark.py and its scratch directory get into is typed.
THEOREM TypeCorrect == Spec => []TypeOK
<1>1. IInv => TypeOK
  BY DEF IInv
<1> QED
  BY <1>1, Invariance, PTL

\* For every number of runs and of invocations, failing or interrupted
\* anywhere: what reaches a run directory is the output of its own run.
THEOREM RunsStoreTheirOwn == Spec => []OwnOutputs
<1>1. IInv => OwnOutputs
  BY DEF IInv, StoredOwn, OwnContent, OwnOutputs
<1> QED
  BY <1>1, Invariance, PTL

\* When run() clears the scratch directory there is nothing left to lose.
THEOREM NothingLeftToClear == Spec => []ScratchDrained
<1>1. IInv => ScratchDrained
  BY DEF IInv, Pipeline, Drained, ScratchDrained, Dirs
<1> QED
  BY <1>1, Invariance, PTL

-----------------------------------------------------------------------------
(***************************************************************************)
(* Contamination of the calibration directory.                               *)
(***************************************************************************)

\* A call leads from one statement to the next and touches `outs` at most.
Leaves(from, to, outs) ==
  /\ pc = from /\ pc' \in {to, "failed", "interrupted"}
  /\ UNCHANGED <<epoch, stored, moved>>
  /\ \A d \in Dirs : d \notin outs => scratch'[d] = scratch[d]

\* A tool touches its output only.
LEMMA ToolLeaves ==
  ASSUME NEW from, NEW to \in Running, NEW outs, NEW src, Tool(from, to, outs, src)
  PROVE  Leaves(from, to, outs)
BY ToolStep DEF ToolEffect, Leaves

\* os.makedirs() and what follows it, the new directory only.
LEMMA NewDirLeaves ==
  ASSUME TypeOK, NEW from, NEW to \in Running, NEW d \in Dirs, NEW src, NewDir(from, to, d, src)
  PROVE  Leaves(from, to, {d})
BY NewDirStep DEF ToolEffect, Leaves

\* A move, its two ends only.
LEMMA MoveLeaves ==
  ASSUME TypeOK, NEW from, NEW to \in Running, NEW src \in Dirs, NEW dst \in Dirs, src # dst,
         Move(from, to, src, dst)
  PROVE  Leaves(from, to, {src, dst})
<1>1. pc = from /\ MoveEffect(to, src, dst)
  BY MoveStep
<1> QED
  BY <1>1 DEF MoveEffect, Leaves

\* Which calls touch the calibration directory and the corpus, and where
\* they lead.
Calls ==
  /\ UNCHANGED <<epoch, stored, moved>>
  /\ KeepCalibrationRosa \/ scratch'["rosa-out-phase-one"] = scratch["rosa-out-phase-one"]
  /\ NormalCorpus \/ scratch'["phase-one-corpus"] = scratch["phase-one-corpus"]
  /\ pc \in InRun \ Storing /\ pc' \notin {"calibrate", "unlink", "clear"}
  /\ pc' = "keep-rosa" => CalibrationRun
  /\ pc' \in {"keep-fuzzer", "corpus"} => KeepCalibrationRosa \/ pc = "keep-fuzzer"
  /\ pc' \in PastCorpus => NormalCorpus \/ pc \in PastCorpus

\* Every call of run() is one of these.
LEMMA CallLeaves ==
  ASSUME TypeOK, Construct \/ Variants
  PROVE  Calls
<1> USE DirsHave DEF Outputs, InRun, PastCorpus, PastPoison, PastSelect, PastSource,
      PastQueue, PastNormalSim, PastPoisonedSim, PastSelected, PastNaive, PastFilter, PastFilterP,
      PastFilterS, Storing
<1>1. CASE CalibrationRun
  <2>1. Leaves("calibrate", "keep-rosa", {"rosa-out", "fuzzer-out"})
    BY <1>1, ToolLeaves, DirsHave DEF CalibrationRun, Running, Outputs
  <2> QED
    BY <1>1, <2>1 DEF Leaves, Calls
<1>2. CASE KeepCalibrationRosa
  <2>1. Leaves("keep-rosa", "keep-fuzzer", {"rosa-out", "rosa-out-phase-one"})
    BY <1>2, MoveLeaves, DirsHave DEF KeepCalibrationRosa, Running, Outputs
  <2> QED
    BY <1>2, <2>1 DEF Leaves, Calls
<1>3. CASE KeepCalibrationFuzzer
  <2>1. Leaves("keep-fuzzer", "corpus", {"fuzzer-out", "fuzzer-out-phase-one"})
    BY <1>3, MoveLeaves, DirsHave DEF KeepCalibrationFuzzer, Running, Outputs
  <2> QED
    BY <1>3, <2>1 DEF Leaves, Calls
<1>4. CASE NormalCorpus
  <2>1. Leaves("corpus", "poison", {"phase-one-corpus"})
    BY <1>4, NewDirLeaves, DirsHave DEF NormalCorpus, Running, Outputs
  <2> QED
    BY <1>4, <2>1 DEF Leaves, Calls
<1>5. CASE PoisonedCorpus
  <2>1. Leaves("poison", "select", {"phase-one-corpus-poisoned"})
    BY <1>5, NewDirLeaves, DirsHave DEF PoisonedCorpus, Running, Outputs
  <2> QED
    BY <1>5, <2>1 DEF Leaves, Calls
<1>6. CASE SelectiveCorpus
  <2>1. Leaves("select", "source", {"phase-one-corpus-selective-poisoned"})
    BY <1>6, NewDirLeaves, DirsHave DEF SelectiveCorpus, Running, Outputs
  <2> QED
    BY <1>6, <2>1 DEF Leaves, Calls
<1>7. CASE SourceRun
  <2>1. Leaves("source", "keep-source", {"rosa-out", "fuzzer-out"})
    BY <1>7, ToolLeaves, DirsHave DEF SourceRun, Running, Outputs
  <2> QED
    BY <1>7, <2>1 DEF Leaves, Calls
<1>8. CASE KeepSource
  <2>1. Leaves("keep-source", "keep-queue", {"rosa-out", "rosa-source-out"})
    BY <1>8, MoveLeaves, DirsHave DEF KeepSource, Running, Outputs
  <2> QED
    BY <1>8, <2>1 DEF Leaves, Calls
<1>9. CASE KeepQueue
  <2>1. Leaves("keep-queue", "simulate", {"fuzzer-out", "fuzzer-source-out"})
    BY <1>9, MoveLeaves, DirsHave DEF KeepQueue, Running, Outputs
  <2> QED
    BY <1>9, <2>1 DEF Leaves, Calls
<1>10. CASE SimulateNormal
  <2>1. Leaves("simulate", "keep-sim", {"rosa-out"})
    BY <1>10, ToolLeaves, DirsHave DEF SimulateNormal, Simulate, Running, Outputs
  <2> QED
    BY <1>10, <2>1 DEF Leaves, Calls
<1>11. CASE KeepNormal
  <2>1. Leaves("keep-sim", "simulate-p", {"rosa-out", "lily-corpus-out"})
    BY <1>11, MoveLeaves, DirsHave DEF KeepNormal, Running, Outputs
  <2> QED
    BY <1>11, <2>1 DEF Leaves, Calls
<1>12. CASE SimulatePoisoned
  <2>1. Leaves("simulate-p", "keep-sim-p", {"rosa-out"})
    BY <1>12, ToolLeaves, DirsHave DEF SimulatePoisoned, Simulate, Running, Outputs
  <2> QED
    BY <1>12, <2>1 DEF Leaves, Calls
<1>13. CASE KeepPoisoned
  <2>1. Leaves("keep-sim-p", "simulate-s", {"rosa-out", "lily-corpus-poisoned-out"})
    BY <1>13, MoveLeaves, DirsHave DEF KeepPoisoned, Running, Outputs
  <2> QED
    BY <1>13, <2>1 DEF Leaves, Calls
<1>14. CASE SimulateSelective
  <2>1. Leaves("simulate-s", "keep-sim-s", {"rosa-out"})
    BY <1>14, ToolLeaves, DirsHave DEF SimulateSelective, Simulate, Running, Outputs
  <2> QED
    BY <1>14, <2>1 DEF Leaves, Calls
<1>15. CASE KeepSelective
  <2>1. Leaves("keep-sim-s", "naive", {"rosa-out", "lily-corpus-selective-poisoned-out"})
    BY <1>15, MoveLeaves, DirsHave DEF KeepSelective, Running, Outputs
  <2> QED
    BY <1>15, <2>1 DEF Leaves, Calls
<1>16. CASE FallBackOnSource
  BY <1>16 DEF FallBackOnSource, Goto, Raise, TypeOK, Calls
<1>17. CASE NaiveDiff
  <2>1. Leaves("naive", "filter", {"naive-diff-out"})
    BY <1>17, NewDirLeaves, DirsHave DEF NaiveDiff, Running, Outputs
  <2> QED
    BY <1>17, <2>1 DEF Leaves, Calls
<1>18. CASE FilterNormal
  <2>1. Leaves("filter", "filter-p", {"lily-out"})
    BY <1>18, ToolLeaves, DirsHave DEF FilterNormal, Running, Outputs
  <2> QED
    BY <1>18, <2>1 DEF Leaves, Calls
<1>19. CASE FilterPoisoned
  <2>1. Leaves("filter-p", "filter-s", {"lily-poisoned-out"})
    BY <1>19, ToolLeaves, DirsHave DEF FilterPoisoned, Running, Outputs
  <2> QED
    BY <1>19, <2>1 DEF Leaves, Calls
<1>20. CASE FilterSelective
  <2>1. Leaves("filter-s", "coverage", {"lily-selective-poisoned-out"})
    BY <1>20, ToolLeaves, DirsHave DEF FilterSelective, Running, Outputs
  <2> QED
    BY <1>20, <2>1 DEF Leaves, Calls
<1>21. CASE CollectCoverage
  BY <1>21 DEF CollectCoverage, ToolSucceeds, Goto, RaiseOrInterrupt, TypeOK, Calls
<1> QED
  BY <1>1, <1>2, <1>3, <1>4, <1>5, <1>6, <1>7, <1>8, <1>9, <1>10, <1>11,
     <1>12, <1>13, <1>14, <1>15, <1>16, <1>17, <1>18, <1>19, <1>20, <1>21 DEF Construct, Variants

\* The run's own calibration directory is renamed or put inside an old one,
\* which is marked by that.
LEMMA CalibrationMoved ==
  ASSUME IInv, CalibrationDated, KeepCalibrationRosa, pc' = "keep-fuzzer"
  PROVE  /\ scratch'["rosa-out-phase-one"].from \subseteq 1 .. epoch
         /\ scratch'["rosa-out-phase-one"].from = {epoch} <=> ~scratch'["rosa-out-phase-one"].residue
<1> DEFINE rosa == scratch["rosa-out"]
           old  == scratch["rosa-out-phase-one"]
           new  == scratch'["rosa-out-phase-one"]
<1>1. /\ pc = "keep-rosa" /\ epoch # 0 /\ epoch \in Nat
      /\ rosa.from = {epoch} /\ ~rosa.residue
      /\ old.from \subseteq 1 .. epoch /\ epoch \notin old.from
  BY DEF KeepCalibrationRosa, Move, Goto, Raise, IInv, Pipeline, Fresh, Started, InRun,
    CalibrationDated, TypeOK
<1>2. scratch \in [Dirs -> Content] /\ old \in Content
      /\ "rosa-out" \in Dirs /\ "rosa-out-phase-one" \in Dirs
  BY DirsHave DEF IInv, TypeOK, Outputs
<1>3. CASE scratch' = [scratch EXCEPT !["rosa-out-phase-one"] = rosa, !["rosa-out"] = Absent]
  <2>1. new = rosa
    BY <1>2, <1>3
  <2> QED
    BY <1>1, <2>1
<1>4. CASE scratch' = [scratch EXCEPT !["rosa-out-phase-one"].residue = TRUE, !["rosa-out"] = Absent]
  <2>1. new = [old EXCEPT !.residue = TRUE]
    BY <1>2, <1>4
  <2>2. new.from = old.from /\ new.residue = TRUE
    BY <1>2, <2>1 DEF Content
  <2> QED
    BY <1>1, <2>2
<1> QED
  BY <1>3, <1>4 DEF KeepCalibrationRosa, Move, Raise, Goto

\* The calls keep the mark of a contaminated calibration directory.
LEMMA CallKeepsTraced ==
  ASSUME IInv, Traced, Construct \/ Variants
  PROVE  Traced'
<1> DEFINE cal    == "rosa-out-phase-one"
           corpus == "phase-one-corpus"
<1>0. TypeOK /\ cal \in Dirs /\ corpus \in Dirs
  BY DirsHave DEF IInv, Outputs
<1>1. UNCHANGED <<epoch, stored, moved>> /\ pc \in InRun \ Storing
  BY <1>0, CallLeaves DEF Calls
<1>2. moved = 0
  BY <1>1 DEF IInv, Pipeline, NothingMoved
<1>3. CASE KeepCalibrationRosa
  <2>1. pc = "keep-rosa" /\ MoveEffect("keep-fuzzer", "rosa-out", cal)
    BY <1>0, <1>3, MoveStep, DirsHave DEF KeepCalibrationRosa, Running
  <2>2. CASE pc' = "keep-fuzzer"
    <3>1. /\ scratch'[cal].from \subseteq 1 .. epoch
          /\ scratch'[cal].from = {epoch} <=> ~scratch'[cal].residue
      BY <1>3, <2>2, CalibrationMoved DEF Traced
    <3> QED
      BY <1>1, <2>1, <2>2, <3>1 DEF Traced, CalibrationDated, CalibrationMarked, CorpusTraced,
        MarkStored, CorpusNotStored, ContaminationShows, InRun, PastCorpus, PastPoison, PastSelect,
        PastSource, PastQueue, PastNormalSim, PastPoisonedSim, PastSelected, PastNaive, PastFilter,
        PastFilterP, PastFilterS, Storing
  <2>3. CASE pc' = "failed"
    <3>1. scratch'[cal] = scratch[cal]
      BY <2>1, <2>3 DEF MoveEffect
    <3> QED
      BY <1>1, <2>1, <2>3, <3>1 DEF Traced, CalibrationDated, CalibrationMarked, CorpusTraced,
        MarkStored, CorpusNotStored, ContaminationShows, InRun, PastCorpus, PastPoison, PastSelect,
        PastSource, PastQueue, PastNormalSim, PastPoisonedSim, PastSelected, PastNaive, PastFilter,
        PastFilterP, PastFilterS, Storing
  <2> QED
    BY <2>1, <2>2, <2>3 DEF MoveEffect
<1>4. CASE ~KeepCalibrationRosa
  <2>1. scratch'[cal] = scratch[cal]
    BY <1>0, <1>4, CallLeaves DEF Calls
  <2>2. CalibrationDated'
    <3>1. pc' = "keep-rosa" => pc = "calibrate" /\ ~scratch'["rosa-out"].residue
      <4> SUFFICES ASSUME pc' = "keep-rosa"
                   PROVE  pc = "calibrate" /\ ~scratch'["rosa-out"].residue
        OBVIOUS
      <4>1. CalibrationRun
        BY <1>0, CallLeaves DEF Calls
      <4>2. /\ pc = "calibrate"
            /\ ToolEffect("keep-rosa", {"rosa-out", "fuzzer-out"}, {epoch})
        BY <4>1, ToolStep DEF CalibrationRun, Running
      <4> QED
        BY <4>2, DirsHave DEF ToolEffect
    <3>2. pc' # "calibrate"
      BY <1>0, CallLeaves DEF Calls
    <3> QED
      BY <1>1, <2>1, <3>1, <3>2 DEF Traced, CalibrationDated
  <2>3. CalibrationMarked'
    <3>1. pc' \in PastCorpus \cup {"keep-fuzzer", "corpus"} =>
            pc \in PastCorpus \cup {"keep-fuzzer", "corpus"}
      <4>1. NormalCorpus => pc = "corpus"
        BY <1>0, NewDirStep DEF NormalCorpus, Running
      <4> QED
        BY <1>0, <1>4, <4>1, CallLeaves DEF Calls
    <3> QED
      BY <1>1, <2>1, <3>1 DEF Traced, CalibrationMarked
  <2>4. CorpusTraced'
    <3>1. CASE NormalCorpus
      <4>1. pc = "corpus" /\ ToolEffect("poison", {corpus}, scratch[cal].from)
        BY <1>0, <3>1, NewDirStep DEF NormalCorpus, Running
      <4>2. pc' \in PastCorpus => scratch'[corpus].from = scratch[cal].from
        BY <1>0, <4>1 DEF ToolEffect, PastCorpus, PastPoison, PastSelect, PastSource, PastQueue,
          PastNormalSim, PastPoisonedSim, PastSelected, PastNaive, PastFilter, PastFilterP,
          PastFilterS, Storing
      <4> QED
        BY <2>1, <4>2 DEF CorpusTraced
    <3>2. CASE ~NormalCorpus
      <4>1. scratch'[corpus] = scratch[corpus] /\ (pc' \in PastCorpus => pc \in PastCorpus)
        BY <1>0, <3>2, CallLeaves DEF Calls
      <4> QED
        BY <1>1, <2>1, <4>1 DEF Traced, CorpusTraced
    <3> QED
      BY <3>1, <3>2
  <2>5. MarkStored'
    <3>1. pc' # "unlink" /\ moved' = 0
      BY <1>0, <1>1, <1>2, CallLeaves DEF Calls
    <3> QED
      BY <3>1 DEF MarkStored
  <2>6. CorpusNotStored' /\ ContaminationShows'
    BY <1>1, <1>2 DEF Traced, CorpusNotStored, ContaminationShows
  <2> QED
    BY <2>2, <2>3, <2>4, <2>5, <2>6 DEF Traced
<1> QED
  BY <1>3, <1>4

\* The script stops: what was stored stays, the rest is left as it is.
LEMMA StopKeepsTraced ==
  ASSUME IInv, Traced, pc' \in Ended, UNCHANGED <<epoch, scratch>>,
         UNCHANGED stored
  PROVE  Traced'
<1>1. pc' \notin InRun
  BY DEF Ended, InRun, PastCorpus, PastPoison, PastSelect, PastSource, PastQueue, PastNormalSim,
    PastPoisonedSim, PastSelected, PastNaive, PastFilter, PastFilterP, PastFilterS, Storing
<1>2. PastCorpus \cup Storing \cup {"keep-fuzzer", "corpus", "calibrate", "keep-rosa", "unlink"}
        \subseteq InRun
  BY DEF InRun, PastCorpus, PastPoison, PastSelect, PastSource, PastQueue, PastNormalSim,
    PastPoisonedSim, PastSelected, PastNaive, PastFilter, PastFilterP, PastFilterS, Storing
<1> QED
  BY <1>1, <1>2 DEF Traced, CalibrationDated, CalibrationMarked, CorpusTraced, MarkStored,
    CorpusNotStored, ContaminationShows

\* So do the start and the end of runs and invocations: a new run is newer
\* than everything that is there.
LEMMA ControlKeepsTraced ==
  ASSUME IInv, Traced, Invoke \/ StartRun \/ Finish \/ Interrupt \/ UNCHANGED vars
  PROVE  Traced'
<1>1. CASE Interrupt
  BY <1>1, StopKeepsTraced DEF Interrupt, Ended
<1>2. CASE Finish
  BY <1>2, StopKeepsTraced DEF Finish, Goto, Ended
<1>3. CASE UNCHANGED vars
  BY <1>3 DEF vars, Traced, CalibrationDated, CalibrationMarked, CorpusTraced, MarkStored,
    CorpusNotStored, ContaminationShows
<1>4. CASE Invoke
  BY <1>4 DEF Invoke, Traced, CalibrationDated, CalibrationMarked, CorpusTraced, MarkStored,
    CorpusNotStored, ContaminationShows, InRun, PastCorpus, PastPoison, PastSelect, PastSource,
    PastQueue, PastNormalSim, PastPoisonedSim, PastSelected, PastNaive, PastFilter, PastFilterP,
    PastFilterS, Storing
<1>5. CASE StartRun
  <2>1. /\ pc' = "calibrate" /\ epoch' = epoch + 1 /\ epoch \in Nat
        /\ UNCHANGED <<scratch, stored>>
    BY <1>5 DEF StartRun, Goto, IInv, TypeOK
  <2>2. /\ scratch["rosa-out-phase-one"].from \subseteq 1 .. epoch + 1
        /\ epoch + 1 \notin scratch["rosa-out-phase-one"].from
    BY <2>1 DEF Traced, CalibrationDated
  <2>3. CorpusNotStored'
    BY <2>1 DEF Traced, CorpusNotStored, Epochs
  <2> QED
    BY <2>1, <2>2, <2>3 DEF Traced, CalibrationDated, CalibrationMarked, CorpusTraced, MarkStored,
      ContaminationShows, PastCorpus, PastPoison, PastSelect, PastSource, PastQueue, PastNormalSim,
      PastPoisonedSim, PastSelected, PastNaive, PastFilter, PastFilterP, PastFilterS, Storing
<1> QED
  BY <1>1, <1>2, <1>3, <1>4, <1>5

\* The moves to the run directory: the mark first, then the corpus.
LEMMA StoreCopyKeepsTraced ==
  ASSUME IInv, Traced, StoreCopy
  PROVE  Traced'
<1> DEFINE cal    == "rosa-out-phase-one"
           corpus == "phase-one-corpus"
           d      == StoreList[moved + 1]
<1>0. /\ pc = "store" /\ moved \in 0 .. 14 /\ UNCHANGED <<epoch, scratch, moved>>
      /\ pc' \in {"unlink", "failed", "interrupted"}
  BY StoreListType DEF StoreCopy, Raise, Goto, IInv, TypeOK
<1>1. epoch \in Epochs /\ d \in Outputs /\ cal \in Outputs /\ corpus \in Outputs
  <2>1. epoch # 0
    BY <1>0 DEF IInv, Pipeline, Started, InRun, PastCorpus, PastPoison, PastSelect, PastSource,
      PastQueue, PastNormalSim, PastPoisonedSim, PastSelected, PastNaive, PastFilter, PastFilterP,
      PastFilterS, Storing
  <2> QED
    BY <1>0, <2>1, EpochType, StoreListType DEF IInv, Outputs
<1>2. (d = cal <=> moved = 0) /\ (d = corpus <=> moved = 2)
  <2>1. StoreList[1] = cal /\ StoreList[3] = corpus
    BY DEF StoreList
  <2> QED
    BY <1>0, <2>1, StoreListOneToOne
<1>3. CASE ~Present(d)
  BY <1>0, <1>3, StopKeepsTraced DEF StoreCopy, Raise, Goto, Ended
<1>4. CASE stored' = [stored EXCEPT ![epoch][d] = scratch[d]]
  <2>1. /\ stored'[epoch][d] = scratch[d]
        /\ \A b \in Outputs : b # d => stored'[epoch][b] = stored[epoch][b]
        /\ \A e \in Epochs : e # epoch => stored'[e] = stored[e]
    BY <1>1, <1>4 DEF IInv, TypeOK
  <2>2. CorpusNotStored'
    BY <1>0, <1>1, <1>2, <2>1 DEF Traced, CorpusNotStored, Epochs, InRun, PastCorpus, PastPoison,
      PastSelect, PastSource, PastQueue, PastNormalSim, PastPoisonedSim, PastSelected, PastNaive,
      PastFilter, PastFilterP, PastFilterS, Storing
  <2>3. MarkStored'
    BY <1>0, <1>1, <1>2, <2>1 DEF Traced, MarkStored, Storing
  <2>4. ContaminationShows'
    <3>1. CASE moved = 2
      <4>1. scratch[corpus].from = {epoch} <=> ~stored[epoch][cal].residue
        BY <1>0, <3>1 DEF Traced, MarkStored, Storing
      <4>2. stored'[epoch][corpus] = scratch[corpus] /\ stored'[epoch][cal] = stored[epoch][cal]
        BY <1>1, <1>2, <2>1, <3>1
      <4> QED
        BY <2>1, <4>1, <4>2 DEF Traced, ContaminationShows
    <3>2. CASE moved # 2
      <4>1. stored'[epoch][corpus] = stored[epoch][corpus]
        BY <1>1, <1>2, <2>1, <3>2
      <4>2. moved = 0 => stored[epoch][corpus].by = 0
        BY <1>0, <1>1 DEF Traced, CorpusNotStored, InRun, PastCorpus, PastPoison, PastSelect,
          PastSource, PastQueue, PastNormalSim, PastPoisonedSim, PastSelected, PastNaive,
          PastFilter, PastFilterP, PastFilterS, Storing
      <4>3. moved # 0 => stored'[epoch][cal] = stored[epoch][cal]
        BY <1>1, <1>2, <2>1
      <4> QED
        BY <2>1, <4>1, <4>2, <4>3 DEF Traced, ContaminationShows
    <3> QED
      BY <3>1, <3>2
  <2>5. (CalibrationDated /\ CalibrationMarked /\ CorpusTraced)'
    BY <1>0 DEF Traced, CalibrationDated, CalibrationMarked, CorpusTraced, PastCorpus, PastPoison,
      PastSelect, PastSource, PastQueue, PastNormalSim, PastPoisonedSim, PastSelected, PastNaive,
      PastFilter, PastFilterP, PastFilterS, Storing
  <2> QED
    BY <2>2, <2>3, <2>4, <2>5 DEF Traced
<1> QED
  BY <1>3, <1>4 DEF StoreCopy

\* So does the last part of a run.
LEMMA StorageKeepsTraced ==
  ASSUME IInv, Traced, Storage
  PROVE  Traced'
<1> DEFINE cal    == "rosa-out-phase-one"
           corpus == "phase-one-corpus"
<1>0. cal \in Dirs /\ corpus \in Dirs /\ Absent.from = {}
  BY DirsHave DEF Outputs, Absent
<1>1. CASE StoreCopy
  BY <1>1, StoreCopyKeepsTraced
<1>2. CASE StoreFails
  BY <1>2, StopKeepsTraced DEF StoreFails, Ended
<1>3. CASE StoreDone
  BY <1>3, StoreListType DEF StoreDone, Goto, Traced, CalibrationDated, CalibrationMarked,
    CorpusTraced, MarkStored, CorpusNotStored, ContaminationShows, InRun, PastCorpus, PastPoison,
    PastSelect, PastSource, PastQueue, PastNormalSim, PastPoisonedSim, PastSelected, PastNaive,
    PastFilter, PastFilterP, PastFilterS, Storing
<1>4. CASE ClearScratch
  <2>1. scratch'[cal].from \in {scratch[cal].from, {}}
    BY <1>0, <1>4 DEF ClearScratch
  <2>2. pc' = "loop" /\ UNCHANGED <<epoch, stored>>
    BY <1>4 DEF ClearScratch, Goto
  <2> QED
    BY <2>1, <2>2 DEF Traced, CalibrationDated, CalibrationMarked, CorpusTraced, MarkStored,
      CorpusNotStored, ContaminationShows, InRun, PastCorpus, PastPoison, PastSelect, PastSource,
      PastQueue, PastNormalSim, PastPoisonedSim, PastSelected, PastNaive, PastFilter, PastFilterP,
      PastFilterS, Storing
<1>5. CASE StoreRemove
  <2>1. /\ pc = "unlink" /\ pc' = "store" /\ moved \in 0 .. 14 /\ moved' = moved + 1
        /\ UNCHANGED <<epoch, stored>>
        /\ scratch' = [scratch EXCEPT ![StoreList[moved + 1]] = Absent]
    BY <1>5, StoreListType DEF StoreRemove, Goto, IInv, TypeOK, Pipeline, Started
  <2>2. StoreList[1] = cal /\ StoreList[3] = corpus
    BY DEF StoreList
  <2>3. moved < 2 => scratch'[corpus] = scratch[corpus]
    <3>1. moved < 2 => StoreList[moved + 1] # corpus
      BY <2>1, <2>2, StoreListOneToOne
    <3> QED
      BY <1>0, <2>1, <3>1 DEF IInv, TypeOK
  <2>4. scratch'[cal].from \in {scratch[cal].from, {}}
    BY <1>0, <2>1 DEF IInv, TypeOK
  <2>5. CalibrationDated'
    BY <2>1, <2>4 DEF Traced, CalibrationDated
  <2>6. moved = 0 => (scratch[corpus].from = {epoch} <=> ~stored[epoch][cal].residue)
    BY <2>1 DEF Traced, CalibrationMarked, CorpusTraced, MarkStored, PastCorpus, PastPoison,
      PastSelect, PastSource, PastQueue, PastNormalSim, PastPoisonedSim, PastSelected, PastNaive,
      PastFilter, PastFilterP, PastFilterS, Storing
  <2>7. moved = 1 => (scratch[corpus].from = {epoch} <=> ~stored[epoch][cal].residue)
    BY <2>1 DEF Traced, MarkStored, Storing
  <2>8. MarkStored'
    BY <2>1, <2>3, <2>6, <2>7 DEF MarkStored
  <2>9. CorpusNotStored' /\ ContaminationShows'
    BY <2>1 DEF Traced, CorpusNotStored, ContaminationShows, InRun, PastCorpus, PastPoison,
      PastSelect, PastSource, PastQueue, PastNormalSim, PastPoisonedSim, PastSelected, PastNaive,
      PastFilter, PastFilterP, PastFilterS, Storing
  <2>10. moved' # 0
    BY <2>1
  <2> QED
    BY <2>5, <2>8, <2>9, <2>10 DEF Traced, CalibrationMarked, CorpusTraced
<1> QED
  BY <1>1, <1>2, <1>3, <1>4, <1>5 DEF Storage

\* Traced is inductive relative to IInv.
LEMMA TracedInvariance == Spec => []Traced
<1>1. Init => Traced
  <2> SUFFICES ASSUME Init PROVE Traced
    OBVIOUS
  <2>1. Absent.by = 0 /\ Absent.from = {} /\ Absent.residue = FALSE
    BY DEF Absent
  <2>2. scratch["rosa-out-phase-one"] = Absent
        /\ \A e \in Epochs : stored[e]["phase-one-corpus"] = Absent
    BY DirsHave DEF Init, Outputs
  <2>3. pc = "idle"
    BY DEF Init
  <2> QED
    BY <2>1, <2>2, <2>3 DEF Traced, CalibrationDated, CalibrationMarked, CorpusTraced, MarkStored,
      CorpusNotStored, ContaminationShows, PastCorpus, PastPoison, PastSelect, PastSource,
      PastQueue, PastNormalSim, PastPoisonedSim, PastSelected, PastNaive, PastFilter, PastFilterP,
      PastFilterS, Storing
<1>2. IInv /\ Traced /\ [Next]_vars => Traced'
  BY CallKeepsTraced, ControlKeepsTraced, StorageKeepsTraced DEF Next
<1> QED
  BY <1>1, <1>2, Invariance, PTL DEF Spec

\* For every number of runs and of invocations: a corpus that a run stores
\* rests on its own calibration run exactly when the stored calibration
\* directory has no other one inside.
THEOREM ContaminationIsVisible == Spec => []ContaminationShows
<1>1. Traced => ContaminationShows
  BY DEF Traced
<1> QED
  BY <1>1, TracedInvariance, PTL

\* A phase-one-corpus that an invocation leaves behind stops every later one
\* at os.makedirs(), for ever.
THEOREM LeftoverStaysInTheWay == Spec => LeftoverBlocks
<1>1. IInv /\ Blocked /\ [Next]_vars => Blocked'
  <2> SUFFICES ASSUME IInv, Blocked, [Next]_vars PROVE Blocked'
    OBVIOUS
  <2>0. TypeOK /\ "phase-one-corpus" \in Dirs
    BY DirsHave DEF IInv, Outputs
  <2>1. CASE UNCHANGED vars \/ Invoke \/ StartRun \/ Finish \/ Interrupt
    BY <2>1 DEF vars, Invoke, StartRun, Finish, Interrupt, Goto, Blocked, Present, Ended
  <2>2. CASE Storage
    BY <2>2 DEF Storage, StoreCopy, StoreRemove, StoreFails, StoreDone, ClearScratch, Goto, Raise,
      Blocked, Ended
  <2>3. CASE Construct \/ Variants
    <3>1. pc \in {"calibrate", "keep-rosa", "keep-fuzzer", "corpus"}
      BY <2>0, <2>3, CallLeaves DEF Calls, Blocked, Ended, InRun, PastCorpus, PastPoison,
          PastSelect,
        PastSource, PastQueue, PastNormalSim, PastPoisonedSim, PastSelected, PastNaive, PastFilter,
        PastFilterP, PastFilterS, Storing
    <3>2. CASE NormalCorpus
      BY <3>2 DEF NormalCorpus, NewDir, Raise, Goto, Blocked, Present, Ended
    <3>3. CASE ~NormalCorpus
      <4>1. Present("phase-one-corpus")'
        BY <2>0, <2>3, <3>3, CallLeaves DEF Calls, Blocked, Present
      <4>2. pc' \notin PastCorpus
        BY <2>0, <2>3, <3>1, <3>3, CallLeaves DEF Calls, PastCorpus, PastPoison, PastSelect,
            PastSource,
          PastQueue, PastNormalSim, PastPoisonedSim, PastSelected, PastNaive, PastFilter,
          PastFilterP, PastFilterS, Storing
      <4>3. pc' \in Ended \cup Running /\ pc' \notin {"unlink", "clear"}
        BY <2>0, <2>3, <3>1, CallType, CallLeaves DEF Calls, IInv, Pipeline, TypeOK
      <4> QED
        BY <4>1, <4>2, <4>3 DEF Blocked, Running, PastCorpus, PastPoison, PastSelect, PastSource,
          PastQueue, PastNormalSim, PastPoisonedSim, PastSelected, PastNaive, PastFilter,
          PastFilterP, PastFilterS, Storing
    <3> QED
      BY <3>2, <3>3
  <2> QED
    BY <2>1, <2>2, <2>3 DEF Next
<1>2. pc \in Ended /\ Present("phase-one-corpus") => Blocked
  BY DEF Blocked
<1>3. Blocked => pc \notin {"poison", "store"}
  BY DEF Blocked, Ended
<1> QED
  BY <1>1, <1>2, <1>3, Invariance, PTL DEF Spec, LeftoverBlocks
==============================================================================
