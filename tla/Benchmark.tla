------------------------------ MODULE Benchmark ------------------------------
(***************************************************************************)
(* tools/evaluation/run-benchmark.py: the pipeline of one benchmark.       *)
(*                                                                         *)
(* One invocation of the script performs Runs runs.  Every run works in    *)
(* the one scratch directory of the container (SCRATCH_DIR), step after    *)
(* step, and moves what it produced to its own run directory at the end.   *)
(* Nothing clears the scratch directory when an invocation starts, so what *)
(* a failed or interrupted invocation left there is met by the next one.   *)
(*                                                                         *)
(* The data is abstracted to provenance.  Runs are numbered by `epoch`     *)
(* over all the invocations; a directory records which epoch wrote it, on  *)
(* the fuzzing data of which epochs its content rests, and whether         *)
(* something that is not its own content lies inside it.                   *)
(***************************************************************************)
EXTENDS Naturals, Sequences

CONSTANTS
  Runs,       \* the "runs" argument of one invocation
  MaxEpochs   \* bound: runs started over all the invocations

ASSUME RunsAssumption == Runs \in Nat \ {0}
ASSUME MaxEpochsAssumption == MaxEpochs \in Nat \ {0}

VARIABLES
  pc,        \* the statement run() is at, or how the last invocation ended
  run,       \* loop variable of run(): completed iterations
  epoch,     \* number of the current (or last) run over all invocations
  scratch,   \* SCRATCH_DIR: directory name -> content
  stored,    \* epoch -> the directories in its run_dir
  moved      \* directories of StoreList already moved to run_dir

vars == <<pc, run, epoch, scratch, stored, moved>>

Epochs == 1 .. MaxEpochs

(***************************************************************************)
(* The directories, in the order in which the last loop of run() moves     *)
(* them.                                                                   *)
(***************************************************************************)
StoreListForgetsQueue == <<
  "rosa-out-phase-one", "fuzzer-out-phase-one", "phase-one-corpus",
  "phase-one-corpus-poisoned", "phase-one-corpus-selective-poisoned",
  "rosa-source-out", "lily-corpus-out",
  "lily-corpus-poisoned-out", "lily-corpus-selective-poisoned-out",
  "naive-diff-out", "lily-out", "lily-poisoned-out",
  "lily-selective-poisoned-out", "coverage-data" >>  \* mutant: the queue is not stored

StoreList == <<
  "rosa-out-phase-one", "fuzzer-out-phase-one", "phase-one-corpus",
  "phase-one-corpus-poisoned", "phase-one-corpus-selective-poisoned",
  "rosa-source-out", "fuzzer-source-out", "lily-corpus-out",
  "lily-corpus-poisoned-out", "lily-corpus-selective-poisoned-out",
  "naive-diff-out", "lily-out", "lily-poisoned-out",
  "lily-selective-poisoned-out", "coverage-data" >>

\* What a completed run has to hand over to the evaluation.
Outputs == {
  "rosa-out-phase-one", "fuzzer-out-phase-one", "phase-one-corpus",
  "phase-one-corpus-poisoned", "phase-one-corpus-selective-poisoned",
  "rosa-source-out", "fuzzer-source-out", "lily-corpus-out",
  "lily-corpus-poisoned-out", "lily-corpus-selective-poisoned-out",
  "naive-diff-out", "lily-out", "lily-poisoned-out",
  "lily-selective-poisoned-out", "coverage-data" }

\* "rosa-out" and "fuzzer-out" are the output directories of the ROSA
\* configuration; every tool of the suite writes to these first.
Dirs == Outputs \cup {"rosa-out", "fuzzer-out"}

(***************************************************************************)
(* Content of a directory: `by` is the epoch that wrote it (0: it does not *)
(* exist), `from` the epochs whose fuzzing data it rests on, `residue`     *)
(* tells that foreign files lie in it: a directory that shutil.move put    *)
(* inside, or raw profiles of an unfinished coverage collection.           *)
(***************************************************************************)
Content == [by : 0 .. MaxEpochs, from : SUBSET Epochs, residue : BOOLEAN]
Absent  == [by |-> 0, from |-> {}, residue |-> FALSE]

Present(d)   == scratch[d].by # 0
Written(src) == [by |-> epoch, from |-> src, residue |-> FALSE]

Ended   == {"idle", "done", "failed", "interrupted"}
Running == {
  "loop", "calibrate", "keep-rosa", "keep-fuzzer", "corpus", "poison",
  "select", "source", "keep-source", "keep-queue", "simulate", "keep-sim",
  "simulate-p", "keep-sim-p", "simulate-s", "keep-sim-s", "naive", "filter",
  "filter-p", "filter-s", "coverage", "store", "unlink", "clear" }

TypeOK ==
  /\ pc \in Ended \cup Running
  /\ run \in 0 .. Runs
  /\ epoch \in 0 .. MaxEpochs
  /\ scratch \in [Dirs -> Content]
  /\ stored \in [Epochs -> [Outputs -> Content]]
  /\ moved \in 0 .. Len(StoreList)

Init ==
  /\ pc = "idle"
  /\ run = 0
  /\ epoch = 0
  /\ scratch = [d \in Dirs |-> Absent]
  /\ stored = [e \in Epochs |-> [d \in Outputs |-> Absent]]
  /\ moved = 0

-----------------------------------------------------------------------------
(***************************************************************************)
(* How an invocation proceeds and ends.                                    *)
(***************************************************************************)
Goto(from, to) == pc = from /\ pc' = to

\* An assertion fails or a call raises: the traceback ends the script with
\* status 1.  A KeyboardInterrupt is swallowed by main(): status 0.
Raise(from)     == Goto(from, "failed")
RaiseOrInterrupt(from) == pc = from /\ pc' \in {"failed", "interrupted"}

\* run-benchmark.py is called for the next experiment of the container.
Invoke ==
  /\ pc \in Ended
  /\ pc' = "loop"
  /\ run' = 0
  /\ UNCHANGED <<epoch, scratch, stored, moved>>

\* for run in range(runs): os.makedirs(run_dir).
StartRun ==
  /\ run < Runs
  /\ epoch < MaxEpochs
  /\ Goto("loop", "calibrate")
  /\ epoch' = epoch + 1
  /\ moved' = 0
  /\ UNCHANGED <<run, scratch, stored>>

Finish ==
  /\ run = Runs
  /\ Goto("loop", "done")
  /\ UNCHANGED <<run, epoch, scratch, stored, moved>>

\* Ctrl-C between two statements.
Interrupt ==
  /\ pc \in Running
  /\ pc' = "interrupted"
  /\ UNCHANGED <<run, epoch, scratch, stored, moved>>

-----------------------------------------------------------------------------
(***************************************************************************)
(* The calls run() is made of.                                             *)
(***************************************************************************)

\* A tool of the ROSA suite ends with status 0 having written `outs`.  An
\* output directory that is already there is started over.
ToolSucceeds(from, to, outs, src) ==
  /\ Goto(from, to)
  /\ scratch' = [d \in Dirs |-> IF d \in outs THEN Written(src) ELSE scratch[d]]
  /\ UNCHANGED <<run, epoch, stored, moved>>

\* It fails or is interrupted with any part of its output written (none,
\* when it refuses an output directory that is already there).
ToolDies(from, outs, src) ==
  /\ RaiseOrInterrupt(from)
  /\ \E part \in SUBSET outs :
       scratch' = [d \in Dirs |-> IF d \in part THEN Written(src) ELSE scratch[d]]
  /\ UNCHANGED <<run, epoch, stored, moved>>

Tool(from, to, outs, src) ==
  ToolSucceeds(from, to, outs, src) \/ ToolDies(from, outs, src)

\* shutil.move inside the scratch directory: a rename when dst is free; when
\* dst is a directory, src is put INSIDE it under its own name, unless that
\* name is taken there.
MoveMerges(from, to, src, dst) ==  \* mutant: dst absorbs the files of src
  /\ Present(src)
  /\ Goto(from, to)
  /\ scratch' = [scratch EXCEPT ![dst] = [by |-> scratch[src].by,
                                          from |-> @.from \cup scratch[src].from,
                                          residue |-> @.residue],
                                ![src] = Absent]
  /\ UNCHANGED <<run, epoch, stored, moved>>

Move(from, to, src, dst) ==
  /\ \/ /\ Present(src) /\ ~Present(dst)
        /\ Goto(from, to)
        /\ scratch' = [scratch EXCEPT ![dst] = scratch[src], ![src] = Absent]
     \/ /\ Present(src) /\ Present(dst) /\ ~scratch[dst].residue
        /\ Goto(from, to)
        /\ scratch' = [scratch EXCEPT ![dst].residue = TRUE, ![src] = Absent]
     \/ /\ ~Present(src) \/ scratch[dst].residue
        /\ Raise(from)
        /\ UNCHANGED scratch
  /\ UNCHANGED <<run, epoch, stored, moved>>

\* os.makedirs(d) or shutil.copytree(_, d), which refuse a d that exists,
\* then the work that fills d.
NewDir(from, to, d, src) ==
  \/ /\ Present(d)
     /\ Raise(from)
     /\ UNCHANGED <<run, epoch, scratch, stored, moved>>
  \/ /\ ~Present(d)
     /\ Tool(from, to, {d}, src)

-----------------------------------------------------------------------------
(***************************************************************************)
(* construct_phase_one_corpus().                                           *)
(***************************************************************************)
CalibrationRun == Tool("calibrate", "keep-rosa", {"rosa-out", "fuzzer-out"}, {epoch})
KeepCalibrationRosa   == Move("keep-rosa", "keep-fuzzer", "rosa-out", "rosa-out-phase-one")
KeepCalibrationFuzzer == Move("keep-fuzzer", "corpus", "fuzzer-out", "fuzzer-out-phase-one")

\* The test inputs are read from rosa-out-phase-one/traces.
NormalCorpusReuses ==  \* mutant: os.makedirs(_, exist_ok=True)
  Tool("corpus", "poison", {"phase-one-corpus"}, scratch["rosa-out-phase-one"].from)

NormalCorpus ==
  NewDir("corpus", "poison", "phase-one-corpus", scratch["rosa-out-phase-one"].from)
PoisonedCorpus ==
  NewDir("poison", "select", "phase-one-corpus-poisoned", scratch["phase-one-corpus"].from)
SelectiveCorpus ==
  NewDir("select", "source", "phase-one-corpus-selective-poisoned",
         scratch["rosa-out-phase-one"].from \cup scratch["phase-one-corpus-poisoned"].from)

-----------------------------------------------------------------------------
(***************************************************************************)
(* The rest of run(): RosaSource, the simulated variants, NaiveDiff, the   *)
(* filtered variants, coverage.                                            *)
(***************************************************************************)
SourceRun  == Tool("source", "keep-source", {"rosa-out", "fuzzer-out"}, {epoch})
KeepSource == Move("keep-source", "keep-queue", "rosa-out", "rosa-source-out")
KeepQueue  == Move("keep-queue", "simulate", "fuzzer-out", "fuzzer-source-out")

\* rosa-simulate reads rosa-source-out and a phase-one corpus.
Simulate(from, to, corpus) ==
  Tool(from, to, {"rosa-out"}, scratch["rosa-source-out"].from \cup scratch[corpus].from)

SimulateNormal   == Simulate("simulate", "keep-sim", "phase-one-corpus")
KeepNormal       == Move("keep-sim", "simulate-p", "rosa-out", "lily-corpus-out")
SimulatePoisoned == Simulate("simulate-p", "keep-sim-p", "phase-one-corpus-poisoned")
KeepPoisoned     == Move("keep-sim-p", "simulate-s", "rosa-out", "lily-corpus-poisoned-out")

\* Selective corpus not empty: simulate it.  (Which of the two branches is
\* taken depends on the inputs, which are abstracted away.)
SimulateSelective ==
  Simulate("simulate-s", "keep-sim-s", "phase-one-corpus-selective-poisoned")
KeepSelective == Move("keep-sim-s", "naive", "rosa-out", "lily-corpus-selective-poisoned-out")

\* Selective corpus empty: copytree() of the RosaSource output.
FallBackOnSource ==
  LET dst == "lily-corpus-selective-poisoned-out" IN
  /\ \/ /\ ~Present(dst)
        /\ Goto("simulate-s", "naive")
        /\ scratch' = [scratch EXCEPT ![dst] = scratch["rosa-source-out"]]
     \/ /\ Present(dst)
        /\ Raise("simulate-s")
        /\ UNCHANGED scratch
  /\ UNCHANGED <<run, epoch, stored, moved>>

\* mutant: run-naive-diff.sh starts with mkdir -p
NaiveDiffReuses ==
  Tool("naive", "filter", {"naive-diff-out"}, scratch["fuzzer-source-out"].from)

\* run-naive-diff.sh stops when its output directory exists.
NaiveDiff == NewDir("naive", "filter", "naive-diff-out", scratch["fuzzer-source-out"].from)

\* rosa-filter-diff on the result of each simulated variant.
FilterNormal    == Tool("filter", "filter-p", {"lily-out"}, scratch["lily-corpus-out"].from)
FilterPoisoned  == Tool("filter-p", "filter-s", {"lily-poisoned-out"},
                        scratch["lily-corpus-poisoned-out"].from)
FilterSelective == Tool("filter-s", "coverage", {"lily-selective-poisoned-out"},
                        scratch["lily-corpus-selective-poisoned-out"].from)

\* collect-coverage.sh: mkdir -p, then every *.profraw of the directory is
\* merged, the leftover ones of an unfinished collection included; they are
\* deleted once merged.
CollectCoverage ==
  LET old == scratch["coverage-data"]
      src == scratch["fuzzer-source-out"].from \cup (IF old.residue THEN old.from ELSE {})
  IN \/ ToolSucceeds("coverage", "store", {"coverage-data"}, src)
     \/ /\ RaiseOrInterrupt("coverage")
        /\ scratch' = [scratch EXCEPT !["coverage-data"] =
                         [by |-> epoch, from |-> src, residue |-> TRUE]]
        /\ UNCHANGED <<run, epoch, stored, moved>>

-----------------------------------------------------------------------------
(***************************************************************************)
(* Storage.  The scratch directory is a tmpfs: shutil.move to run_dir is a *)
(* copy followed by a removal.                                             *)
(***************************************************************************)
StoreCopy ==
  /\ moved < Len(StoreList)
  /\ \/ /\ Present(StoreList[moved + 1])
        /\ pc = "store"
        /\ pc' \in {"unlink", "failed", "interrupted"}  \* cut off: part of the files
        /\ stored' = [stored EXCEPT ![epoch][StoreList[moved + 1]] =
                                       scratch[StoreList[moved + 1]]]
     \/ /\ ~Present(StoreList[moved + 1])
        /\ Raise("store")
        /\ UNCHANGED stored
  /\ UNCHANGED <<run, epoch, scratch, moved>>

StoreRemove ==
  /\ Goto("unlink", "store")
  /\ scratch' = [scratch EXCEPT ![StoreList[moved + 1]] = Absent]
  /\ moved' = moved + 1
  /\ UNCHANGED <<run, epoch, stored>>

\* No space left, or a file that cannot be copied or removed.
StoreFails ==
  /\ pc \in {"store", "unlink"}
  /\ pc' = "failed"
  /\ UNCHANGED <<run, epoch, scratch, stored, moved>>

StoreDone ==
  /\ moved = Len(StoreList)
  /\ Goto("store", "clear")
  /\ UNCHANGED <<run, epoch, scratch, stored, moved>>

\* The paths in the configuration files are rewritten (text only), then the
\* scratch directory is cleared; deletion errors are ignored.
ClearScratch ==
  /\ Goto("clear", "loop")
  /\ \E kept \in SUBSET {d \in Dirs : Present(d)} :
       scratch' = [d \in Dirs |-> IF d \in kept THEN scratch[d] ELSE Absent]
  /\ run' = run + 1
  /\ UNCHANGED <<epoch, stored, moved>>

Construct ==
  \/ CalibrationRun \/ KeepCalibrationRosa \/ KeepCalibrationFuzzer
  \/ NormalCorpus \/ PoisonedCorpus \/ SelectiveCorpus

Variants ==
  \/ SourceRun \/ KeepSource \/ KeepQueue
  \/ SimulateNormal \/ KeepNormal \/ SimulatePoisoned \/ KeepPoisoned
  \/ SimulateSelective \/ KeepSelective \/ FallBackOnSource
  \/ NaiveDiff \/ FilterNormal \/ FilterPoisoned \/ FilterSelective
  \/ CollectCoverage

Storage == StoreCopy \/ StoreRemove \/ StoreFails \/ StoreDone \/ ClearScratch

Next == Invoke \/ StartRun \/ Finish \/ Interrupt \/ Construct \/ Variants \/ Storage

Spec == Init /\ [][Next]_vars

-----------------------------------------------------------------------------
(***************************************************************************)
(* Properties.                                                             *)
(***************************************************************************)

\* Directories of the calibration run, and the ones filled with data of a
\* fuzzing campaign that does not go through a phase-one corpus.
Calibration == {"rosa-out-phase-one", "fuzzer-out-phase-one"}
SourceData  == {"rosa-source-out", "fuzzer-source-out", "naive-diff-out", "coverage-data"}

\* Whatever an earlier invocation left in the scratch directory (it failed
\* or was interrupted anywhere), what reaches a run directory is the output
\* of its own run for every variant, and RosaSource, NaiveDiff and coverage
\* rest on the fuzzing campaign of this run only.  It is the refusals to
\* reuse phase-one-corpus and naive-diff-out, and the order of the moves to
\* run_dir, that rule stale variants out.
OwnOutputs ==
  \A e \in Epochs : \A d \in Outputs : stored[e][d].by # 0 =>
    /\ d \notin Calibration => stored[e][d].by = e
    /\ d \in SourceData => stored[e][d].from = {e}

\* A stale calibration directory can slip in (shutil.move puts the new one
\* inside it), but never without a trace: a stored corpus rests on its own
\* calibration run exactly when no directory lies inside the stored
\* rosa-out-phase-one.
ContaminationShows ==
  \A e \in Epochs : stored[e]["phase-one-corpus"].by # 0 =>
    (stored[e]["phase-one-corpus"].from = {e} <=> ~stored[e]["rosa-out-phase-one"].residue)

\* When run() comes to clear the scratch directory, everything it produced
\* has been moved away, so ignoring deletion errors loses nothing and leaves
\* nothing for the next run of the same invocation.
ScratchDrained == pc = "clear" => \A d \in Dirs : ~Present(d)

\* An invocation that ends with phase-one-corpus still in the scratch
\* directory blocks every later one: none of them gets past the calibration
\* run, however often the benchmark is started again, because os.makedirs
\* refuses and only a run that gets to its end clears the directory.
LeftoverBlocks ==
  [](pc \in Ended /\ Present("phase-one-corpus") => [](pc \notin {"poison", "store"}))
==============================================================================
