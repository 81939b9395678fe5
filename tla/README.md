# Verification of the Lily artifact

The repository runs backdoor-detection experiments: it builds versions of target
programs, fuzzes them with ROSA, evaluates what the variants of Lily find, and packages
the results.  Its own logic is in `tools/` (Python and shell) and
`run-sanity-check.sh`; ROSA, AFL++, LLVM, git and GNU parallel are external.  The target
programs under `targets/` are third party.  One of them, vsftpd 3.0.5, is modelled as
well: it is the target whose correctness rests on processes, signals and timeouts, and so
the one whose behaviour a fuzzer drives through a single schedule only.

A wrong result of the toolchain does not crash: it is a number in a table.  What the
models are after is therefore *provenance* (does a result rest on its own run, its own
versions, its own diff?), *completeness* (is a partly failed step ever taken for a whole
one?) and *termination* of experiments that take hours.

## Inventory

| Component | State | Operations | Talks to |
|---|---|---|---|
| Benchmark runner, `run-benchmark.py` | the scratch directory, the run directories | per run: calibration, three phase-one corpora, RosaSource, three simulated variants, NaiveDiff, three filters, coverage, storing, clearing | ROSA tools, the two scripts below; called by `run.sh` |
| Naive oracle, `run-naive-diff.sh` | its output directory, trace files | one job per test input, in parallel | rosa-trace, rosa-showmap |
| Coverage collection, `collect-coverage.sh` | coverage directory, raw profiles | trace all, merge, delete | rosa-trace, llvm-profdata |
| Evaluation, `evaluate-benchmark.py` | result records | per run: ROSA variants, baseline (pool of target processes), coverage of the patch | rosa-evaluate, target, llvm-cov; reads `full-diff.patch` |
| Experiment driver, `experiment-helpers/run.sh` | experiment directories, packages | name, mkdir, build, diff, benchmark, evaluate, package | all of the above; several containers share the volume |
| Builder, `build-target.sh` | build directories | skip or clean, copy, make | git, compilers |
| Sanity check, `run-sanity-check.sh` | `results.json` | remove, run, extract | `run.sh`, `extract-results.py` |
| Result extraction, `extract-results.py` | none | CSV to JSON summary | packages |
| Representative commits, `get-representative-commits.py` | cache file | bucket and choose commits | git |
| Generators, `tools/startup/` | none | configuration and recipe files | image build |
| vsftpd listener, `standalone.c`, `sysutil.c` | counts, process table, pending signals, limits | accept, count, fork, reap, reload | forks a session per connection |
| vsftpd session processes, `twoprocess.c`, `privsock.c`, `postprivparent.c`, `privops.c`, `prelogin.c` | socket pair, listening socket (parent), address of active mode (child), failed logins | login, hand-over, the six requests of a session | two processes and a socket pair; SIGCHLD, SIGTERM |
| vsftpd transfer, `ftpdataio.c`, `ftpcmdio.c`, `postlogin.c` | data descriptor, i/o handler, the one alarm, flags | read a command, connect, transfer, dispose, reply | client; SIGALRM, SIGURG |

What makes each part correct: a run's directories hold its own run's data, and a partly
done run is never stored as a whole one (benchmark runner); an input is in the corpus its
behaviour selects, whatever order the workers take (phase one); an alarm is filed for
exactly the inputs whose traces differ (naive oracle); the counts and the verdicts are
those of the inputs (evaluation); a package holds the diff of the versions it names, and
no two experiments share a directory (driver, builder); a sanity check reports its own
experiment.  For vsftpd: the counts are those of the children and every child is reaped
(listener); parent and child stay in step and together look like one process (session); no
transfer that was cut off passes for a complete one, and nobody holds a session for ever
(transfer).

Hard behaviour: an invocation cut off anywhere and the next one meeting what it left
(scratch directory, builds, experiment directories); pools and parallel jobs in shared
directories; signals, pipes and timeouts; containers on one volume without locks; text
indices; in vsftpd, signals that are only looked at between system calls, a process killed
between a request and its reply, and handlers that shut connections down under a blocked
call.  `PROJECT.json` lists the hazards by line.

## Modules

| Module | Models | State and actions |
|---|---|---|
| `Benchmark` | `run()`, `construct_phase_one_corpus()` as a pipeline, `collect-coverage.sh` | one action per statement that changes a directory; a directory is its provenance (`by`, `from`, `residue`). `ToolDies`, `Interrupt`, `StoreFails` cut an invocation off anywhere; `Invoke` starts the next one in the same container |
| `PhaseOneCorpus` | the inside of `construct_phase_one_corpus()` | corpora as functions from inputs to traces; the three `Pool.map` calls with tasks in any order, tasks that raise (their chunk is given up) and tasks that never end, because their tool hangs or their worker is killed |
| `NaiveDiff` | `run-naive-diff.sh` | one job per input, every command of `check_test_input()` a step; a rosa-trace that leaves no file, a rosa-showmap that prints a part, a `mkdir` or `cp` that fails, all unnoticed |
| `BaselineEvaluation` | `evaluate_baseline_run()` | the two loops and the pool between them |
| `TargetProcess` | `evaluate_baseline_test_input()` | evaluator, target, child, two bounded pipes, SIGINT |
| `AffectedLines` | `get_affected_lines()`, `evaluate_coverage()` | the loops over segments, hunks and lines |
| `Experiment` | `run.sh`, `build-target.sh`, `run-sanity-check.sh` | containers sharing builds, patches, directories and packages; `contended` is a history of the builds that experiments at work at once got in each other's way with; composes the components: the benchmark and the evaluation are one step each |
| `VsftpdListener` | `vsf_standalone_main()`, `handle_sigchld()`, `handle_sighup()`, the signal framework of `sysutil.c`, `check_limits()` | one action per system call or table operation; delivery of a signal, the look at its flag, `alarm(0)`, the clearing of the flag and the handler are separate steps; the kernel's table of children beside the listener's |
| `VsftpdSession` | parent, pre-login child and session child | each process has a program counter; the socket pair is two queues of requests and reply items; `Kill` ends any process anywhere, `Exited` is the later SIGCHLD |
| `FtpSession` | what a session promises | an abstract specification: logins are limited, one data-connection mode at a time, dropped before it is chosen anew, data only in a mode |
| `VsftpdTransfer` | the command loop and `vsf_ftpdataio_*` | `chk` is the position in `vsf_sysutil_check_pending_actions()`, which every system call runs; one action per call or clean-up step; `lines` is the command connection, into which the client may send ahead, with or without SIGURG |
| `*_proofs` | | theorems about `Benchmark`, `PhaseOneCorpus`, `NaiveDiff`, `Experiment`, `VsftpdTransfer`, `VsftpdSession`, `VsftpdListener`, one module each, and `Evaluation_proofs` about the three models of `evaluate-benchmark.py` (`TargetProcess`, `BaselineEvaluation`, `AffectedLines`), whose names are kept apart (`BaselineSpec`, `LinesSpec`) so that one module can extend all three |

`MC*` modules give the constants for TLC.  Operators whose comment begins with "mutant"
are wrong variants of the definition that follows; nothing uses them except the
`mutants` of `PROJECT.json`, which show that each property can fail.

Abstractions.  Test inputs, traces and versions are model values or small sets; command
lines, messages and file formats are left out.  A tool of the ROSA suite writes its
output directory afresh, or fails with any part of it written.  `shutil.move` is modelled
by what it does: a rename, or a move *into* an existing directory; to `run_dir`, which is
on another file system, a copy and a removal.  A trace is its system calls.  In
`Experiment` a build name stands for one version with one set of patches (which the
shipped recipes respect), and the ground-truth build plays no part.  A patch is
`whole` when both builds were finished as it was taken, and `cut` when git diff failed
after a part of it.

In the vsftpd modules TLS, the one-process model and HTTP are off.  The configuration is
its two limits.  A request with its arguments is one message, a reply one or two items.
Time is abstract: an alarm that is set may fire at any moment.  A transfer is a sequence
of i/o steps that make progress, stall, fail or meet a connection that was shut down; in
`VsftpdSession` it is one step, and in `VsftpdTransfer` the exchange with the parent is
one.  There a line of the command connection is an ABOR (after the telnet characters have
been taken out) or another command; which other command is chosen when it is read.  An
exit, a kill and a `die()` for a reason outside the session are the same in
`VsftpdSession`; a `die()` or `bug()` about the protocol itself is the state "oops".

`VsftpdSession` implements `FtpSession` (`ImplementsSession`) under this mapping: the
phase is "login" until the parent has sent its OK, then "session" while the session child
lives or is still to be forked; the mode is passive while the *parent* listens, active
while the *child* has an address; the data connection is open while the child has the
descriptor or it is in the socket pair.  The mapping is where the two halves of the
state are put together.

## Runs

Passing:

- `benchmark` (50,000 states): two runs per invocation, three over all invocations, so
  that a second invocation, with leftovers, and a run after a complete one both happen.
  Three are enough for data of a first run to reach a third one through a second.
  `OwnOutputs`, `ContaminationShows`, `ScratchDrained`, `LeftoverBlocks`.
- `corpus` (287,000): three inputs, so that a pool has done, pending and stuck tasks at
  once; two behaviours. `CorporaComplete`, `PoisonedIsNormal`, `SelectiveExact`,
  `Terminates`.
- `naive_diff` (2,190,000, up to the names of the inputs): three jobs, two at a time;
  behaviours of one and of two system calls. `GroupsExact`.
  (It would survive jobs sharing trace names: the `rm` of
  the second job would fail. It does not survive `rm -f`.)
- `baseline` (162,000): three inputs in up to two directories, times below a second, at
  the time limit of two seconds after cutting, and beyond. `CountsExact`.
- `target_process` (13,000): pipes of one chunk, three chunks written. What matters is
  whether a pipe is full, so one chunk is enough. `VerdictExact`,
  `EndsUnlessFull`.
- `affected_lines` (117,000): all hunks git can write with at most three lines in the
  changed part, at the start of a file and later, one or two per file, after binary files
  or a deleted one. `LinesFound` against a definition without a loop, `TotalOfCode`.
- `experiment` (6,230,000, up to the names of the containers): two containers, three calls
  in two days, aborted anywhere.  Recipes "a" and "b" share the current version and the
  coverage build, "c", which the sanity check uses, has its own; some builds are finished
  before, the others are made, perhaps by two containers at once.  Three calls are enough
  for one experiment to leave something behind and two others to meet over it.
  `DirExclusive`, `PackagedOwnDiff`, `SanityNotBlocked`, `PackagesKept`.
- `vsftpd_listener` (981,000): two children from two addresses, two sets of limits (one
  session in all; one per address), one edit of a file that may also vanish.  Two children
  are enough for one to be reaped while another is being forked, recorded or admitted, and
  the limit of one for a third connection to be refused.  `NoBug`, `CountsExact`,
  `LimitsRespected`, `ReloadNotLost`, `ZombiesReaped`.
- `vsftpd_session` (26,000): three failed logins; the rest is finite by itself.  `NoOops`,
  `InStep`, `OneReader`, `GrantedServed`, `Answered`, `TermEnds`, `ImplementsSession`.
- `vsftpd_transfer` (181,000): all four combinations of the two timeouts being on or off,
  any number of commands, at most two lines on their way at once (`MaxLines`): enough for
  a command sent ahead to stand before the ABOR that SIGURG announces.  `NoBug`,
  `CutNotComplete`, `OneReply`, `StalledReleased`, `AborAnswered`, `IdleKicked`.

Expected violation, a disagreement between the code and what the repository says of it
(`findings` in `PROJECT.json`):

- `affected_first_file`: the first file of a patch is not counted.
- `baseline_first_backdoor`: `seconds_to_first_backdoor`, "from the start of the run until
  the first true positive" (`evaluate-benchmark.py:61`), is the time of the true positive
  whose hash sorts first (`evaluate-benchmark.py:423`, `:469`), which may be a later one.

Met while modelling and not made runs of their own:

- leftovers of an interrupted calibration become the normal corpus of the next invocation
  (`run-benchmark.py:160`), which according to its docstring "only contains the test inputs
  produced in the calibration run"; `ContaminationShows` says what this leads to;
- neither `subprocess.run()` of `run-benchmark.py` (lines 53 and 70) has a timeout: a
  rosa-trace that hangs keeps `Pool.map` and with it the benchmark waiting for ever
  (`Terminates` excepts it);
- the status of `rosa-showmap` is not looked at (`run-naive-diff.sh:60-61`): one that fails
  after a part of its output files the input under a wrong difference, or drops it, and the
  script still succeeds (`GroupsExact` excepts such inputs);
- two experiments of one volume that share the coverage build evaluate with whichever
  `full-diff.patch` was written last (`run.sh:103`), and two that make the same build at
  once disturb each other; `PackagedOwnDiff` and `SanityNotBlocked` except the builds that
  experiments have contended for, and only those;
- a `git diff` that fails after a part of its output is hidden by `|| true` (`run.sh:103`):
  the patch that was cut short is evaluated with and packaged (`PackagedOwnDiff` allows
  for `cut`);
- the comment at `run-benchmark.py:219` says the opposite of the filter below it; the
  model follows the code;
- `wait()` after the SIGINT does not read the pipes, so a target that prints in its
  handler may block both; `EndsUnlessFull` says exactly when;
- a build left unfinished by one container is skipped by the next, whose diff is then of
  half-made sources; its benchmark fails for want of a `config.toml`, so that the diff is
  not packaged (`PackagedOwnDiff`);
- a second sanity check on the same day fails, since the package of the first is still
  there (`SanityNotBlocked` allows for it);
- a package is checked for before it is written, "to avoid overwriting precious data"
  (`run.sh:143`); a sanity check in another container, which removes the directory of its
  recipe under an experiment at work, lets both of them pass that check and write
  (`PackagesKept` excepts its recipes);
- the `i > 1` at `evaluate-benchmark.py:226` misses the line before a removal when that
  line is the first of its hunk; it is the exception in `LinesFound`;
- vsftpd's comment at `sysutil.c:126` says the alarm is fired "repeatedly until the signal
  is handled".  The `alarm(0)` for one signal also cancels the alarm of another: a SIGHUP
  that arrives after its own turn in the loop over the flags and before the `alarm(0)` for
  SIGCHLD waits for the next connection.  SIGCHLD
  cannot be lost this way in the listener, because it comes later in the loop
  (`ZombiesReaped`);
- `handle_sighup()` says that an invalid configuration does not crash the listener
  (`standalone.c:263`), but one that is not a regular file, belongs to somebody else or
  vanishes between the read and the `stat()` does (`parseconf.c:233-238`);
- the idle alarm also strikes while a command waits for its data connection or for a lock
  on the file, although `vsftpd.conf.5:714` speaks of the time "between FTP commands";
- without an idle timeout, a data alarm that fires in the lingering close after progress
  is set again by its handler once the transfer is over, and later ends an idle session
  although no data transfer has stalled (`vsftpd.conf.5:682`);
- an ABOR that arrives before the data connection exists is answered only after the
  transfer (`postlogin.c:1393`);
- `handle_sigurg()` takes the next line, whichever it is: a command that was sent ahead is
  swallowed and answered "500 Unknown command." in the middle of the transfer
  (`postlogin.c:1417-1421`), an empty one too, and the ABOR behind it then waits for the
  end of the transfer.  The command loop leaves an empty line unanswered
  (`postlogin.c:437-441`).  In `OneReply` the 500 is part of the step that takes the line,
  and never takes the place of a reply that the transfer or an ABOR is still to get;
- a second ABOR taken during one transfer shares the answer of the first;
- SIGURG without a line lets the handler block in its read, under the transfer, until the
  data alarm ends the session;
- were passive and active mode ever both active, `pasv_active()` and `port_active()` would
  call each other for ever instead of reaching their `bug()`; `NoOops` shows they never are.

Deadlock is checked in `benchmark`.  The other systems end, or, in `target_process`, may
really block.

Fairness.  `PhaseOneCorpus`: the main process goes on, and so do the workers,
except one that was killed and one whose tool hangs, which nothing ends: `Pool.map` then
waits for ever and `Terminates` promises nothing.  `TargetProcess`: the evaluator, a signal
handler that is not blocked, the clock and signal delivery; *not* the exit of a target or
of its child, which nothing guarantees.
`VsftpdListener`: the listener when it is not blocked in `accept()`, signal delivery and
the alarm; no connection ever has to come.  `VsftpdSession`: processes that can run do;
no client has to send anything and nobody has to be killed.  Its `Transfer`, one step, is
taken to end, which supposes a data timeout that is on, as it is by default (or a client
that does not stall).  `VsftpdTransfer`: the same,
the clock, and strong fairness of the end of a transfer that does not stall, because a
file is finite while every chunk of it is a step; a client may stall for ever.  The calls
that wait for the data connection return (strong fairness, since a signal may interrupt
them again and again and they are then tried anew).  SIGURG sets no alarm
(`postlogin.c:109`), so that it may go unnoticed by a blocked call: its interruption of
one is not fair.
The runs of `Benchmark`, `NaiveDiff`, `BaselineEvaluation`, `AffectedLines` and
`Experiment` check safety only, and need no fairness.

Every module has a `TypeOK` (`BaselineTypeOK`, `LinesTypeOK`), all but that of `FtpSession`
proved below; `vsftpd_session` checks its own, which holds the bound on failed logins.

## Proofs

The theorems hold for every value of the constants; for each model there is one inductive
invariant (`IInv`, `BInv`, `AInv`), the conjunction of named parts, `Init => IInv` and
`IInv /\ [Next]_vars => IInv'`, mostly one step per action, and the properties as
consequences.  TLC has checked every part of each `IInv` on the bounds of the run.  The
assumptions are the named `ASSUME`s of the modules: bounds and capacities are natural
numbers, markers (`None`, `NoFile`, `NoTrace`) are none of the values they stand beside,
`Pids` (process numbers) and `Inputs` of the naive oracle (files of a directory) are
finite, `Streams` and `Recipes` are not empty, patches are sequences of sequences of
hunks.

`Benchmark_proofs`: `TypeCorrect`, `RunsStoreTheirOwn` (`OwnOutputs`),
`NothingLeftToClear` (`ScratchDrained`), `ContaminationIsVisible` (`ContaminationShows`),
`LeftoverStaysInTheWay` (`LeftoverBlocks`).  `OwnOutputs` speaks of stored directories
only and is not inductive: that a directory is the run's own when it is stored follows
from what every earlier statement has established in scratch.  `Pipeline` says, for each
position of the program, which directories are there and by whom they were written.  The
heart of it is `Guarded`: outside the part of a run that works with them, a variant of an
earlier run (a directory that a later move would merge with) is in the scratch directory
only together with `phase-one-corpus` or `naive-diff-out`, the two directories whose
presence stops the next run; this is where the order of the moves in the last loop
matters.  `Own` carries it through a run: either an old `naive-diff-out` will still stop
it, or every variant is its own from its statement on.  `Handover` is the part about
storing.  `Traced`, inductive relative to `IInv`, follows the calibration directory: a
run finds only older ones, the move marks the one it is put into, the corpus has its
provenance, and the mark is stored two moves before the corpus.  `LeftoverBlocks` is
`[](P => []Q)`: `Blocked`, which `P` implies, is stable and implies `Q`.

`PhaseOneCorpus_proofs`: `TypeCorrect`, `CorporaAreComplete`, `PoisonedIsNormalCorpus`,
`SelectiveIsExact`, for any set of inputs and behaviours.  The invariant says for each
corpus how far it is while its pool works (an input that is neither to do nor given up is
done, if no task has raised) and what it is from then on; `Pool.map` raises at the end if
a task did, which is why the `~raised` can be dropped when the function goes on.

`NaiveDiff_proofs`: `TypeCorrect`, `GroupsAreExact`, for any finite set of inputs and any
number of jobs.  A trace file can only hold the trace of the input and version in its name
(`OwnTraces`); a job that had both files, and of which each rosa-showmap printed all, has
the difference of its input (`Compared`); one without a file fails in its `rm`, so a script
that succeeds had them all.  What rosa-showmap printed leaves no such trace in the status:
the history `misread` holds the inputs concerned, and of them only `Placed` is left, that
an input is in one directory at most.

`Evaluation_proofs`, `TargetProcess`: `TypeCorrect`, `VerdictIsExact`, for any capacity,
any amount of output and every disposition.  `NothingLost`: the marker was printed exactly
if it has been read from a stream or is still in its pipe, which the timeout, `wait()` and
the second `communicate()` keep.  At the end of file of all streams nobody is left who
could write or fork (`OutputEnded`), so what was read is all there ever will be.

`Evaluation_proofs`, `BaselineEvaluation`: `BaselineTypeCorrect`, `BaselineCountsAreExact`
(`CountsExact`), for any number of inputs and directories, any times and any order of the
tasks.  The property is about the end of the function; the invariant `BInv` says what each
loop has done so far.  The first: the witnesses are the first inputs of the directories
visited, one for each, in the order of the directories (`Chosen`; the order is what makes
them distinct, without which counting positions would not be counting inputs), each beside
its own time (`Dated`).  The pool: a verdict stands at the position of its input,
whichever task ended first (`Judged`).  The second: the counts are the sizes of the sets
of witnesses passed that count as hits and as misses (`CountedSoFar`).

`Evaluation_proofs`, `AffectedLines`: `LinesTypeCorrect`, `LinesAreFound` (`LinesFound`),
`TotalIsOfCode` (`TotalOfCode`), for patches with any number of files, hunks and lines and
any report.  The reference gives a line its number by counting the lines kept before it;
the loop carries one number along.  `Position` ties the two together: after `i` lines
`current_line_number` is the start plus the kept ones among them, minus one.  `Due(L, k, m)`
says that line `k` is affected and that the loop can know it from its first `m` lines, from
the line itself or from the removed one on either side; every line that is due has been
found, or is the first of its hunk (`Found`).  The heart is `LineFinds`: what becomes due
with one more line is what that line adds, and all that it adds is affected.  At the last
line all affected lines are due; `FoundBefore` collects the files.  No induction over the
sequences is needed, since the loop itself is the induction.  The total is then the size of
a set between two others, all of them finite (`WantedFinite`).

`Experiment_proofs`: `TypeCorrect`, `DirIsExclusive` (`DirExclusive`), `PackagesAreKept`
(`PackagesKept`), `OwnDiffPackaged` (`PackagedOwnDiff`), `SanityIsNotBlocked`
(`SanityNotBlocked`), all of them for any number of containers, any recipes and any builds.
The exceptions are in the properties, and each is needed: a sanity check removes the
directory of its recipe under whoever works there, containers that make a build at once
disturb each other, and recipes that share a coverage build overwrite each other's diff.
The common invariant ties the name of a directory to its recipe and keeps the directory of
an owner in place (`DirKept`).  Check and zip of a package are two steps, and what makes
them one is the directory: `NoPackageYet` holds between them because whoever could write a
package of that name would have to own it.  For the diff, `contended` records at each start
which builds the new experiment has in common with one at work, unfinished or as the home
of both patches.  `Apart` says that two experiments at work have any other build in common
only when it is finished, and keep their patches apart; hence such a build is never broken
and is worked on by at most one container (`Undisturbed`), the patch is the one that its
experiment wrote until the benchmark starts (`DiffTaken`), and complete runs show that the
builds were finished, so the diff is of whole sources (`DiffReady`).  An experiment with
the recipe of the sanity check that is at work at once would contend for the home of the
patch: otherwise the directory that the sanity check has removed stays away until its
`mkdir` (`Unblocked`).

`VsftpdTransfer_proofs`: `TypeCorrect`, `NoBugReached`, `CutIsReported`, `RepliedOnce`.
The descriptor and the i/o handler are there exactly during a transfer (`Descriptor`); a
connection that was shut down has left its mark in one of the flags for as long as the
result can still be corrected, and in the result after that (`CutKnown`); `ReplyDue`
says, for each position of the command loop, how many final replies are still due to the
line that the loop has read, and `AborDue` that one is due to a taken ABOR exactly while its
flag is set, which `check_abor()` looks at behind every transfer.  They are for any number
of lines on their way, and for SIGURG at any moment.

`VsftpdSession_proofs`: `TypeCorrect`, `NoOopsReached`, `StaysInStep`, `ReadByOne`,
`GrantIsServed`, and `Refinement` (`Spec => ImplementsSession`), for any limit of failed
logins.  `Order` says which children exist when the parent is where it is,
`LoginExchange` and `SessionExchange` that the contents of the socket pair are a function
of where the two processes are, `ModeKnown` and `ModeChosen` put together what the parent
knows of passive mode and the child of active mode.  For the refinement there is one step
per action: it is a step of `FtpSession` or leaves phase, logins, mode and data connection
as they are.  The delicate ones are the ends of processes (a descriptor in the socket pair
goes with the child), and the choice of a mode, where the abstract step is taken by
whichever process makes the other's mode go away.

`VsftpdListener_proofs`: `TypeCorrect`, `NoBugReached`, `CountsAreExact`, `LimitsHold`,
`ReloadIsNotLost`, for any finite set of process numbers, any addresses and any limits.
`Counted` is `CountsExact` extended to the end of the listener.  `LimitsRespected` needs
`Allowed`, a statement about *every* set of sessions that serve or may yet be admitted:
one of them, the last launched, was told a count at least the size of the set.  The
property of all sessions alone is not inductive, since a session that ends may be the
very one that allows for the others.  `Told` follows a SIGHUP from its arrival through
the reload.

Only model-checked: the liveness properties (`Terminates`, `EndsUnlessFull`,
`ZombiesReaped`, `Answered`, `TermEnds`, `StalledReleased`, `AborAnswered`, `IdleKicked`),
since the prover handles neither fairness nor `ENABLED`.  Every invariant, the action
properties and the refinement that the passing runs check are proved.

## Not modelled

- The other target programs (libpng, libsndfile, libtiff, libxml2, lua, openssl, php,
  poppler, proftpd, sqlite3, sudo, and the other versions of vsftpd), which are by far
  most of the lines under `targets/`: third-party code that the artifact builds and fuzzes
  as it is.  Most of it is parsers and libraries without processes, messages or failures
  of their own, and none of the artifact's results rests on how it works inside.
- Of vsftpd: TLS and its slave process, the one-process model, HTTP, the sandboxes,
  string, file and directory handling, logging, and the commands that touch neither the
  parent nor a data connection.
- `extract-results.py`, `get-representative-commits.py`: sequential scripts without state
  but a cache file; the generators and recipes (text); the Docker wrappers.

## Plan

Done in this order: `Benchmark` and its proofs, `PhaseOneCorpus`, `NaiveDiff`,
`BaselineEvaluation`, `TargetProcess`, `Experiment`, `AffectedLines`, `VsftpdSession` with
`FtpSession`, `VsftpdListener`, `VsftpdTransfer`.  The proofs
followed in the order of `Benchmark`, `VsftpdTransfer`, `VsftpdSession` with the
refinement, `VsftpdListener`, `PhaseOneCorpus`, `NaiveDiff`, `TargetProcess`, `Experiment`,
`BaselineEvaluation`, `AffectedLines`.

Open: `get-representative-commits.py` (a stale cache) and `extract-results.py` ("at least
half" at exactly half), about which there is no property; the liveness properties for every
value of the constants.
