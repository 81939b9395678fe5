------------------------------ MODULE NaiveDiff ------------------------------
(***************************************************************************)
(* tools/evaluation/run-naive-diff.sh: the naive differential oracle.  GNU *)
(* parallel runs check_test_input() on every test input of the queue, some *)
(* of them at a time, in shells without `set -e'.  Each job traces its     *)
(* input through both versions and, when the system calls differ, copies   *)
(* it to the directory named after the difference.                         *)
(*                                                                         *)
(* What rosa-showmap prints for a trace is the set of its system calls;    *)
(* diff prints the ones only the old and the ones only the new version     *)
(* makes, so two inputs with different system calls may well share a diff. *)
(* rosa-trace and rosa-showmap are external.  rosa-trace writes the trace, *)
(* or fails without one; rosa-showmap prints the trace, or fails after a   *)
(* part of it.                                                             *)
(***************************************************************************)
EXTENDS FiniteSets, Naturals

CONSTANTS
  Inputs,      \* test inputs of the queue
  Behaviours,  \* sets of system calls a test input can lead to
  Jobs,        \* jobs parallel runs at a time: nproc
  NoTrace      \* there is no such trace file

ASSUME InputsAssumption == IsFiniteSet(Inputs)
ASSUME JobsAssumption == Jobs \in Nat \ {0}
ASSUME NoTraceAssumption == NoTrace \notin Behaviours

VARIABLES
  previous, current,  \* input -> its system calls in either version
  step,      \* input -> where its job is
  trace,     \* trace files: <<hash, version>> -> system calls
  diff,      \* shell variable of the job: <<removed, added>>
  files,     \* the directory of a diff -> inputs copied there
  misread,   \* inputs of which a rosa-showmap printed only a part
  uncopied,  \* inputs whose mkdir or cp failed
  status     \* exit status of the script, once it ended

vars == <<previous, current, step, trace, diff, files, misread, uncopied, status>>
targets == <<previous, current>>

Versions == {"before", "after"}
SameSyscalls == <<{}, {}>>
Difference(b, a) == <<b \ a, a \ b>>
\* A behaviour, or the part of it that rosa-showmap printed.
Shown == {{}} \cup UNION {SUBSET b : b \in Behaviours}
Diffs == {Difference(b, a) : b, a \in Shown}
TrueDiff(i) == Difference(previous[i], current[i])

\* test_input_hash: distinct for distinct paths.
Hash(i) == i

Active == {i \in Inputs : step[i] \notin {"queued", "ok", "failed"}}

TypeOK ==
  /\ previous \in [Inputs -> Behaviours]
  /\ current \in [Inputs -> Behaviours]
  /\ step \in [Inputs -> {"queued", "before", "after", "diff", "cp", "rm", "ok", "failed"}]
  /\ trace \in [Inputs \X Versions -> Behaviours \cup {NoTrace}]
  /\ diff \in [Inputs -> Diffs]
  /\ files \in [Diffs -> SUBSET Inputs]
  /\ misread \in SUBSET Inputs
  /\ uncopied \in SUBSET Inputs
  /\ status \in {"running", "ok", "failed"}
  /\ Cardinality(Active) <= Jobs

Init ==
  /\ previous \in [Inputs -> Behaviours]
  /\ current \in [Inputs -> Behaviours]
  /\ step = [i \in Inputs |-> "queued"]
  /\ trace = [f \in Inputs \X Versions |-> NoTrace]
  /\ diff = [i \in Inputs |-> SameSyscalls]
  /\ files = [d \in Diffs |-> {}]
  /\ misread = {}
  /\ uncopied = {}
  /\ status = "running"

-----------------------------------------------------------------------------
Goto(i, from, to) == step[i] = from /\ step' = [step EXCEPT ![i] = to]

StartJob(i) ==
  /\ Cardinality(Active) < Jobs
  /\ Goto(i, "queued", "before")
  /\ UNCHANGED <<targets, trace, diff, files, misread, uncopied, status>>

\* rosa-trace; its exit status is not looked at.
Trace(i, version, behaviour, to) ==
  /\ Goto(i, version, to)
  /\ \/ trace' = [trace EXCEPT ![<<Hash(i), version>>] = behaviour]
     \/ UNCHANGED trace
  /\ UNCHANGED <<targets, diff, files, misread, uncopied, status>>

TraceBefore(i) == Trace(i, "before", previous[i], "after")
TraceAfter(i)  == Trace(i, "after", current[i], "diff")

\* What rosa-showmap may print: nothing when there is no trace file, and any
\* part of the trace when it fails on the way, or finds the trace file cut
\* short.
Showmap(i, version) ==
  LET t == trace[<<Hash(i), version>>] IN IF t = NoTrace THEN {{}} ELSE SUBSET t

\* Both rosa-showmap, whose exit statuses are not looked at, and the diff of
\* what they printed.
Compare(i) ==
  \E b \in Showmap(i, "before"), a \in Showmap(i, "after") :
    /\ Goto(i, "diff", IF Difference(b, a) = SameSyscalls THEN "rm" ELSE "cp")
    /\ diff' = [diff EXCEPT ![i] = Difference(b, a)]
    /\ misread' = IF trace[<<Hash(i), "before">>] \in {b, NoTrace} /\ trace[<<Hash(i), "after">>] \in {a, NoTrace}
                  THEN misread ELSE misread \cup {i}
    /\ UNCHANGED <<targets, trace, files, uncopied, status>>

\* mkdir -p and syscalls.diff, which are the same for every job that gets
\* there, then cp; their exit statuses are not looked at either.
CopyInput(i) ==
  /\ Goto(i, "cp", "rm")
  /\ \/ /\ files' = [files EXCEPT ![diff[i]] = @ \cup {i}]
        /\ UNCHANGED uncopied
     \/ /\ uncopied' = uncopied \cup {i}
        /\ UNCHANGED files
  /\ UNCHANGED <<targets, trace, diff, misread, status>>

Traced(i) == \A v \in Versions : trace[<<Hash(i), v>>] # NoTrace

\* mutant: rm -f
ForceRemoveTraces(i) ==
  /\ Goto(i, "rm", "ok")
  /\ trace' = [f \in DOMAIN trace |-> IF f[1] = Hash(i) THEN NoTrace ELSE trace[f]]
  /\ UNCHANGED <<targets, diff, files, misread, uncopied, status>>

\* rm is the last command of the job: when a trace file is missing, the job
\* fails.
RemoveTraces(i) ==
  /\ Goto(i, "rm", IF Traced(i) THEN "ok" ELSE "failed")
  /\ trace' = [f \in DOMAIN trace |-> IF f[1] = Hash(i) THEN NoTrace ELSE trace[f]]
  /\ UNCHANGED <<targets, diff, files, misread, uncopied, status>>

\* parallel ends when all jobs did, with the number of failed jobs for a
\* status; `set -e' passes it on.
EndScript ==
  /\ status = "running"
  /\ \A i \in Inputs : step[i] \in {"ok", "failed"}
  /\ status' = IF \E i \in Inputs : step[i] = "failed" THEN "failed" ELSE "ok"
  /\ UNCHANGED <<targets, step, trace, diff, files, misread, uncopied>>

Job(i) ==
  \/ StartJob(i) \/ TraceBefore(i) \/ TraceAfter(i) \/ Compare(i)
  \/ CopyInput(i) \/ RemoveTraces(i)

Next == (\E i \in Inputs : Job(i)) \/ EndScript

Spec == Init /\ [][Next]_vars

-----------------------------------------------------------------------------
(***************************************************************************)
(* Properties.                                                             *)
(***************************************************************************)

\* However the jobs interleave, when the script succeeds every input is in
\* the directory of its own difference and in no other (unless its mkdir or
\* cp failed): no job read another job's trace, and no trace was missing.
\* The status says nothing of rosa-showmap: an input of which it printed a
\* part may be anywhere, but in one directory at most.
GroupsExact ==
  status = "ok" =>
    /\ \A d \in Diffs :
         files[d] \ misread =
           IF d = SameSyscalls THEN {}
           ELSE {i \in Inputs : TrueDiff(i) = d} \ (uncopied \cup misread)
    /\ \A i \in misread, d, e \in Diffs : i \in files[d] \cap files[e] => d = e
==============================================================================
