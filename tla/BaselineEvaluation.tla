------------------------- MODULE BaselineEvaluation -------------------------
(***************************************************************************)
(* evaluate_baseline_run() of tools/evaluation/evaluate-benchmark.py: what *)
(* the ground truth says about the output of NaiveDiff.  One witness per   *)
(* directory of naive-diff-out is run by a pool of processes; the verdicts *)
(* are counted, up to a time limit.                                        *)
(*                                                                         *)
(* Directories are numbered in the order of their names, which are hashes: *)
(* the order has nothing to do with time.  Test inputs are numbered in the *)
(* order of their ids, in which their times, where they carry one, grow.   *)
(***************************************************************************)
EXTENDS Naturals, Sequences, FiniteSets, FiniteSetsExt, SequencesExt

CONSTANTS
  N,          \* number of test inputs
  D,          \* number of directories
  Times,      \* times in milliseconds
  NoTime,     \* the name of the test input carries no time
  Limits,     \* time_limit_seconds; NoTime: there is none
  NoBackdoor  \* seconds_to_first_backdoor is None

ASSUME BaselineConstants ==
  /\ N \in Nat /\ D \in Nat
  /\ Times \subseteq Nat /\ NoTime \notin Nat /\ NoBackdoor \notin Nat
  /\ Limits \subseteq Nat \cup {NoTime}

VARIABLES
  dir,       \* input -> the directory it is in; 0: it is in none
  time,      \* input -> its time
  triggers,  \* inputs that make the ground-truth target print the marker
  limit,
  baseline_pc,
  next,      \* next directory, or next result
  last,      \* last_timestamp_milliseconds
  baseline_inputs, milliseconds,  \* the witnesses and their times
  results,   \* verdicts by position; "pending" until the task is done
  tp, fp, seconds

baseline_vars == <<dir, time, triggers, limit, baseline_pc, next, last, baseline_inputs,
  milliseconds, results, tp, fp, seconds>>
baseline_given == <<dir, time, triggers, limit>>

Inputs == 1 .. N
Directories == 1 .. D

\* The test inputs of a directory; a directory that exists always held one,
\* unless the copy of its only input failed.
InputsOf(d) == {i \in Inputs : dir[i] = d}

BaselineTypeOK ==
  /\ dir \in [Inputs -> 0 .. D]
  /\ time \in [Inputs -> Times \cup {NoTime}]
  /\ triggers \in SUBSET Inputs
  /\ limit \in Limits
  /\ baseline_pc \in {"collect", "run", "count", "done", "failed"}
  /\ next \in 1 .. D + 1
  /\ last \in Times \cup {0}
  /\ baseline_inputs \in Seq(Inputs) /\ Len(baseline_inputs) <= D
  /\ milliseconds \in Seq(Times \cup {0}) /\ Len(milliseconds) = Len(baseline_inputs)
  /\ results \in Seq({"yes", "no", "pending"})
  /\ tp \in Nat /\ fp \in Nat /\ tp + fp <= Len(results)
  /\ seconds \in Nat \cup {NoBackdoor}

BaselineInit ==
  /\ dir \in [Inputs -> 0 .. D]
  /\ time \in [Inputs -> Times \cup {NoTime}]
  /\ \A i, j \in Inputs : i < j /\ NoTime \notin {time[i], time[j]} => time[i] <= time[j]
  /\ triggers \in SUBSET Inputs
  /\ limit \in Limits
  /\ baseline_pc = "collect"
  /\ next = 1
  /\ last = 0
  /\ baseline_inputs = <<>>
  /\ milliseconds = <<>>
  /\ results = <<>>
  /\ tp = 0
  /\ fp = 0
  /\ seconds = NoBackdoor

-----------------------------------------------------------------------------
\* mutant: the last file in sorted order
LastWitness(d) == Max(InputsOf(d))

\* sorted(test_input_files)[0]
Witness(d) == Min(InputsOf(d))

\* One turn of the first loop.  (A directory number in which there is no
\* test input stands for no directory, or, when EmptyDirectory is taken, for
\* a directory whose list of test inputs is empty: IndexError.)
Collect ==
  /\ baseline_pc = "collect" /\ next <= D
  /\ next' = next + 1
  /\ IF InputsOf(next) = {}
       THEN UNCHANGED <<last, baseline_inputs, milliseconds>>
       ELSE LET w  == Witness(next)
                ms == IF time[w] = NoTime THEN last ELSE time[w]
            IN /\ last' = ms
               /\ baseline_inputs' = Append(baseline_inputs, w)
               /\ milliseconds' = Append(milliseconds, ms)
  /\ UNCHANGED <<baseline_given, baseline_pc, results, tp, fp, seconds>>

EmptyDirectory ==
  /\ baseline_pc = "collect" /\ next <= D
  /\ InputsOf(next) = {}
  /\ baseline_pc' = "failed"
  /\ UNCHANGED <<baseline_given, next, last, baseline_inputs, milliseconds, results, tp,
                 fp, seconds>>

StartPool ==
  /\ baseline_pc = "collect" /\ next = D + 1
  /\ baseline_pc' = "run"
  /\ results' = [k \in 1 .. Len(baseline_inputs) |-> "pending"]
  /\ UNCHANGED <<baseline_given, next, last, baseline_inputs, milliseconds, tp, fp, seconds>>

Verdict(i) == IF i \in triggers THEN "yes" ELSE "no"

\* evaluate_baseline_test_input() by a worker, in any order; map() keeps the
\* verdicts in the order of the inputs.
Evaluate ==
  /\ baseline_pc = "run"
  /\ \E k \in 1 .. Len(results) :
       /\ results[k] = "pending"
       /\ results' = [results EXCEPT ![k] = Verdict(baseline_inputs[k])]
  /\ UNCHANGED <<baseline_given, baseline_pc, next, last, baseline_inputs, milliseconds,
                 tp, fp, seconds>>

StartCount ==
  /\ baseline_pc = "run" /\ "pending" \notin ToSet(results)
  /\ baseline_pc' = "count"
  /\ next' = 1
  /\ UNCHANGED <<baseline_given, last, baseline_inputs, milliseconds, results, tp, fp, seconds>>

Seconds(ms) == LET s == ms \div 1000 IN IF s = 0 THEN 1 ELSE s
TooLate(s)  == limit # NoTime /\ s > limit

\* One turn of the second loop.
Count ==
  /\ baseline_pc = "count" /\ next <= Len(results)
  /\ next' = next + 1
  /\ LET s == Seconds(milliseconds[next]) IN
       \/ /\ TooLate(s)
          /\ UNCHANGED <<tp, fp, seconds>>
       \/ /\ ~TooLate(s) /\ results[next] = "yes"
          /\ tp' = tp + 1
          /\ seconds' = IF seconds = NoBackdoor THEN s ELSE seconds
          /\ UNCHANGED fp
       \/ /\ ~TooLate(s) /\ results[next] = "no"
          /\ fp' = fp + 1
          /\ UNCHANGED <<tp, seconds>>
  /\ UNCHANGED <<baseline_given, baseline_pc, last, baseline_inputs, milliseconds, results>>

ReturnCounts ==
  /\ baseline_pc = "count" /\ next = Len(results) + 1
  /\ baseline_pc' = "done"
  /\ UNCHANGED <<baseline_given, next, last, baseline_inputs, milliseconds, results, tp,
                 fp, seconds>>

BaselineNext ==
  \/ Collect \/ EmptyDirectory \/ StartPool \/ Evaluate \/ StartCount \/ Count \/ ReturnCounts

BaselineSpec == BaselineInit /\ [][BaselineNext]_baseline_vars

-----------------------------------------------------------------------------
(***************************************************************************)
(* Properties, for queues in which every test input carries its time.      *)
(***************************************************************************)
Timed == \A i \in Inputs : time[i] # NoTime

\* The first test input that shows a difference, for each difference, and
\* the ones of them within the time limit.
First   == {i \in Inputs : dir[i] # 0 /\ \A j \in Inputs : dir[j] = dir[i] => i <= j}
Counted == {i \in First : ~TooLate(Seconds(time[i]))}

\* The counts are those of the ground truth on the first input of every
\* difference found in time, whatever the hashes and however the pool
\* schedules its tasks.
CountsExact ==
  baseline_pc = "done" /\ Timed =>
    /\ tp = Cardinality(Counted \cap triggers)
    /\ fp = Cardinality(Counted \ triggers)

\* seconds_to_first_backdoor is the time of the first true positive, as its
\* docstring says.  (It is that of the one whose hash sorts first.)
SecondsToFirst ==
  baseline_pc = "done" /\ Timed /\ Counted \cap triggers # {} =>
    seconds = Seconds(time[Min(Counted \cap triggers)])
==============================================================================
