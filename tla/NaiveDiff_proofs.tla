--------------------------- MODULE NaiveDiff_proofs ---------------------------
(***************************************************************************)
(* Proofs about NaiveDiff, for any inputs, any system calls and any number *)
(* of jobs at a time: when the script succeeds, every test input is in the *)
(* directory of its own difference, unless a rosa-showmap or a cp failed   *)
(* (GroupsExact).                                                          *)
(***************************************************************************)
EXTENDS NaiveDiff, FiniteSetTheorems, TLAPS

(***************************************************************************)
(* The inductive invariant.                                                *)
(***************************************************************************)
Copied == {"rm", "ok", "failed"}

\* A trace file is the trace of the input and the version of its name.
OwnTraces ==
  \A i \in Inputs : /\ trace[<<i, "before">>] \in {previous[i], NoTrace}
                    /\ trace[<<i, "after">>] \in {current[i], NoTrace}

\* A job that had both traces, and saw all of them, has the difference of
\* its input.
Compared ==
  \A i \in Inputs :
    /\ step[i] \in {"cp", "rm"} /\ Traced(i) /\ i \notin misread => diff[i] = TrueDiff(i)
    /\ step[i] = "ok" /\ i \notin misread => diff[i] = TrueDiff(i)
    /\ step[i] = "cp" => diff[i] # SameSyscalls

\* Where the inputs are that have been copied.
Placed ==
  /\ \A i \in Inputs, d \in Diffs : i \in files[d] => step[i] \in Copied /\ diff[i] = d /\ d # SameSyscalls
  /\ \A i \in Inputs : step[i] \in Copied /\ diff[i] # SameSyscalls /\ i \notin uncopied => i \in files[diff[i]]
  /\ \A i \in uncopied : step[i] \in Copied /\ \A d \in Diffs : i \notin files[d]

AllDone == status = "ok" => \A i \in Inputs : step[i] = "ok"

IInv == TypeOK /\ OwnTraces /\ Compared /\ Placed /\ AllDone

-----------------------------------------------------------------------------
\* Differences of what can be shown.
LEMMA DiffsType ==
  /\ SameSyscalls \in Diffs
  /\ \A b, a \in Shown : Difference(b, a) \in Diffs
<1>1. \A b, a \in Shown : Difference(b, a) \in Diffs
  BY DEF Diffs
<1>2. {} \in Shown /\ Difference({}, {}) = SameSyscalls
  BY DEF Shown, Difference, SameSyscalls
<1> QED
  BY <1>1, <1>2

\* The step of one job, and of no other, changes; with it the number of jobs.
LEMMA OneJob ==
  ASSUME TypeOK, NEW i \in Inputs, NEW from, NEW to, Goto(i, from, to),
         to \in {"queued", "before", "after", "diff", "cp", "rm", "ok", "failed"},
         from = "queued" => Cardinality(Active) < Jobs /\ to = "before"
  PROVE  /\ step' \in [Inputs -> {"queued", "before", "after", "diff", "cp", "rm", "ok", "failed"}]
         /\ step[i] = from /\ \A j \in Inputs : step'[j] = IF j = i THEN to ELSE step[j]
         /\ from \notin {"ok", "failed"} => Cardinality(Active') <= Jobs
<1>1. /\ step' \in [Inputs -> {"queued", "before", "after", "diff", "cp", "rm", "ok", "failed"}]
      /\ step[i] = from /\ \A j \in Inputs : step'[j] = IF j = i THEN to ELSE step[j]
  BY DEF TypeOK, Goto
<1>2. IsFiniteSet(Active) /\ Cardinality(Active) \in Nat
  BY InputsAssumption, FS_Subset, FS_CardinalityType DEF Active
<1>3. CASE from = "queued"
  <2>1. Active' = Active \cup {i} /\ i \notin Active
    BY <1>1, <1>3 DEF Active
  <2>2. Cardinality(Active') = Cardinality(Active) + 1
    BY <1>2, <2>1, FS_AddElement
  <2> QED
    BY <1>1, <1>2, <1>3, <2>2, JobsAssumption
<1>4. CASE from \notin {"queued", "ok", "failed"}
  <2>1. Active' = Active \/ Active' = Active \ {i}
    BY <1>1, <1>4 DEF Active
  <2>2. Cardinality(Active') <= Cardinality(Active) /\ Cardinality(Active') \in Nat
    <3>1. Active' \subseteq Active
      BY <2>1
    <3> QED
      BY <1>2, <3>1, FS_Subset, FS_CardinalityType
  <2>3. Cardinality(Active) <= Jobs
    BY DEF TypeOK
  <2> QED
    BY <1>1, <1>2, <2>2, <2>3, JobsAssumption
<1> QED
  BY <1>1, <1>3, <1>4

\* Every command of every job keeps the invariant.
LEMMA StepKeeps ==
  ASSUME IInv, [Next]_vars
  PROVE  IInv'
<1> USE DEF IInv, targets, Hash, Versions
<1>1. ASSUME NEW i \in Inputs, StartJob(i)
      PROVE  IInv'
  <2>1. /\ step' \in [Inputs -> {"queued", "before", "after", "diff", "cp", "rm", "ok", "failed"}]
        /\ step[i] = "queued" /\ \A j \in Inputs : step'[j] = IF j = i THEN "before" ELSE step[j]
        /\ Cardinality(Active') <= Jobs
    BY <1>1, OneJob DEF StartJob
  <2>2. TypeOK'
    BY <1>1, <2>1 DEF StartJob, TypeOK
  <2>3. OwnTraces' /\ Compared'
    BY <1>1, <2>1 DEF StartJob, OwnTraces, Compared, Traced, TrueDiff
  <2>4. Placed' /\ AllDone'
    BY <1>1, <2>1 DEF StartJob, Placed, AllDone, Copied, TypeOK
  <2> QED
    BY <2>2, <2>3, <2>4
<1>2. ASSUME NEW i \in Inputs, TraceBefore(i) \/ TraceAfter(i)
      PROVE  IInv'
  <2>1. PICK v \in Versions, to \in {"after", "diff"} :
          /\ Goto(i, v, to) /\ UNCHANGED <<targets, diff, files, misread, uncopied, status>>
          /\ \/ trace' = [trace EXCEPT ![<<i, v>>] = IF v = "before" THEN previous[i] ELSE current[i]]
             \/ UNCHANGED trace
    BY <1>2 DEF TraceBefore, TraceAfter, Trace
  <2>2. /\ step' \in [Inputs -> {"queued", "before", "after", "diff", "cp", "rm", "ok", "failed"}]
        /\ step[i] = v /\ \A j \in Inputs : step'[j] = IF j = i THEN to ELSE step[j]
        /\ Cardinality(Active') <= Jobs
    BY <2>1, OneJob
  <2>3. /\ trace' \in [Inputs \X Versions -> Behaviours \cup {NoTrace}]
        /\ \A j \in Inputs, w \in Versions : j # i => trace'[<<j, w>>] = trace[<<j, w>>]
        /\ trace'[<<i, "before">>] \in {previous[i], NoTrace}
        /\ trace'[<<i, "after">>] \in {current[i], NoTrace}
    BY <2>1 DEF TypeOK, OwnTraces
  <2>4. TypeOK'
    BY <2>1, <2>2, <2>3 DEF TypeOK
  <2>5. OwnTraces' /\ Compared'
    BY <2>1, <2>2, <2>3 DEF OwnTraces, Compared, Traced, TrueDiff
  <2>6. Placed' /\ AllDone'
    BY <2>1, <2>2 DEF Placed, AllDone, Copied, TypeOK
  <2> QED
    BY <2>4, <2>5, <2>6
<1>3. ASSUME NEW i \in Inputs, Compare(i)
      PROVE  IInv'
  <2>1. PICK b \in Showmap(i, "before"), a \in Showmap(i, "after") :
          /\ Goto(i, "diff", IF Difference(b, a) = SameSyscalls THEN "rm" ELSE "cp")
          /\ diff' = [diff EXCEPT ![i] = Difference(b, a)]
          /\ misread' = IF trace[<<i, "before">>] \in {b, NoTrace} /\ trace[<<i, "after">>] \in {a, NoTrace}
                        THEN misread ELSE misread \cup {i}
          /\ UNCHANGED <<targets, trace, files, uncopied, status>>
    BY <1>3 DEF Compare
  <2> DEFINE d == Difference(b, a)
             to == IF d = SameSyscalls THEN "rm" ELSE "cp"
  <2>2. /\ step' \in [Inputs -> {"queued", "before", "after", "diff", "cp", "rm", "ok", "failed"}]
        /\ step[i] = "diff" /\ \A j \in Inputs : step'[j] = IF j = i THEN to ELSE step[j]
        /\ Cardinality(Active') <= Jobs
    BY <2>1, OneJob
  <2>3. b \in Shown /\ a \in Shown
    <3>1. \A v \in Versions : trace[<<i, v>>] \in Behaviours \cup {NoTrace}
      BY DEF TypeOK
    <3>2. \A v \in Versions : Showmap(i, v) \subseteq Shown
      BY <3>1 DEF Showmap, Shown
    <3> QED
      BY <2>1, <3>2
  <2>4. d \in Diffs
    BY <2>3, DiffsType
  <2>5. misread' \in SUBSET Inputs /\ \A j \in Inputs : j # i => (j \in misread' <=> j \in misread)
    BY <2>1 DEF TypeOK
  <2>6. Traced(i) /\ i \notin misread' => d = TrueDiff(i)
    <3>1. ASSUME Traced(i), i \notin misread'
          PROVE  b = previous[i] /\ a = current[i]
      BY <2>1, <3>1 DEF Traced, OwnTraces
    <3> QED
      BY <3>1 DEF TrueDiff
  <2>7. /\ diff' \in [Inputs -> Diffs] /\ diff'[i] = d /\ \A j \in Inputs : j # i => diff'[j] = diff[j]
        /\ UNCHANGED <<targets, trace, files, uncopied, status>>
    BY <2>1, <2>4 DEF TypeOK
  <2> HIDE DEF d
  <2>8. TypeOK'
    BY <2>2, <2>5, <2>7 DEF TypeOK
  <2>9. OwnTraces' /\ Compared'
    <3>1. \A j \in Inputs : Traced(j)' <=> Traced(j)
      BY <2>7 DEF Traced
    <3>2. \A j \in Inputs : TrueDiff(j)' = TrueDiff(j)
      BY <2>7 DEF TrueDiff
    <3>3. Compared'
      BY <2>2, <2>5, <2>6, <2>7, <3>1, <3>2 DEF Compared
    <3> QED
      BY <2>7, <3>3 DEF OwnTraces
  <2>10. Placed'
    BY <2>2, <2>7 DEF Placed, Copied, TypeOK
  <2>11. AllDone'
    BY <2>2, <2>7 DEF AllDone
  <2> QED
    BY <2>8, <2>9, <2>10, <2>11
<1>4. ASSUME NEW i \in Inputs, CopyInput(i)
      PROVE  IInv'
  <2>1. /\ step' \in [Inputs -> {"queued", "before", "after", "diff", "cp", "rm", "ok", "failed"}]
        /\ step[i] = "cp" /\ \A j \in Inputs : step'[j] = IF j = i THEN "rm" ELSE step[j]
        /\ Cardinality(Active') <= Jobs
    BY <1>4, OneJob DEF CopyInput
  <2>2. diff[i] \in Diffs /\ diff[i] # SameSyscalls
    BY <2>1 DEF TypeOK, Compared
  <2>3. OwnTraces' /\ Compared' /\ AllDone'
    BY <1>4, <2>1 DEF CopyInput, OwnTraces, Compared, AllDone, Traced, TrueDiff
  <2>4. CASE files' = [files EXCEPT ![diff[i]] = @ \cup {i}] /\ UNCHANGED uncopied
    <3>1. \A d \in Diffs : files'[d] = IF d = diff[i] THEN files[d] \cup {i} ELSE files[d]
      BY <2>2, <2>4 DEF TypeOK
    <3>2. TypeOK'
      BY <1>4, <2>1, <2>4 DEF CopyInput, TypeOK
    <3>3. i \notin uncopied
      BY <2>1 DEF Placed, Copied
    <3>4. Placed'
      BY <1>4, <2>1, <2>2, <2>4, <3>1, <3>3 DEF CopyInput, Placed, Copied, TypeOK
    <3> QED
      BY <2>3, <3>2, <3>4
  <2>5. CASE uncopied' = uncopied \cup {i} /\ UNCHANGED files
    <3>1. TypeOK'
      BY <1>4, <2>1, <2>5 DEF CopyInput, TypeOK
    <3>2. \A d \in Diffs : i \notin files[d]
      BY <2>1 DEF Placed, Copied
    <3>3. Placed'
      BY <1>4, <2>1, <2>5, <3>2 DEF CopyInput, Placed, Copied, TypeOK
    <3> QED
      BY <2>3, <3>1, <3>3
  <2> QED
    BY <1>4, <2>4, <2>5 DEF CopyInput
<1>5. ASSUME NEW i \in Inputs, RemoveTraces(i)
      PROVE  IInv'
  <2> DEFINE to == IF Traced(i) THEN "ok" ELSE "failed"
  <2>1. /\ step' \in [Inputs -> {"queued", "before", "after", "diff", "cp", "rm", "ok", "failed"}]
        /\ step[i] = "rm" /\ \A j \in Inputs : step'[j] = IF j = i THEN to ELSE step[j]
        /\ Cardinality(Active') <= Jobs
    BY <1>5, OneJob DEF RemoveTraces
  <2>2. /\ trace' \in [Inputs \X Versions -> Behaviours \cup {NoTrace}]
        /\ \A j \in Inputs, v \in Versions : trace'[<<j, v>>] = IF j = i THEN NoTrace ELSE trace[<<j, v>>]
    BY <1>5 DEF RemoveTraces, TypeOK
  <2>3. TypeOK'
    BY <1>5, <2>1, <2>2 DEF RemoveTraces, TypeOK
  <2>4. OwnTraces'
    BY <1>5, <2>2 DEF RemoveTraces, OwnTraces
  <2>5. Compared'
    <3>1. \A j \in Inputs : j # i => (Traced(j)' <=> Traced(j))
      BY <2>2 DEF Traced
    <3> QED
      BY <1>5, <2>1, <3>1 DEF RemoveTraces, Compared, TrueDiff
  <2>6. Placed' /\ AllDone'
    BY <1>5, <2>1 DEF RemoveTraces, Placed, Copied, AllDone, TypeOK
  <2> QED
    BY <2>3, <2>4, <2>5, <2>6
<1>6. CASE EndScript
  <2>1. UNCHANGED <<targets, step, trace, diff, files, misread, uncopied>>
    BY <1>6 DEF EndScript
  <2>2. TypeOK'
    BY <1>6, <2>1 DEF EndScript, TypeOK, Active
  <2>3. OwnTraces' /\ Compared' /\ Placed'
    BY <2>1 DEF OwnTraces, Compared, Placed, Traced, TrueDiff
  <2>4. AllDone'
    BY <1>6 DEF EndScript, AllDone
  <2> QED
    BY <2>2, <2>3, <2>4
<1>7. CASE UNCHANGED vars
  <2> USE <1>7 DEF vars
  <2>1. TypeOK' /\ OwnTraces' /\ Compared' /\ Placed' /\ AllDone'
    BY DEF TypeOK, OwnTraces, Compared, Placed, AllDone, Traced, TrueDiff, Active
  <2> QED
    BY <2>1
<1> QED
  BY <1>1, <1>2, <1>3, <1>4, <1>5, <1>6, <1>7 DEF Next, Job

\* The inductive invariant holds throughout.
LEMMA Invariance == Spec => []IInv
<1>1. Init => IInv
  <2> SUFFICES ASSUME Init
               PROVE  IInv
    OBVIOUS
  <2>1. Cardinality(Active) <= Jobs
    <3>1. Active = {}
      BY DEF Init, Active
    <3> QED
      BY <3>1, FS_EmptySet, JobsAssumption
  <2>2. TypeOK
    BY <2>1, DiffsType DEF Init, TypeOK
  <2> QED
    BY <2>2 DEF Init, IInv, OwnTraces, Compared, Placed, Copied, AllDone, Versions
<1> QED
  BY <1>1, StepKeeps, PTL DEF Spec

-----------------------------------------------------------------------------
\* The variables keep their types; in particular no more than Jobs test
\* inputs are under way at a time.
THEOREM TypeCorrect == Spec => []TypeOK
  BY Invariance, PTL DEF IInv

\* When the script succeeds the inputs are grouped by their own differences,
\* except those whose copy or whose display of the system calls failed.
THEOREM GroupsAreExact == Spec => []GroupsExact
<1>1. IInv => GroupsExact
  <2> SUFFICES ASSUME IInv, status = "ok"
               PROVE  /\ \A d \in Diffs : files[d] \ misread =
                           IF d = SameSyscalls THEN {}
                           ELSE {i \in Inputs : TrueDiff(i) = d} \ (uncopied \cup misread)
                      /\ \A i \in misread, d, e \in Diffs : i \in files[d] \cap files[e] => d = e
    BY DEF GroupsExact
  <2>1. \A i \in Inputs : step[i] = "ok" /\ (i \notin misread => diff[i] = TrueDiff(i))
    BY DEF IInv, AllDone, Compared
  <2>2. /\ \A d \in Diffs : files[d] \in SUBSET Inputs
        /\ uncopied \in SUBSET Inputs /\ misread \in SUBSET Inputs
    BY DEF IInv, TypeOK
  <2>3. ASSUME NEW d \in Diffs
        PROVE  files[d] \ misread = IF d = SameSyscalls THEN {}
                                    ELSE {i \in Inputs : TrueDiff(i) = d} \ (uncopied \cup misread)
    <3>1. \A i \in Inputs : i \notin misread =>
            (i \in files[d] <=> TrueDiff(i) = d /\ d # SameSyscalls /\ i \notin uncopied)
      BY <2>1, <2>2 DEF IInv, Placed, Copied
    <3> QED
      BY <2>2, <3>1
  <2>4. \A i \in misread, d, e \in Diffs : i \in files[d] \cap files[e] => d = e
    BY <2>2 DEF IInv, Placed
  <2> QED
    BY <2>3, <2>4
<1> QED
  BY <1>1, Invariance, PTL

===============================================================================
