-------------------------- MODULE Evaluation_proofs --------------------------
(***************************************************************************)
(* Proofs about the three models of evaluate-benchmark.py, in three parts. *)
(*                                                                         *)
(* TargetProcess: for every capacity of the pipes and every amount of      *)
(* output, whatever the target does on SIGINT, the verdict is about all of *)
(* the output (VerdictExact).                                              *)
(*                                                                         *)
(* BaselineEvaluation: for any number of directories and inputs, the       *)
(* counts are those of the first inputs of the directories (CountsExact).  *)
(*                                                                         *)
(* AffectedLines: for every patch, what the loop over its lines finds is   *)
(* what its definition says (LinesFound), and what is counted is the lines *)
(* of code among that (TotalOfCode).                                       *)
(***************************************************************************)
EXTENDS TargetProcess, BaselineEvaluation, AffectedLines, FiniteSetTheorems,
        WellFoundedInduction, TLAPS

-----------------------------------------------------------------------------
(***************************************************************************)
(*                              TargetProcess                              *)
(***************************************************************************)

\* The marker is among the chunks q.
Marked(q) == \E j \in 1 .. Len(q) : q[j] = "marker"

\* The marker was read from stream s or is still in its pipe.
Seen(s) == "marker" \in read[s] \/ Marked(pipe[s])

-----------------------------------------------------------------------------
(***************************************************************************)
(* The inductive invariant.                                                *)
(***************************************************************************)

\* Output is either read or still in a pipe: none gets lost.
NothingLost == printed <=> \E s \in Streams : Seen(s)

\* Past the second communicate() the output has ended, and stays so: there
\* is no process left to write or to fork.
OutputEnded == pc = "done" => \A s \in Streams : EOF(s)

\* The verdict is what was read.
VerdictOfRead == pc = "done" => (verdict <=> \E s \in Streams : "marker" \in read[s])

IInv ==
  /\ TypeOK
  /\ NothingLost
  /\ OutputEnded
  /\ VerdictOfRead

-----------------------------------------------------------------------------
(***************************************************************************)
(* Lemmas about the pipes.                                                 *)
(***************************************************************************)

\* There is no marker in an empty pipe.
LEMMA NoneMarked == ~Marked(<<>>)
<1>1. Len(<<>>) = 0
  OBVIOUS
<1>2. 1 .. 0 = {}
  OBVIOUS
<1> QED
  BY <1>1, <1>2 DEF Marked

\* Writing a chunk adds the marker exactly when the chunk is the marker.
LEMMA MarkedAppend ==
  ASSUME NEW q \in Seq(Chunk), NEW c \in Chunk
  PROVE  Marked(Append(q, c)) <=> Marked(q) \/ c = "marker"
<1>1. Len(Append(q, c)) = Len(q) + 1 /\ Len(q) \in Nat
  OBVIOUS
<1>2. \A j \in 1 .. Len(q) + 1 : Append(q, c)[j] = IF j = Len(q) + 1 THEN c ELSE q[j]
  OBVIOUS
<1> QED
  BY <1>1, <1>2 DEF Marked

\* Reading a chunk takes the marker out of the pipe only by reading it.
LEMMA MarkedTail ==
  ASSUME NEW q \in Seq(Chunk), q # <<>>
  PROVE  Marked(q) <=> Head(q) = "marker" \/ Marked(Tail(q))
<1>1. Len(q) \in Nat \ {0} /\ Head(q) = q[1] /\ Len(Tail(q)) = Len(q) - 1
  OBVIOUS
<1>2. \A j \in 1 .. Len(q) - 1 : Tail(q)[j] = q[j + 1]
  OBVIOUS
<1>3. ASSUME NEW j \in 1 .. Len(q), q[j] = "marker", j # 1
      PROVE  Marked(Tail(q))
  <2>1. j - 1 \in 1 .. Len(q) - 1 /\ Tail(q)[j - 1] = q[j]
    BY <1>1, <1>2, <1>3
  <2> QED
    BY <1>1, <1>3, <2>1 DEF Marked
<1>4. Marked(Tail(q)) => Marked(q)
  <2>1. ASSUME NEW j \in 1 .. Len(q) - 1, Tail(q)[j] = "marker"
        PROVE  Marked(q)
    <3>1. j + 1 \in 1 .. Len(q) /\ q[j + 1] = "marker"
      BY <1>1, <1>2, <2>1
    <3> QED
      BY <3>1 DEF Marked
  <2> QED
    BY <1>1, <2>1 DEF Marked
<1>5. 1 \in 1 .. Len(q)
  BY <1>1
<1> QED
  BY <1>1, <1>3, <1>4, <1>5 DEF Marked

\* A process writes a chunk to a pipe that is not full.
LEMMA WriteKeeps ==
  ASSUME IInv, NEW s \in Streams, NEW c \in Chunk, Write(s, c), UNCHANGED read
  PROVE  /\ pipe' \in [Streams -> Seq(Chunk)]
         /\ \A t \in Streams : Len(pipe'[t]) <= Capacity
         /\ NothingLost'
<1>1. pipe' = [pipe EXCEPT ![s] = Append(pipe[s], c)] /\ pipe[s] \in Seq(Chunk)
  BY DEF IInv, TypeOK, Write
<1>2. Append(pipe[s], c) \in Seq(Chunk) /\ Len(Append(pipe[s], c)) = Len(pipe[s]) + 1
  BY <1>1
<1>3. Len(pipe[s]) < Capacity /\ Len(pipe[s]) \in Nat /\ Capacity \in Nat
  BY <1>1, ConstantsAssumption DEF Write
<1>4. pipe' \in [Streams -> Seq(Chunk)]
  BY <1>1, <1>2 DEF IInv, TypeOK
<1>5. \A t \in Streams : pipe'[t] = IF t = s THEN Append(pipe[s], c) ELSE pipe[t]
  BY <1>1 DEF IInv, TypeOK
<1>6. \A t \in Streams : Len(pipe'[t]) <= Capacity
  <2>1. \A t \in Streams : Len(pipe[t]) <= Capacity
    BY DEF IInv, TypeOK
  <2>2. Len(pipe[s]) + 1 <= Capacity
    BY <1>3
  <2> QED
    BY <1>2, <1>5, <2>1, <2>2
<1>7. \A t \in Streams : Marked(pipe'[t]) <=> Marked(pipe[t]) \/ (t = s /\ c = "marker")
  BY <1>1, <1>5, MarkedAppend
<1>8. (\E t \in Streams : "marker" \in read'[t] \/ Marked(pipe'[t]))
        <=> (\E t \in Streams : "marker" \in read[t] \/ Marked(pipe[t])) \/ c = "marker"
  BY <1>7, Zenon
<1>9. printed' <=> printed \/ c = "marker"
  BY Zenon DEF Write
<1>10. NothingLost'
  BY <1>8, <1>9, Zenon DEF IInv, NothingLost, Seen
<1> QED
  BY <1>4, <1>6, <1>10

-----------------------------------------------------------------------------
(***************************************************************************)
(* The steps.                                                              *)
(***************************************************************************)

\* The truth values stay truth values.
LEMMA BooleansKept ==
  ASSUME Booleans, [Next]_vars
  PROVE  Booleans'
BY Zenon DEF Booleans, Next, vars, world, Output, Fork, ChildExits, TargetExits, SigintArrives,
  Handler, HandlerWrite, HandlerExits, Evaluator, Read, CommunicateReturns, WaitReturns, Return,
  TimeoutExpired, Write

\* A target that has just been started.
LEMMA InitInv == Init => IInv
<1> SUFFICES ASSUME Init PROVE IInv
  OBVIOUS
<1>1. Booleans
  BY Zenon DEF Init, Booleans
<1>2. TypeOK
  BY <1>1, ConstantsAssumption DEF Init, TypeOK
<1>3. \A s \in Streams : ~Seen(s)
  BY NoneMarked DEF Init, Seen
<1>4. NothingLost
  BY <1>3, Zenon DEF Init, NothingLost
<1>5. pc = "communicate"
  BY DEF Init
<1> QED
  BY <1>2, <1>4, <1>5 DEF IInv, OutputEnded, VerdictOfRead

\* The output that has ended stays so: nobody is left who writes, forks or
\* reads.
LEMMA EndedKept ==
  ASSUME IInv, pc = "done", [Next]_vars
  PROVE  UNCHANGED <<target, pipe, pc, read, verdict>> /\ child' # "running"
<1>1. target = "exited" /\ child # "running"
  BY ConstantsAssumption DEF IInv, OutputEnded, EOF
<1> QED
  BY <1>1 DEF Next, vars, world, Output, Fork, ChildExits, TargetExits, SigintArrives, Handler,
    HandlerWrite, HandlerExits, Evaluator, Read, CommunicateReturns, WaitReturns, Return,
    TimeoutExpired

\* Every step of the target, its child and the evaluator keeps the invariant.
LEMMA StepInv == IInv /\ [Next]_vars => IInv'
<1> SUFFICES ASSUME IInv, [Next]_vars PROVE IInv'
  OBVIOUS
<1> USE ConstantsAssumption
<1>b. Booleans'
  BY BooleansKept DEF IInv, TypeOK
<1>1. ASSUME Output
      PROVE  TypeOK' /\ NothingLost'
  <2>1. PICK s \in Streams, c \in Chunk : Write(s, c)
    BY <1>1 DEF Output
  <2>2. /\ pipe' \in [Streams -> Seq(Chunk)]
        /\ \A t \in Streams : Len(pipe'[t]) <= Capacity
        /\ NothingLost'
    BY <1>1, <2>1, WriteKeeps DEF Output
  <2> QED
    BY <1>1, <1>b, <2>2 DEF Output, IInv, TypeOK
<1>2. ASSUME HandlerWrite
      PROVE  TypeOK' /\ NothingLost'
  <2>1. PICK s \in Streams, c \in Chunk : Write(s, c)
    BY <1>2 DEF HandlerWrite
  <2>2. /\ pipe' \in [Streams -> Seq(Chunk)]
        /\ \A t \in Streams : Len(pipe'[t]) <= Capacity
        /\ NothingLost'
    BY <1>2, <2>1, WriteKeeps DEF HandlerWrite
  <2> QED
    BY <1>2, <1>b, <2>2 DEF HandlerWrite, IInv, TypeOK
<1>3. ASSUME NEW s \in Streams, Read(s)
      PROVE  TypeOK' /\ NothingLost'
  <2>1. pipe[s] \in Seq(Chunk) /\ pipe[s] # <<>>
    BY <1>3 DEF IInv, TypeOK, Read
  <2>2. /\ Tail(pipe[s]) \in Seq(Chunk) /\ Len(Tail(pipe[s])) = Len(pipe[s]) - 1
        /\ Head(pipe[s]) \in Chunk
    BY <2>1
  <2>3. \A t \in Streams : /\ pipe'[t] = IF t = s THEN Tail(pipe[s]) ELSE pipe[t]
                           /\ read'[t] = IF t = s THEN read[s] \cup {Head(pipe[s])} ELSE read[t]
    BY <1>3 DEF IInv, TypeOK, Read
  <2>4. pipe' \in [Streams -> Seq(Chunk)] /\ read' \in [Streams -> SUBSET Chunk]
    BY <1>3, <2>2 DEF IInv, TypeOK, Read
  <2>5. \A t \in Streams : Len(pipe'[t]) <= Capacity
    <3>1. \A t \in Streams : Len(pipe[t]) <= Capacity
      BY DEF IInv, TypeOK
    <3>2. Len(pipe[s]) \in Nat /\ Capacity \in Nat
      BY <2>1
    <3>3. Len(Tail(pipe[s])) <= Capacity
      BY <2>2, <3>1, <3>2
    <3> QED
      BY <2>3, <3>1, <3>3
  <2>6. TypeOK'
    BY <1>3, <1>b, <2>4, <2>5 DEF IInv, TypeOK, Read, world
  <2>7. Marked(pipe[s]) <=> Head(pipe[s]) = "marker" \/ Marked(Tail(pipe[s]))
    BY <2>1, MarkedTail
  <2>8. \A t \in Streams : ("marker" \in read'[t] \/ Marked(pipe'[t]))
                             <=> ("marker" \in read[t] \/ Marked(pipe[t]))
    BY <2>3, <2>7
  <2>9. printed' <=> printed
    BY <1>3, Zenon DEF Read, world
  <2>10. NothingLost'
    BY <2>8, <2>9, Zenon DEF IInv, NothingLost, Seen
  <2> QED
    BY <2>6, <2>10
<1>4. ASSUME UNCHANGED <<pipe, read, printed, writes, left>>
      PROVE  TypeOK' /\ NothingLost'
  <2>1. NothingLost'
    BY <1>4 DEF IInv, NothingLost, Seen
  <2> USE DEF Next, vars, world, Output, Fork, ChildExits, TargetExits, SigintArrives, Handler,
        HandlerWrite, HandlerExits, Evaluator, Read, CommunicateReturns, WaitReturns, Return,
        TimeoutExpired
  <2>2. disposition' \in Dispositions /\ forks' \in Forks
    BY DEF IInv, TypeOK
  <2>3. target' \in {"running", "handling", "exited"}
    BY DEF IInv, TypeOK
  <2>4. child' \in {"none", "running", "exited"}
    BY DEF IInv, TypeOK
  <2>5. writes' \in 0 .. MaxWrites /\ left' \in 0 .. HandlerWrites
    BY <1>4 DEF IInv, TypeOK
  <2>6. pc' \in {"communicate", "wait", "drain", "done"}
    BY DEF IInv, TypeOK
  <2>7. TypeOK'
    BY <1>4, <1>b, <2>2, <2>3, <2>4, <2>5, <2>6 DEF IInv, TypeOK
  <2> QED
    BY <2>1, <2>7
<1>5. TypeOK' /\ NothingLost'
  <2>1. \/ Output \/ HandlerWrite \/ (\E s \in Streams : Read(s))
        \/ UNCHANGED <<pipe, read, printed, writes, left>>
    BY DEF Next, vars, world, Fork, ChildExits, TargetExits, SigintArrives, Handler,
      HandlerExits, Evaluator, CommunicateReturns, WaitReturns, Return, TimeoutExpired
  <2> QED
    BY <2>1, <1>1, <1>2, <1>3, <1>4
<1>6. CASE pc = "done"
  <2>1. UNCHANGED <<target, pipe, pc, read, verdict>> /\ child' # "running"
    BY <1>6, EndedKept
  <2>2. OutputEnded' /\ VerdictOfRead'
    BY <1>6, <2>1 DEF IInv, OutputEnded, VerdictOfRead, EOF
  <2> QED
    BY <1>5, <2>2 DEF IInv
<1>7. CASE pc # "done" /\ pc' = "done"
  <2>1. Return
    BY <1>7 DEF Next, vars, world, Output, Fork, ChildExits, TargetExits, SigintArrives, Handler,
      HandlerWrite, HandlerExits, Evaluator, Read, CommunicateReturns, WaitReturns, TimeoutExpired
  <2>2. OutputEnded'
    BY <2>1 DEF Return, world, OutputEnded, EOF
  <2>3. VerdictOfRead'
    BY <2>1, Zenon DEF Return, VerdictOfRead
  <2> QED
    BY <1>5, <2>2, <2>3 DEF IInv
<1>8. CASE pc' # "done"
  BY <1>5, <1>8 DEF IInv, OutputEnded, VerdictOfRead
<1> QED
  BY <1>6, <1>7, <1>8

\* The inductive invariant holds throughout.
LEMMA Inductive == Spec => []IInv
BY InitInv, StepInv, PTL DEF Spec

-----------------------------------------------------------------------------
(***************************************************************************)
(* The theorems.                                                           *)
(***************************************************************************)

\* The state of the target, of the pipes and of the evaluator is well formed;
\* no pipe holds more than its capacity.
THEOREM TypeCorrect == Spec => []TypeOK
<1>1. IInv => TypeOK
  BY DEF IInv
<1> QED
  BY <1>1, Inductive, PTL

\* evaluate_baseline_test_input() finds the marker exactly when it was
\* written, before or after the timeout, by the target or by a child.
THEOREM VerdictIsExact == Spec => []VerdictExact
<1>1. IInv => VerdictExact
  <2> SUFFICES ASSUME IInv, pc = "done" PROVE verdict = printed
    BY DEF VerdictExact
  <2>1. \A s \in Streams : Seen(s) <=> "marker" \in read[s]
    BY NoneMarked DEF IInv, OutputEnded, EOF, Seen
  <2>2. verdict <=> printed
    BY <2>1, Zenon DEF IInv, NothingLost, VerdictOfRead
  <2> QED
    BY <2>2, Zenon DEF IInv, TypeOK, Booleans
<1> QED
  BY <1>1, Inductive, PTL

-----------------------------------------------------------------------------
(***************************************************************************)
(*                            BaselineEvaluation                           *)
(***************************************************************************)

(***************************************************************************)
(* The inductive invariant.                                                *)
(***************************************************************************)

\* The directories the first loop has been through.
Reached == IF baseline_pc = "collect" THEN 1 .. next - 1 ELSE Directories

Positions == 1 .. Len(baseline_inputs)

\* The witnesses so far are the first inputs of the directories so far, one
\* for each, in the order of the directories.
Chosen ==
  baseline_pc # "failed" =>
    /\ \A k \in Positions : baseline_inputs[k] \in First /\ dir[baseline_inputs[k]] \in Reached
    /\ \A j, k \in Positions : j < k => dir[baseline_inputs[j]] < dir[baseline_inputs[k]]
    /\ \A w \in First : dir[w] \in Reached => \E k \in Positions : baseline_inputs[k] = w
    /\ baseline_pc = "collect" => Len(baseline_inputs) < next

\* A time that stands beside a witness that carries one is its own.
Dated ==
  \A k \in Positions :
    time[baseline_inputs[k]] # NoTime => milliseconds[k] = time[baseline_inputs[k]]

\* A verdict stands at the position of its input, whichever task was first.
Judged ==
  /\ baseline_pc \in {"collect", "failed"} => results = <<>>
  /\ baseline_pc \in {"run", "count", "done"} => Len(results) = Len(baseline_inputs)
  /\ \A k \in 1 .. Len(results) :
       \/ results[k] = Verdict(baseline_inputs[k])
       \/ baseline_pc = "run" /\ results[k] = "pending"

\* The witnesses that the second loop has been through, and the ones of them
\* that count.
Counting == baseline_pc \in {"count", "done"}
Past     == IF Counting THEN {baseline_inputs[k] : k \in 1 .. next - 1} ELSE {}
Hits     == Past \cap Counted \cap triggers
Misses   == (Past \cap Counted) \ triggers

CountedSoFar ==
  /\ Counting => next <= Len(results) + 1 /\ tp + fp <= next - 1
  /\ baseline_pc = "done" => next = Len(results) + 1
  /\ ~Counting => tp = 0 /\ fp = 0
  /\ Timed => tp = Cardinality(Hits) /\ fp = Cardinality(Misses)

BInv == BaselineTypeOK /\ Chosen /\ Dated /\ Judged /\ CountedSoFar

-----------------------------------------------------------------------------
(***************************************************************************)
(* Lemmas.                                                                 *)
(***************************************************************************)

\* A set of natural numbers that is not empty has a least element.
LEMMA Least ==
  ASSUME NEW S \in SUBSET Nat, S # {}
  PROVE  Min(S) \in S /\ \A y \in S : Min(S) <= y
<1> DEFINE R == OpToRel(<, Nat)
<1>1. IsWellFoundedOn(R, Nat)
  BY NatLessThanWellFounded, Zenon
<1>2. \A x, y \in Nat : y < x => <<y, x>> \in R
  BY DEF OpToRel
<1> HIDE DEF R
<1>3. PICK x \in S : \A y \in S : ~ (<<y, x>> \in R)
  BY <1>1, WFMin
<1>4. x \in Nat /\ \A y \in S : y \in Nat /\ ~(y < x)
  BY <1>2, <1>3
<1>5. \A y \in S : x <= y
  BY <1>4
<1> QED
  BY <1>5 DEF Min

\* The witness of a directory is its first input, the only one in First.
LEMMA WitnessIsFirst ==
  ASSUME dir \in [Inputs -> 0 .. D], NEW d \in Directories,
         InputsOf(d) # {}
  PROVE  /\ Witness(d) \in First
         /\ dir[Witness(d)] = d
         /\ \A w \in First : dir[w] = d => w = Witness(d)
<1>1. InputsOf(d) \in SUBSET Nat /\ d # 0
  BY BaselineConstants DEF InputsOf, Inputs, Directories
<1>2. Witness(d) \in InputsOf(d) /\ \A w \in InputsOf(d) : Witness(d) <= w
  BY <1>1, Least DEF Witness
<1>3. Witness(d) \in Inputs /\ dir[Witness(d)] = d
  BY <1>2 DEF InputsOf
<1>4. \A w \in Inputs : dir[w] = d => Witness(d) <= w
  BY <1>2 DEF InputsOf
<1>5. Witness(d) \in First
  BY <1>1, <1>3, <1>4 DEF First
<1>6. ASSUME NEW w \in First, dir[w] = d
      PROVE  w = Witness(d)
  <2>1. w \in Inputs /\ w <= Witness(d)
    BY <1>3, <1>6 DEF First
  <2>2. Witness(d) <= w
    BY <1>4, <1>6, <2>1
  <2> QED
    BY <1>3, <2>1, <2>2, BaselineConstants DEF Inputs
<1> QED
  BY <1>3, <1>5, <1>6

\* A time in seconds is a number.
LEMMA SecondsType ==
  ASSUME NEW ms \in Nat
  PROVE  Seconds(ms) \in Nat
<1>1. ms \div 1000 \in Nat
  OBVIOUS
<1> QED
  BY <1>1 DEF Seconds

\* Sets of inputs are finite.
LEMMA InputsFinite ==
  ASSUME NEW S \in SUBSET Inputs
  PROVE  IsFiniteSet(S)
<1>1. IsFiniteSet(Inputs)
  BY FS_Interval, BaselineConstants DEF Inputs
<1> QED
  BY <1>1, FS_Subset

\* What the properties speak of does not change while the function runs.
LEMMA InputKept ==
  ASSUME UNCHANGED baseline_given
  PROVE  /\ dir' = dir /\ time' = time /\ triggers' = triggers /\ limit' = limit
         /\ First' = First /\ Counted' = Counted /\ Timed' = Timed
<1>1. dir' = dir /\ time' = time /\ triggers' = triggers /\ limit' = limit
  BY DEF baseline_given
<1>2. First' = First /\ Timed' = Timed
  BY <1>1 DEF First, Timed
<1>3. Counted' = Counted
  BY <1>1, <1>2 DEF Counted, TooLate
<1> QED
  BY <1>1, <1>2, <1>3

-----------------------------------------------------------------------------
(***************************************************************************)
(* The steps.                                                              *)
(***************************************************************************)

\* Before the second loop nothing is counted.
LEMMA NothingCounted ==
  ASSUME ~Counting, tp = 0, fp = 0
  PROVE  CountedSoFar
<1>1. Past = {} /\ baseline_pc # "done"
  BY DEF Past, Counting
<1>2. Hits = {} /\ Misses = {}
  BY <1>1 DEF Hits, Misses
<1>3. Cardinality({}) = 0
  BY FS_EmptySet
<1> QED
  BY <1>1, <1>2, <1>3 DEF CountedSoFar

\* Steps before the second loop leave it that way.
LEMMA NothingCountedYet ==
  ASSUME BInv, ~Counting, ~Counting', UNCHANGED <<tp, fp>>
  PROVE  CountedSoFar'
<1>1. tp' = 0 /\ fp' = 0
  BY DEF BInv, CountedSoFar
<1>2. Past' = {} /\ baseline_pc' # "done"
  BY DEF Past, Counting
<1>3. Hits' = {} /\ Misses' = {}
  BY <1>2 DEF Hits, Misses
<1>4. Cardinality({}) = 0
  BY FS_EmptySet
<1> QED
  BY <1>1, <1>2, <1>3, <1>4 DEF CountedSoFar

\* The invariant holds at first.
LEMMA BaselineInitially ==
  ASSUME BaselineInit
  PROVE  BInv
<1>1. CountedSoFar
  BY NothingCounted DEF BaselineInit, Counting
<1>2. Len(<<>>) = 0 /\ 1 .. 0 = {} /\ 1 .. 1 - 1 = {}
  OBVIOUS
<1>3. Positions = {} /\ Reached = {} /\ Len(baseline_inputs) = 0 /\ Len(results) = 0
  BY <1>2 DEF BaselineInit, Positions, Reached
<1>4. BaselineTypeOK
  BY <1>3, BaselineConstants DEF BaselineInit, BaselineTypeOK
<1>5. Chosen /\ Dated /\ Judged
  BY <1>2, <1>3 DEF BaselineInit, Chosen, Dated, Judged
<1> QED
  BY <1>1, <1>4, <1>5 DEF BInv

\* A turn of the first loop appends the witness of its directory, if there
\* is a directory.
LEMMA CollectKeeps ==
  ASSUME BInv, Collect
  PROVE  BInv'
<1>1. /\ baseline_pc = "collect" /\ baseline_pc' = "collect" /\ next \in 1 .. D
      /\ next' = next + 1 /\ UNCHANGED baseline_given
      /\ results' = results /\ tp' = tp /\ fp' = fp /\ seconds' = seconds
  BY BaselineConstants DEF Collect, BInv, BaselineTypeOK
<1>2. /\ dir' = dir /\ time' = time /\ triggers' = triggers /\ limit' = limit
      /\ First' = First
  BY <1>1, InputKept
<1>3. Judged' /\ CountedSoFar'
  <2>1. results = <<>>
    BY <1>1 DEF BInv, Judged
  <2>2. ~Counting /\ ~Counting'
    BY <1>1 DEF Counting
  <2>3. CountedSoFar'
    BY <1>1, <2>2, NothingCountedYet
  <2>4. Len(<<>>) = 0 /\ 1 .. 0 = {}
    OBVIOUS
  <2> QED
    BY <1>1, <2>1, <2>3, <2>4 DEF Judged
<1>4. /\ Reached = 1 .. next - 1 /\ Reached' = 1 .. next /\ next \in Directories
      /\ next \in Nat \ {0}
  BY <1>1, BaselineConstants DEF Reached, Directories
<1>5. /\ dir \in [Inputs -> 0 .. D] /\ time \in [Inputs -> Times \cup {NoTime}]
      /\ baseline_inputs \in Seq(Inputs) /\ milliseconds \in Seq(Times \cup {0})
      /\ Len(milliseconds) = Len(baseline_inputs) /\ Len(baseline_inputs) \in Nat
      /\ Len(baseline_inputs) < next
  BY <1>1 DEF BInv, BaselineTypeOK, Chosen
<1>6. CASE InputsOf(next) = {}
  <2>1. UNCHANGED <<last, baseline_inputs, milliseconds>>
    BY <1>6 DEF Collect
  <2>2. \A w \in First : dir[w] # next
    BY <1>6 DEF First, InputsOf
  <2>3. \A w \in First : dir[w] \in Reached' <=> dir[w] \in Reached
    BY <1>4, <1>5, <2>2 DEF First
  <2>4. Chosen'
    BY <1>1, <1>2, <1>4, <1>5, <2>1, <2>3 DEF BInv, Chosen, Positions
  <2>5. Dated'
    BY <1>2, <2>1 DEF BInv, Dated, Positions
  <2>6. BaselineTypeOK'
    BY <1>1, <1>2, <2>1, BaselineConstants DEF BInv, BaselineTypeOK
  <2> QED
    BY <1>1, <1>3, <2>4, <2>5, <2>6 DEF BInv
<1>7. CASE InputsOf(next) # {}
  <2> DEFINE w  == Witness(next)
             ms == IF time[w] = NoTime THEN last ELSE time[w]
             n  == Len(baseline_inputs)
  <2>1. /\ last' = ms /\ baseline_inputs' = Append(baseline_inputs, w)
        /\ milliseconds' = Append(milliseconds, ms)
    BY <1>7 DEF Collect
  <2>2. w \in First /\ dir[w] = next /\ \A v \in First : dir[v] = next => v = w
    BY <1>4, <1>5, <1>7, WitnessIsFirst
  <2>3. w \in Inputs
    BY <2>2 DEF First
  <2>4. ms \in Times \cup {0}
    BY <1>5, <2>3 DEF BInv, BaselineTypeOK
  <2> HIDE DEF w, ms
  <2>5. /\ n \in Nat /\ Positions = 1 .. n /\ Positions' = 1 .. n + 1
        /\ Len(baseline_inputs') = n + 1 /\ Len(milliseconds') = n + 1
        /\ \A k \in 1 .. n : /\ baseline_inputs'[k] = baseline_inputs[k]
                             /\ milliseconds'[k] = milliseconds[k]
        /\ baseline_inputs'[n + 1] = w /\ milliseconds'[n + 1] = ms
    BY <1>5, <2>1, <2>3, <2>4 DEF Positions
  <2>6. BaselineTypeOK'
    <3>1. baseline_inputs' \in Seq(Inputs) /\ milliseconds' \in Seq(Times \cup {0})
      BY <1>5, <2>1, <2>3, <2>4
    <3>2. Len(baseline_inputs') <= D /\ Len(milliseconds') = Len(baseline_inputs')
      BY <1>1, <1>5, <2>5, BaselineConstants
    <3> QED
      BY <1>1, <1>2, <2>1, <2>4, <3>1, <3>2, BaselineConstants DEF BInv, BaselineTypeOK
  <2>7. Dated'
    <3>1. time[w] # NoTime => ms = time[w]
      BY DEF ms
    <3>2. \A k \in 1 .. n + 1 : k \in 1 .. n \/ k = n + 1
      BY <2>5
    <3> QED
      BY <1>2, <2>5, <3>1, <3>2 DEF BInv, Dated
  <2>8. Chosen'
    <3>1. /\ \A k \in 1 .. n : baseline_inputs[k] \in First /\ dir[baseline_inputs[k]] \in Reached
          /\ \A j, k \in 1 .. n : j < k => dir[baseline_inputs[j]] < dir[baseline_inputs[k]]
          /\ \A v \in First : dir[v] \in Reached => \E k \in 1 .. n : baseline_inputs[k] = v
      BY <1>1, <2>5 DEF BInv, Chosen
    <3>2. \A k \in 1 .. n + 1 : k \in 1 .. n \/ k = n + 1
      BY <2>5
    <3>3. \A k \in 1 .. n + 1 :
            baseline_inputs'[k] \in First /\ dir[baseline_inputs'[k]] \in Reached'
      BY <1>4, <2>2, <2>5, <3>1, <3>2
    <3>4. ASSUME NEW j \in 1 .. n + 1, NEW k \in 1 .. n + 1, j < k
          PROVE  dir[baseline_inputs'[j]] < dir[baseline_inputs'[k]]
      <4>1. j \in 1 .. n
        BY <2>5, <3>4
      <4>2. CASE k \in 1 .. n
        BY <2>5, <3>1, <3>4, <4>1, <4>2
      <4>3. CASE k = n + 1
        <5>1. dir[baseline_inputs[j]] \in 1 .. next - 1
          BY <1>4, <3>1, <4>1
        <5> QED
          BY <1>4, <2>2, <2>5, <4>1, <4>3, <5>1
      <4> QED
        BY <3>2, <4>2, <4>3
    <3>5. ASSUME NEW v \in First, dir[v] \in Reached'
          PROVE  \E k \in 1 .. n + 1 : baseline_inputs'[k] = v
      <4>1. CASE dir[v] = next
        BY <2>2, <2>5, <3>5, <4>1
      <4>2. CASE dir[v] # next
        <5>1. dir[v] \in Reached
          BY <1>4, <3>5, <4>2
        <5>2. PICK k \in 1 .. n : baseline_inputs[k] = v
          BY <3>1, <5>1
        <5> QED
          BY <2>5, <5>2
      <4> QED
        BY <4>1, <4>2
    <3>6. Len(baseline_inputs') < next'
      BY <1>1, <1>4, <1>5, <2>5
    <3> QED
      BY <1>2, <2>5, <3>3, <3>4, <3>5, <3>6 DEF Chosen
  <2> QED
    BY <1>1, <1>3, <2>6, <2>7, <2>8 DEF BInv
<1> QED
  BY <1>6, <1>7

\* Before the second loop: a directory without an input, the start of the
\* pool, and a task of it.
LEMMA PoolKeeps ==
  ASSUME BInv, EmptyDirectory \/ StartPool \/ Evaluate
  PROVE  BInv'
<1>1. /\ UNCHANGED baseline_given
      /\ UNCHANGED <<next, last, baseline_inputs, milliseconds, tp, fp, seconds>>
  BY DEF EmptyDirectory, StartPool, Evaluate
<1>2. /\ dir' = dir /\ time' = time /\ triggers' = triggers /\ limit' = limit
      /\ First' = First
  BY <1>1, InputKept
<1>3. Positions' = Positions /\ Len(baseline_inputs) \in Nat
  BY <1>1 DEF Positions, BInv, BaselineTypeOK
<1>4. Dated'
  BY <1>1, <1>2, <1>3 DEF BInv, Dated
<1>5. \A w : Verdict(w)' = Verdict(w) /\ Verdict(w) \in {"yes", "no"}
  BY <1>2 DEF Verdict
<1>6. CountedSoFar'
  <2>1. ~Counting /\ ~Counting'
    BY DEF EmptyDirectory, StartPool, Evaluate, Counting
  <2> QED
    BY <1>1, <2>1, NothingCountedYet
<1>7. tp' = 0 /\ fp' = 0
  BY <1>1 DEF BInv, CountedSoFar, Counting, EmptyDirectory, StartPool, Evaluate
<1>8. CASE EmptyDirectory
  <2>1. baseline_pc = "collect" /\ baseline_pc' = "failed" /\ results' = results
    BY <1>8 DEF EmptyDirectory
  <2>2. BaselineTypeOK'
    BY <1>1, <1>2, <2>1 DEF BInv, BaselineTypeOK
  <2>3. Chosen' /\ Judged'
    BY <1>1, <1>5, <2>1 DEF BInv, Chosen, Judged
  <2> QED
    BY <1>4, <1>6, <2>2, <2>3 DEF BInv
<1>9. CASE StartPool
  <2>1. /\ baseline_pc = "collect" /\ baseline_pc' = "run" /\ next = D + 1
        /\ results' = [k \in 1 .. Len(baseline_inputs) |-> "pending"]
    BY <1>9 DEF StartPool
  <2>2. /\ Len(results') = Len(baseline_inputs) /\ results' \in Seq({"yes", "no", "pending"})
        /\ \A k \in 1 .. Len(baseline_inputs) : results'[k] = "pending"
    BY <1>3, <2>1
  <2>3. BaselineTypeOK'
    BY <1>1, <1>2, <1>3, <1>7, <2>1, <2>2 DEF BInv, BaselineTypeOK
  <2>4. Judged'
    BY <1>1, <2>1, <2>2 DEF Judged
  <2>5. Reached' = Reached
    BY <2>1, BaselineConstants DEF Reached, Directories
  <2>6. Chosen'
    BY <1>1, <1>2, <1>3, <2>1, <2>5 DEF BInv, Chosen
  <2> QED
    BY <1>4, <1>6, <2>3, <2>4, <2>6 DEF BInv
<1>10. CASE Evaluate
  <2>1. PICK k \in 1 .. Len(results) :
          /\ results[k] = "pending"
          /\ results' = [results EXCEPT ![k] = Verdict(baseline_inputs[k])]
    BY <1>10 DEF Evaluate
  <2>2. baseline_pc = "run" /\ baseline_pc' = "run"
    BY <1>10 DEF Evaluate
  <2>3. results \in Seq({"yes", "no", "pending"}) /\ Len(results) = Len(baseline_inputs)
    BY <2>2 DEF BInv, BaselineTypeOK, Judged
  <2>4. /\ results' \in Seq({"yes", "no", "pending"}) /\ Len(results') = Len(results)
        /\ \A j \in 1 .. Len(results) :
             results'[j] = IF j = k THEN Verdict(baseline_inputs[k]) ELSE results[j]
    BY <1>5, <2>1, <2>3
  <2>5. BaselineTypeOK'
    BY <1>1, <1>2, <2>2, <2>4 DEF BInv, BaselineTypeOK
  <2>6. Judged'
    BY <1>1, <1>5, <2>2, <2>3, <2>4 DEF BInv, Judged
  <2>7. Chosen'
    BY <1>1, <1>2, <1>3, <2>2 DEF BInv, Chosen, Reached
  <2> QED
    BY <1>4, <1>6, <2>5, <2>6, <2>7 DEF BInv
<1> QED
  BY <1>8, <1>9, <1>10

\* The second loop begins when no task is pending, and ends at the last
\* verdict; neither changes what is counted.
LEMMA LoopKeeps ==
  ASSUME BInv, StartCount \/ ReturnCounts
  PROVE  BInv'
<1>1. /\ UNCHANGED baseline_given
      /\ UNCHANGED <<last, baseline_inputs, milliseconds, results, tp, fp, seconds>>
  BY DEF StartCount, ReturnCounts
<1>2. /\ dir' = dir /\ time' = time /\ triggers' = triggers /\ limit' = limit
      /\ First' = First /\ Counted' = Counted /\ Timed' = Timed
  BY <1>1, InputKept
<1>3. Positions' = Positions
  BY <1>1 DEF Positions
<1>4. Dated'
  BY <1>1, <1>2, <1>3 DEF BInv, Dated
<1>5. \A w : Verdict(w)' = Verdict(w)
  BY <1>2 DEF Verdict
<1>6. Chosen'
  BY <1>1, <1>2, <1>3 DEF BInv, Chosen, Reached, StartCount, ReturnCounts
<1>7. CASE StartCount
  <2>1. baseline_pc = "run" /\ baseline_pc' = "count" /\ next' = 1
    BY <1>7 DEF StartCount
  <2>2. \A k \in 1 .. Len(results) : results[k] # "pending"
    <3>1. results \in Seq({"yes", "no", "pending"})
      BY DEF BInv, BaselineTypeOK
    <3> QED
      BY <1>7, <3>1 DEF StartCount, ToSet
  <2>3. Judged'
    BY <1>1, <1>5, <2>1, <2>2 DEF BInv, Judged
  <2>4. tp = 0 /\ fp = 0
    BY <2>1 DEF BInv, CountedSoFar, Counting
  <2>5. Past' = {} /\ Hits' = {} /\ Misses' = {}
    BY <2>1 DEF Past, Hits, Misses
  <2>6. CountedSoFar'
    <3>1. Cardinality({}) = 0 /\ Len(results) \in Nat
      BY FS_EmptySet DEF BInv, BaselineTypeOK
    <3> QED
      BY <1>1, <2>1, <2>4, <2>5, <3>1 DEF CountedSoFar, Counting
  <2>7. BaselineTypeOK'
    BY <1>1, <1>2, <2>1, BaselineConstants DEF BInv, BaselineTypeOK
  <2> QED
    BY <1>4, <1>6, <2>3, <2>6, <2>7 DEF BInv
<1>8. CASE ReturnCounts
  <2>1. baseline_pc = "count" /\ baseline_pc' = "done" /\ next' = next /\ next = Len(results) + 1
    BY <1>8 DEF ReturnCounts
  <2>2. Judged'
    BY <1>1, <1>5, <2>1 DEF BInv, Judged
  <2>3. Past' = Past /\ Hits' = Hits /\ Misses' = Misses
    BY <1>1, <1>2, <2>1 DEF Past, Counting, Hits, Misses
  <2>5. CountedSoFar'
    BY <1>1, <1>2, <2>1, <2>3 DEF BInv, CountedSoFar, Counting
  <2>6. BaselineTypeOK'
    BY <1>1, <1>2, <2>1 DEF BInv, BaselineTypeOK
  <2> QED
    BY <1>4, <1>6, <2>2, <2>5, <2>6 DEF BInv
<1> QED
  BY <1>7, <1>8

\* A turn of the second loop: the witness is a new one, its verdict and its
\* time are its own, so the counts stay those of the witnesses so far.
LEMMA CountKeeps ==
  ASSUME BInv, Count
  PROVE  BInv'
<1> DEFINE w == baseline_inputs[next]
           s == Seconds(milliseconds[next])
<1>1. /\ baseline_pc = "count" /\ baseline_pc' = "count" /\ next' = next + 1
      /\ next \in 1 .. Len(results) /\ UNCHANGED baseline_given
      /\ UNCHANGED <<last, baseline_inputs, milliseconds, results>>
  BY BaselineConstants DEF Count, BInv, BaselineTypeOK
<1>2. /\ dir' = dir /\ time' = time /\ triggers' = triggers /\ limit' = limit
      /\ First' = First /\ Counted' = Counted /\ Timed' = Timed
  BY <1>1, InputKept
<1>3. Positions' = Positions
  BY <1>1 DEF Positions
<1>4. Dated'
  BY <1>1, <1>2, <1>3 DEF BInv, Dated
<1>5. Chosen'
  BY <1>1, <1>2, <1>3 DEF BInv, Chosen, Reached
<1>6. Judged'
  <2>1. \A v : Verdict(v)' = Verdict(v)
    BY <1>2 DEF Verdict
  <2> QED
    BY <1>1, <2>1 DEF BInv, Judged
<1>7. /\ Len(results) = Len(baseline_inputs) /\ Len(results) \in Nat /\ next \in Positions
      /\ Len(baseline_inputs) <= D /\ Len(milliseconds) = Len(baseline_inputs)
      /\ baseline_inputs \in Seq(Inputs) /\ milliseconds \in Seq(Times \cup {0})
  BY <1>1 DEF BInv, BaselineTypeOK, Judged, Positions
<1>8. w \in First /\ w \in Inputs /\ s \in Nat
  <2>1. milliseconds[next] \in Nat
    <3>1. milliseconds[next] \in Times \cup {0}
      BY <1>7 DEF Positions
    <3>2. Times \subseteq Nat /\ 0 \in Nat
      BY BaselineConstants
    <3> QED
      BY <3>1, <3>2
  <2>2. w \in First
    BY <1>1, <1>7 DEF BInv, Chosen
  <2> QED
    BY <2>1, <2>2, SecondsType DEF First
<1>9. results[next] = IF w \in triggers THEN "yes" ELSE "no"
  BY <1>1 DEF BInv, Judged, Verdict
<1>10. Past' = Past \cup {w} /\ w \notin Past /\ Past \subseteq Inputs
  <2>1. /\ Past = {baseline_inputs[k] : k \in 1 .. next - 1}
        /\ Past' = {baseline_inputs[k] : k \in 1 .. next}
    <3>1. next' - 1 = next
      BY <1>1
    <3> QED
      BY <1>1, <3>1 DEF Past, Counting
  <2>2. /\ \A k \in 1 .. next : k \in 1 .. next - 1 \/ k = next
        /\ \A k \in 1 .. next - 1 : k \in 1 .. next /\ k < next /\ k \in Positions
        /\ next \in 1 .. next
    BY <1>1, <1>7 DEF Positions
  <2>3. Past' = Past \cup {w}
    BY <2>1, <2>2
  <2>4. \A k \in 1 .. next - 1 : dir[baseline_inputs[k]] < dir[w]
    BY <1>1, <1>7, <2>2 DEF BInv, Chosen
  <2>5. \A k \in 1 .. next - 1 : baseline_inputs[k] \in Inputs
    BY <1>7, <2>2 DEF Positions
  <2>6. \A k \in 1 .. next - 1 : baseline_inputs[k] # w
    <3>1. dir \in [Inputs -> 0 .. D]
      BY DEF BInv, BaselineTypeOK
    <3>2. dir[w] \in 0 .. D
      BY <1>8, <3>1
    <3>3. ~(dir[w] < dir[w])
      BY <3>2, BaselineConstants
    <3> QED
      BY <2>4, <3>3
  <2> QED
    BY <2>1, <2>3, <2>5, <2>6
<1>11. Timed => (w \in Counted <=> ~TooLate(s)) /\ s = Seconds(time[w])
  <2>1. Timed => milliseconds[next] = time[w]
    BY <1>7, <1>8 DEF BInv, Dated, Timed
  <2> QED
    BY <1>8, <2>1 DEF Counted
<1>12. /\ tp \in Nat /\ fp \in Nat /\ tp + fp <= next - 1
       /\ seconds \in Nat \cup {NoBackdoor} /\ next \in Nat
       /\ Timed => tp = Cardinality(Hits) /\ fp = Cardinality(Misses)
  BY <1>1, <1>7 DEF BInv, BaselineTypeOK, CountedSoFar, Counting
<1>13. /\ IsFiniteSet(Hits) /\ IsFiniteSet(Misses) /\ w \notin Hits /\ w \notin Misses
       /\ Hits \subseteq Inputs
  BY <1>10, InputsFinite DEF Hits, Misses
<1>14. \A v \in Inputs : Timed => time[v] \in Nat
  BY BaselineConstants DEF BInv, BaselineTypeOK, Timed
<1>15. Counting' /\ baseline_pc' # "done" /\ next' <= Len(results') + 1
  BY <1>1, <1>7 DEF Counting
<1>16. /\ dir' \in [Inputs -> 0 .. D] /\ time' \in [Inputs -> Times \cup {NoTime}]
       /\ triggers' \in SUBSET Inputs /\ limit' \in Limits
       /\ baseline_pc' \in {"collect", "run", "count", "done", "failed"}
       /\ next' \in 1 .. D + 1 /\ last' \in Times \cup {0}
       /\ baseline_inputs' \in Seq(Inputs) /\ Len(baseline_inputs') <= D
       /\ milliseconds' \in Seq(Times \cup {0})
       /\ Len(milliseconds') = Len(baseline_inputs')
       /\ results' \in Seq({"yes", "no", "pending"})
  <2>1. next' \in 1 .. D + 1
    BY <1>1, <1>7, BaselineConstants
  <2> QED
    BY <1>1, <1>2, <2>1 DEF BInv, BaselineTypeOK
<1> HIDE DEF w, s
<1>17. CASE TooLate(s) /\ UNCHANGED <<tp, fp, seconds>>
  <2>1. Timed => Hits' = Hits /\ Misses' = Misses
    BY <1>2, <1>10, <1>11, <1>17 DEF Hits, Misses
  <2>3. CountedSoFar'
    BY <1>1, <1>2, <1>12, <1>17, <2>1 DEF CountedSoFar, Counting
  <2>4. tp' + fp' <= Len(results')
    BY <1>1, <1>7, <1>12, <1>17
  <2>5. BaselineTypeOK'
    BY <1>12, <1>16, <1>17, <2>4 DEF BaselineTypeOK
  <2> QED
    BY <1>4, <1>5, <1>6, <2>3, <2>5 DEF BInv
<1>18. CASE /\ ~TooLate(s) /\ results[next] = "yes" /\ tp' = tp + 1 /\ fp' = fp
            /\ seconds' = IF seconds = NoBackdoor THEN s ELSE seconds
  <2>1. w \in triggers
    BY <1>9, <1>18
  <2>2. Timed => Hits' = Hits \cup {w} /\ Misses' = Misses
    BY <1>2, <1>10, <1>11, <1>18, <2>1 DEF Hits, Misses
  <2>3. Cardinality(Hits \cup {w}) = Cardinality(Hits) + 1
    BY <1>13, FS_AddElement
  <2>5. /\ tp' + fp' <= next' - 1 /\ tp' + fp' <= Len(results')
        /\ tp' \in Nat /\ fp' \in Nat /\ seconds' \in Nat \cup {NoBackdoor}
    BY <1>1, <1>7, <1>8, <1>12, <1>18 DEF s
  <2>6. CountedSoFar'
    BY <1>2, <1>12, <1>15, <1>18, <2>2, <2>3, <2>5 DEF CountedSoFar
  <2>7. BaselineTypeOK'
    BY <1>16, <2>5 DEF BaselineTypeOK
  <2> QED
    BY <1>4, <1>5, <1>6, <2>6, <2>7 DEF BInv
<1>19. CASE /\ ~TooLate(s) /\ results[next] = "no" /\ fp' = fp + 1
            /\ UNCHANGED <<tp, seconds>>
  <2>1. w \notin triggers
    BY <1>9, <1>19
  <2>2. Timed => Hits' = Hits /\ Misses' = Misses \cup {w}
    BY <1>2, <1>10, <1>11, <1>19, <2>1 DEF Hits, Misses
  <2>3. Cardinality(Misses \cup {w}) = Cardinality(Misses) + 1
    BY <1>13, FS_AddElement
  <2>5. /\ tp' + fp' <= next' - 1 /\ tp' + fp' <= Len(results')
        /\ tp' \in Nat /\ fp' \in Nat /\ seconds' \in Nat \cup {NoBackdoor}
    BY <1>1, <1>7, <1>12, <1>19
  <2>6. CountedSoFar'
    BY <1>2, <1>12, <1>15, <1>19, <2>2, <2>3, <2>5 DEF CountedSoFar
  <2>7. BaselineTypeOK'
    BY <1>16, <2>5 DEF BaselineTypeOK
  <2> QED
    BY <1>4, <1>5, <1>6, <2>6, <2>7 DEF BInv
<1> QED
  BY <1>17, <1>18, <1>19 DEF Count, w, s

-----------------------------------------------------------------------------
(***************************************************************************)
(* The theorems about BaselineEvaluation.                                  *)
(***************************************************************************)

\* The inductive invariant holds throughout.
LEMMA BaselineInvariance == BaselineSpec => []BInv
<1>1. BInv /\ [BaselineNext]_(baseline_vars) => BInv'
  <2> SUFFICES ASSUME BInv, [BaselineNext]_(baseline_vars)
               PROVE  BInv'
    OBVIOUS
  <2>1. CASE UNCHANGED baseline_vars
    <3>1. UNCHANGED baseline_given /\ UNCHANGED <<baseline_pc, next, last, baseline_inputs,
                                           milliseconds, results, tp, fp, seconds>>
      BY <2>1 DEF baseline_vars, baseline_given
    <3>2. /\ dir' = dir /\ time' = time /\ triggers' = triggers /\ limit' = limit
          /\ First' = First /\ Counted' = Counted /\ Timed' = Timed
      BY <3>1, InputKept
    <3>3. BaselineTypeOK' /\ Chosen' /\ Dated' /\ Judged'
      BY <3>1, <3>2 DEF BInv, BaselineTypeOK, Chosen, Dated, Judged, Reached, Positions, Verdict
    <3>4. Hits' = Hits /\ Misses' = Misses
      BY <3>1, <3>2 DEF Hits, Misses, Past, Counting
    <3>5. CountedSoFar'
      BY <3>1, <3>2, <3>4 DEF BInv, CountedSoFar, Counting
    <3> QED
      BY <3>3, <3>5 DEF BInv
  <2> QED
    BY <2>1, CollectKeeps, PoolKeeps, LoopKeeps, CountKeeps DEF BaselineNext
<1> QED
  BY <1>1, BaselineInitially, PTL DEF BaselineSpec

\* At the end every first input of a directory has been through the loop.
LEMMA AllPast ==
  ASSUME BInv, baseline_pc = "done"
  PROVE  Counted \subseteq Past
<1>1. next = Len(baseline_inputs) + 1 /\ Len(baseline_inputs) \in Nat
  <2>1. next = Len(results) + 1 /\ baseline_inputs \in Seq(Inputs)
    BY DEF BInv, CountedSoFar, BaselineTypeOK
  <2>2. Len(results) = Len(baseline_inputs)
    BY DEF BInv, Judged
  <2> QED
    BY <2>1, <2>2
<1>2. Past = {baseline_inputs[k] : k \in Positions}
  BY <1>1 DEF Past, Counting, Positions
<1>3. ASSUME NEW v \in First
      PROVE  v \in Past
  <2>1. dir[v] \in Directories
    BY <1>3, BaselineConstants DEF First, BInv, BaselineTypeOK, Directories
  <2>2. \E k \in Positions : baseline_inputs[k] = v
    BY <1>3, <2>1 DEF BInv, Chosen, Reached
  <2> QED
    BY <1>2, <2>2
<1> QED
  BY <1>3 DEF Counted

\* The variables of evaluate_baseline_run() have their types.
THEOREM BaselineTypeCorrect == BaselineSpec => []BaselineTypeOK
<1>1. BInv => BaselineTypeOK
  BY DEF BInv
<1> QED
  BY <1>1, BaselineInvariance, PTL

\* For any number of inputs and directories, any times and any schedule of
\* the pool: evaluate_baseline_run() counts the ground truth on the first
\* input of every difference that was found in time.
THEOREM BaselineCountsAreExact == BaselineSpec => []CountsExact
<1>1. BInv => CountsExact
  <2> SUFFICES ASSUME BInv, baseline_pc = "done", Timed
               PROVE  /\ tp = Cardinality(Counted \cap triggers)
                      /\ fp = Cardinality(Counted \ triggers)
    BY DEF CountsExact
  <2>1. Hits = Counted \cap triggers /\ Misses = Counted \ triggers
    BY AllPast DEF Hits, Misses
  <2> QED
    BY <2>1 DEF BInv, CountedSoFar
<1> QED
  BY <1>1, BaselineInvariance, PTL

-----------------------------------------------------------------------------
(***************************************************************************)
(*                              AffectedLines                              *)
(***************************************************************************)

(***************************************************************************)
(* The inductive invariant.                                                *)
(***************************************************************************)
HunkType == [start : Nat, lines : Seq(Mark)]

\* How many of the first m lines are in the new file.
KeptOf(L, m) == Cardinality({j \in 1 .. m : Kept(L[j])})

\* Line k of a hunk is affected, and the loop can know it from its first m
\* lines: from the line itself or from the removed one beside it.
Due(L, k, m) ==
  \/ L[k] = "+" /\ k <= m
  \/ L[k] = "same" /\ k > 1 /\ L[k - 1] = "-" /\ k - 1 <= m
  \/ L[k] = "same" /\ k < Len(L) /\ L[k + 1] = "-" /\ k + 1 <= m

\* What line p of a hunk adds, when the line's number is n.
AddsBefore(L, p, n) == IF p - 1 > 1 /\ Kept(L[p - 1]) THEN {n} ELSE {}
AddsAfter(L, p, n)  == IF p - 1 < Len(L) - 1 /\ Kept(L[p + 1]) THEN {n + 1} ELSE {}
Adds(L, p, n) ==
  CASE L[p] = "+" -> {n}
    [] L[p] = "-" -> AddsBefore(L, p, n) \cup AddsAfter(L, p, n)
    [] L[p] = "same" -> {}

\* Where the loops are.
InSegment == lines_pc \in {"hunk", "lines"}
Position ==
  /\ segment >= 2
  /\ InSegment => segment <= Len(patch) /\ hunk \in 1 .. Len(patch[segment]) + 1
  /\ lines_pc = "lines" =>
       /\ hunk <= Len(patch[segment])
       /\ i <= Len(Lines)
       /\ current_line_number = Hunk.start - 1 + KeptOf(Lines, i)
  /\ lines_pc \in {"coverage", "done"} => segment > Len(patch)

\* The lines found so far in this file: no wrong one, and all that are due in
\* the hunks done and in the part done of the current hunk.
Found ==
  InSegment =>
    /\ IsFiniteSet(affected_lines)
    /\ affected_lines \subseteq Wanted(segment)
    /\ \A k \in 1 .. hunk - 1 :
         WantedOf(patch[segment][k]) \subseteq affected_lines \cup {patch[segment][k].start}
    /\ lines_pc = "lines" =>
         \A k \in 1 .. Len(Lines) :
           Due(Lines, k, i) =>
             NewNumber(Hunk, k) \in affected_lines \cup {Hunk.start}

\* The lines found in the files done.
FoundBefore ==
  /\ IsFiniteSet(result)
  /\ \A l \in result : l[1] \in 2 .. segment - 1 /\ l[2] \in Wanted(l[1])
  /\ \A s \in 2 .. Len(patch) :
       s < segment => \A n \in Wanted(s) \ Starts(s) : <<s, n>> \in result

Totalled == lines_pc = "done" => total = Cardinality(OfCode(result))

AInv == LinesTypeOK /\ Position /\ Found /\ FoundBefore /\ Totalled

-----------------------------------------------------------------------------
(***************************************************************************)
(* Lemmas: the numbers of lines.                                           *)
(***************************************************************************)

\* One more line.
LEMMA KeptNext ==
  ASSUME NEW L, NEW m \in Nat
  PROVE  /\ KeptOf(L, m) \in Nat
         /\ KeptOf(L, m + 1) = KeptOf(L, m) + (IF Kept(L[m + 1]) THEN 1 ELSE 0)
<1> DEFINE S(n) == {j \in 1 .. n : Kept(L[j])}
<1>1. IsFiniteSet(S(m))
  <2>1. IsFiniteSet(1 .. m)
    BY FS_Interval
  <2>2. S(m) \in SUBSET (1 .. m)
    OBVIOUS
  <2> QED
    BY <2>1, <2>2, FS_Subset
<1>2. Cardinality(S(m)) \in Nat
  BY <1>1, FS_CardinalityType
<1>3. m + 1 \notin S(m)
  OBVIOUS
<1>4. 1 .. m + 1 = (1 .. m) \cup {m + 1}
  OBVIOUS
<1>5. CASE Kept(L[m + 1])
  <2>1. S(m + 1) = S(m) \cup {m + 1}
    BY <1>4, <1>5
  <2>2. Cardinality(S(m) \cup {m + 1}) = Cardinality(S(m)) + 1
    BY <1>1, <1>3, FS_AddElement
  <2> QED
    BY <1>2, <1>5, <2>1, <2>2 DEF KeptOf
<1>6. CASE ~Kept(L[m + 1])
  <2>1. S(m + 1) = S(m)
    BY <1>4, <1>6
  <2> QED
    BY <1>2, <1>6, <2>1 DEF KeptOf
<1> QED
  BY <1>5, <1>6

\* Before the first line there is none.
LEMMA KeptNone == \A L : KeptOf(L, 0) = 0
<1> SUFFICES ASSUME NEW L
             PROVE  KeptOf(L, 0) = 0
  OBVIOUS
<1>1. {j \in 1 .. 0 : Kept(L[j])} = {}
  OBVIOUS
<1> QED
  BY <1>1, FS_EmptySet DEF KeptOf

\* The number of a line in the new file, by the lines kept before it.
LEMMA Number ==
  ASSUME NEW h \in HunkType, NEW k \in Nat \ {0}
  PROVE  /\ NewNumber(h, k) = h.start + KeptOf(h.lines, k - 1)
         /\ NewNumber(h, k) \in Nat
<1>1. h.start \in Nat
  BY DEF HunkType
<1>2. k - 1 \in Nat
  OBVIOUS
<1>3. KeptOf(h.lines, k - 1) \in Nat
  BY <1>2, KeptNext
<1>4. NewNumber(h, k) = h.start + KeptOf(h.lines, k - 1)
  BY DEF NewNumber, KeptOf
<1> QED
  BY <1>1, <1>3, <1>4

\* The first line of a hunk is the one in its header.
LEMMA FirstNumber ==
  ASSUME NEW h \in HunkType
  PROVE  NewNumber(h, 1) = h.start
<1>1. h.start \in Nat
  BY DEF HunkType
<1>2. NewNumber(h, 1) = h.start + KeptOf(h.lines, 0)
  BY Number
<1> QED
  BY <1>1, <1>2, KeptNone

\* The wanted lines of a hunk.
LEMMA WantedOfMember ==
  ASSUME NEW h, NEW n
  PROVE  n \in WantedOf(h) <=>
           \E k \in 1 .. Len(h.lines) : Affected(h.lines, k) /\ n = NewNumber(h, k)
BY DEF WantedOf

\* The wanted lines of a file are those of its hunks.
LEMMA WantedMember ==
  ASSUME NEW s, NEW n
  PROVE  n \in Wanted(s) <=> \E k \in 1 .. Len(patch[s]) : n \in WantedOf(patch[s][k])
BY DEF Wanted

\* A line that is due is affected, and every affected line is due in the end.
LEMMA DueIsAffected ==
  ASSUME NEW L \in Seq(Mark), NEW k \in 1 .. Len(L)
  PROVE  /\ \A m \in Nat : Due(L, k, m) => Affected(L, k)
         /\ Affected(L, k) => Due(L, k, Len(L))
<1>1. Len(L) \in Nat /\ k \in Nat /\ k <= Len(L)
  OBVIOUS
<1>2. \A m \in Nat : Due(L, k, m) => Affected(L, k)
  BY DEF Due, Affected
<1>3. k - 1 <= Len(L) /\ (k < Len(L) => k + 1 <= Len(L))
  BY <1>1
<1>4. Affected(L, k) => Due(L, k, Len(L))
  BY <1>1, <1>3 DEF Due, Affected
<1> QED
  BY <1>2, <1>4

\* Before the first line none is due.
LEMMA NoneDue ==
  ASSUME NEW L, NEW k \in Nat \ {0}
  PROVE  ~Due(L, k, 0)
<1>1. ~(k <= 0) /\ ~(k > 1 /\ k - 1 <= 0) /\ ~(k + 1 <= 0)
  OBVIOUS
<1> QED
  BY <1>1 DEF Due

\* The types of what the loops look at.
LEMMA PatchType ==
  ASSUME LinesTypeOK
  PROVE  /\ patch \in Seq(Seq(HunkType)) /\ Len(patch) \in Nat
         /\ \A s \in 1 .. Len(patch) : patch[s] \in Seq(HunkType) /\ Len(patch[s]) \in Nat
         /\ \A s \in 1 .. Len(patch) : \A k \in 1 .. Len(patch[s]) :
              /\ patch[s][k] \in HunkType
              /\ patch[s][k].start \in Nat
              /\ patch[s][k].lines \in Seq(Mark)
              /\ Len(patch[s][k].lines) \in Nat
<1>1. patch \in Seq(Seq(HunkType))
  BY LinesConstants DEF LinesTypeOK, HunkType
<1>2. \A h \in HunkType : /\ h.start \in Nat /\ h.lines \in Seq(Mark)
                          /\ Len(h.lines) \in Nat
  BY DEF HunkType
<1>3. \A s \in 1 .. Len(patch) : patch[s] \in Seq(HunkType) /\ Len(patch[s]) \in Nat
  BY <1>1
<1>4. \A s \in 1 .. Len(patch) : \A k \in 1 .. Len(patch[s]) : patch[s][k] \in HunkType
  BY <1>3
<1> QED
  BY <1>1, <1>2, <1>3, <1>4

-----------------------------------------------------------------------------
(***************************************************************************)
(* Lemmas: the sets are finite.                                            *)
(***************************************************************************)

\* The values of a function on an interval.
LEMMA ImageFinite ==
  ASSUME NEW n \in Nat, NEW f, DOMAIN f = 1 .. n
  PROVE  IsFiniteSet({f[k] : k \in 1 .. n})
<1> DEFINE T == {f[k] : k \in 1 .. n}
           g == [k \in 1 .. n |-> f[k]]
<1>1. g \in Surjection(1 .. n, T)
  BY DEF Surjection
<1>2. IsFiniteSet(1 .. n)
  BY FS_Interval
<1> HIDE DEF T, g
<1>3. IsFiniteSet(T)
  BY <1>1, <1>2, FS_Surjection
<1> QED
  BY <1>3 DEF T

\* There are finitely many affected lines, in a file and in all.
LEMMA WantedFinite ==
  ASSUME LinesTypeOK
  PROVE  /\ \A s \in 1 .. Len(patch) : IsFiniteSet(Wanted(s)) /\ Wanted(s) \subseteq Nat
         /\ IsFiniteSet(AllWanted)
<1>1. ASSUME NEW h \in HunkType
      PROVE  IsFiniteSet(WantedOf(h)) /\ WantedOf(h) \subseteq Nat
  <2> DEFINE f == [k \in 1 .. Len(h.lines) |-> NewNumber(h, k)]
  <2>1. Len(h.lines) \in Nat
    BY DEF HunkType
  <2>2. IsFiniteSet({f[k] : k \in 1 .. Len(h.lines)})
    BY <2>1, ImageFinite
  <2>3. WantedOf(h) \in SUBSET {f[k] : k \in 1 .. Len(h.lines)}
    BY DEF WantedOf
  <2>4. \A k \in 1 .. Len(h.lines) : NewNumber(h, k) \in Nat
    BY <1>1, <2>1, Number
  <2>5. WantedOf(h) \subseteq Nat
    BY <2>4 DEF WantedOf
  <2> HIDE DEF f
  <2> QED
    BY <2>2, <2>3, <2>5, FS_Subset
<1>2. ASSUME NEW s \in 1 .. Len(patch)
      PROVE  IsFiniteSet(Wanted(s)) /\ Wanted(s) \subseteq Nat
  <2> DEFINE f == [k \in 1 .. Len(patch[s]) |-> WantedOf(patch[s][k])]
             F == {f[k] : k \in 1 .. Len(patch[s])}
  <2>1. Len(patch[s]) \in Nat /\ \A k \in 1 .. Len(patch[s]) : patch[s][k] \in HunkType
    BY PatchType
  <2>2. IsFiniteSet(F)
    BY <2>1, ImageFinite
  <2>3. \A W \in F : IsFiniteSet(W) /\ W \subseteq Nat
    BY <1>1, <2>1
  <2>4. Wanted(s) = UNION F
    BY DEF Wanted
  <2> HIDE DEF f, F
  <2>5. UNION F \subseteq Nat
    BY <2>3
  <2> QED
    BY <2>2, <2>3, <2>4, <2>5, FS_UNION
<1>3. IsFiniteSet(AllWanted)
  <2> DEFINE f == [s \in 1 .. Len(patch) |-> {s} \X Wanted(s)]
             F == {f[s] : s \in 1 .. Len(patch)}
  <2>1. Len(patch) \in Nat
    BY PatchType
  <2>2. IsFiniteSet(F)
    BY <2>1, ImageFinite
  <2>3. \A s \in 1 .. Len(patch) : IsFiniteSet({s} \X Wanted(s))
    BY <1>2, FS_Product, FS_Singleton
  <2>4. \A W \in F : IsFiniteSet(W)
    BY <2>3
  <2>5. AllWanted \in SUBSET (UNION F)
    BY <2>1 DEF AllWanted
  <2> HIDE DEF f, F
  <2>6. IsFiniteSet(UNION F)
    BY <2>2, <2>4, FS_UNION
  <2> QED
    BY <2>5, <2>6, FS_Subset
<1> QED
  BY <1>2, <1>3

-----------------------------------------------------------------------------
(***************************************************************************)
(* The steps.                                                              *)
(***************************************************************************)

\* What is wanted does not change while the function runs.
LEMMA PatchKept ==
  ASSUME UNCHANGED lines_given
  PROVE  /\ patch' = patch /\ hits' = hits
         /\ \A s : Wanted(s)' = Wanted(s) /\ Starts(s)' = Starts(s)
<1>1. patch' = patch /\ hits' = hits
  BY DEF lines_given
<1> QED
  BY <1>1 DEF Wanted, Starts

\* The invariant holds at first: no segment has been looked at.
LEMMA LinesInitially ==
  ASSUME LinesInit
  PROVE  AInv
<1>1. patch \in Patches /\ Len(patch) \in Nat
  BY LinesConstants DEF LinesInit
<1>2. LinesTypeOK
  BY <1>1 DEF LinesInit, LinesTypeOK, FirstSegment
<1>3. Position /\ Found /\ Totalled
  BY <1>1 DEF LinesInit, FirstSegment, Position, Found, Totalled, InSegment
<1>4. FoundBefore
  <2>1. \A s \in 2 .. Len(patch) : ~(s < segment)
    BY <1>1 DEF LinesInit, FirstSegment
  <2> QED
    BY <2>1, FS_EmptySet DEF LinesInit, FoundBefore
<1> QED
  BY <1>2, <1>3, <1>4 DEF AInv

\* A binary file has no lines; the step to the next segment is right.
LEMMA SkipKeeps ==
  ASSUME AInv, SkipBinary
  PROVE  AInv'
<1>1. /\ lines_pc = "segment" /\ lines_pc' = "segment" /\ segment <= Len(patch)
      /\ segment' = segment + 1 /\ patch[segment] = <<>>
      /\ UNCHANGED lines_given
      /\ UNCHANGED <<hunk, i, current_line_number, affected_lines, result, covered, total>>
  BY DEF SkipBinary
<1>2. /\ patch' = patch /\ hits' = hits
      /\ \A s : Wanted(s)' = Wanted(s) /\ Starts(s)' = Starts(s)
  BY <1>1, PatchKept
<1>3. segment \in Nat /\ segment >= 2 /\ Len(patch) \in Nat
  BY PatchType DEF AInv, LinesTypeOK, Position
<1>4. LinesTypeOK'
  BY <1>1, <1>2, <1>3 DEF AInv, LinesTypeOK
<1>5. Position' /\ Found' /\ Totalled'
  BY <1>1, <1>2, <1>3 DEF Position, Found, Totalled, InSegment
<1>6. Wanted(segment) = {}
  <2>1. 1 .. Len(patch[segment]) = {}
    BY <1>1
  <2> QED
    BY <2>1, WantedMember
<1>7. FoundBefore'
  <2>1. \A s \in 2 .. segment - 1 : s \in 2 .. segment' - 1
    BY <1>1, <1>3
  <2>2. \A s \in 2 .. Len(patch) : s < segment' => s < segment \/ s = segment
    BY <1>1, <1>3
  <2> QED
    BY <1>1, <1>2, <1>6, <2>1, <2>2 DEF AInv, FoundBefore
<1> QED
  BY <1>4, <1>5, <1>6, <1>7 DEF AInv

\* Entering a segment and a hunk: nothing found yet, nothing due yet.
LEMMA StartKeeps ==
  ASSUME AInv, StartSegment \/ StartHunk
  PROVE  AInv'
<1>1. UNCHANGED lines_given /\ UNCHANGED <<segment, result, covered, total>>
  BY DEF StartSegment, StartHunk
<1>2. /\ patch' = patch /\ hits' = hits
      /\ \A s : Wanted(s)' = Wanted(s) /\ Starts(s)' = Starts(s)
  BY <1>1, PatchKept
<1>3. segment \in Nat /\ segment >= 2 /\ Len(patch) \in Nat
  BY PatchType DEF AInv, LinesTypeOK, Position
<1>4. FoundBefore'
  BY <1>1, <1>2 DEF AInv, FoundBefore
<1>5. CASE StartSegment
  <2>1. /\ lines_pc = "segment" /\ lines_pc' = "hunk" /\ segment <= Len(patch)
        /\ hunk' = 1 /\ affected_lines' = {}
        /\ UNCHANGED <<i, current_line_number>>
    BY <1>5 DEF StartSegment
  <2>2. Len(patch[segment]) \in Nat
    BY <1>3, <2>1, PatchType DEF AInv
  <2>3. LinesTypeOK'
    BY <1>1, <1>2, <2>1 DEF AInv, LinesTypeOK
  <2>4. Position' /\ Totalled'
    BY <1>1, <1>2, <1>3, <2>1, <2>2 DEF Position, Totalled, InSegment
  <2>5. Found'
    <3>1. 1 .. hunk' - 1 = {} /\ IsFiniteSet({})
      BY <2>1, FS_EmptySet
    <3> QED
      BY <2>1, <3>1 DEF Found
  <2> QED
    BY <1>4, <2>3, <2>4, <2>5 DEF AInv
<1>6. CASE StartHunk
  <2>1. /\ lines_pc = "hunk" /\ lines_pc' = "lines" /\ hunk <= Len(patch[segment])
        /\ i' = 0 /\ current_line_number' = Hunk.start - 1
        /\ UNCHANGED <<hunk, affected_lines>>
    BY <1>6 DEF StartHunk
  <2>2. segment \in 1 .. Len(patch) /\ hunk \in 1 .. Len(patch[segment])
    BY <1>3, <2>1 DEF AInv, Position, InSegment
  <2>3. /\ Hunk = patch[segment][hunk] /\ Hunk \in HunkType /\ Hunk.start \in Nat
        /\ Lines \in Seq(Mark) /\ Len(Lines) \in Nat
    BY <2>2, PatchType DEF AInv, Hunk, Lines
  <2>4. Hunk' = Hunk /\ Lines' = Lines
    BY <1>1, <1>2, <2>1 DEF Hunk, Lines
  <2>5. LinesTypeOK'
    <3>1. current_line_number' \in Nat \cup {-1} /\ i' \in Nat
      BY <2>1, <2>3
    <3> QED
      BY <1>1, <1>2, <2>1, <3>1 DEF AInv, LinesTypeOK
  <2>6. Position' /\ Totalled'
    BY <1>1, <1>2, <1>3, <2>1, <2>2, <2>3, <2>4, KeptNone DEF Position, Totalled, InSegment
  <2>7. \A k \in 1 .. Len(Lines) : ~Due(Lines, k, 0)
    BY <2>3, NoneDue
  <2>8. \A k : NewNumber(Hunk, k)' = NewNumber(Hunk, k)
    BY <2>4 DEF NewNumber
  <2>9. \A k : WantedOf(patch[segment][k])' = WantedOf(patch[segment][k])
    BY <1>1, <1>2 DEF WantedOf
  <2>10. Found'
    BY <1>1, <1>2, <2>1, <2>4, <2>7, <2>8, <2>9 DEF AInv, Found, InSegment
  <2> QED
    BY <1>4, <2>5, <2>6, <2>10 DEF AInv
<1> QED
  BY <1>5, <1>6

\* One more line of a hunk: what becomes due is found, and nothing else.
LEMMA LineFinds ==
  ASSUME NEW L \in Seq({"same", "+", "-"}), NEW first \in Nat, NEW p \in 1 .. Len(L),
         NEW n \in Int, n = first - 1 + KeptOf(L, p)
  PROVE  /\ \A x \in Adds(L, p, n) :
              \E k \in 1 .. Len(L) : Affected(L, k) /\ x = first + KeptOf(L, k - 1)
         /\ \A k \in 1 .. Len(L) :
              Due(L, k, p) => \/ Due(L, k, p - 1)
                              \/ first + KeptOf(L, k - 1) \in Adds(L, p, n) \cup {first}
         /\ IsFiniteSet(Adds(L, p, n))
<1> DEFINE number(k) == first + KeptOf(L, k - 1)
           before == AddsBefore(L, p, n)
           after  == AddsAfter(L, p, n)
           new == CASE L[p] = "+" -> {n} [] L[p] = "-" -> before \cup after [] L[p] = "same" -> {}
           Right(x) == \E k \in 1 .. Len(L) : Affected(L, k) /\ x = number(k)
<1>1. Len(L) \in Nat /\ p \in Nat \ {0} /\ p <= Len(L)
  OBVIOUS
<1>2. \A k \in 1 .. Len(L) : L[k] \in {"same", "+", "-"}
  BY <1>1
<1>3. Kept("+") /\ Kept("same") /\ ~Kept("-")
  BY DEF Kept
<1>4. KeptOf(L, p) = KeptOf(L, p - 1) + (IF Kept(L[p]) THEN 1 ELSE 0)
  <2>1. p - 1 \in Nat /\ (p - 1) + 1 = p
    BY <1>1
  <2> QED
    BY <2>1, KeptNext
<1>5. KeptOf(L, p - 1) \in Nat
  <2>1. p - 1 \in Nat
    BY <1>1
  <2> QED
    BY <2>1, KeptNext
<1>6. L[p] \in {"+", "same"} => number(p) = n
  BY <1>1, <1>3, <1>4, <1>5
<1>7. ASSUME L[p] = "-", p > 1, Kept(L[p - 1])
      PROVE  number(p - 1) = n
  <2>1. p - 1 \in Nat \ {0} /\ p - 2 \in Nat /\ (p - 2) + 1 = p - 1 /\ (p - 1) - 1 = p - 2
    BY <1>1, <1>7
  <2>2. number(p - 1) = first + KeptOf(L, p - 2)
    BY <2>1
  <2>3. KeptOf(L, p - 1) = KeptOf(L, p - 2) + 1 /\ KeptOf(L, p - 2) \in Nat
    BY <1>7, <2>1, KeptNext
  <2> QED
    BY <1>1, <1>3, <1>4, <1>7, <2>2, <2>3
<1>8. ASSUME L[p] = "-", p < Len(L)
      PROVE  number(p + 1) = n + 1
  <2>1. p + 1 \in Nat \ {0} /\ (p + 1) - 1 = p
    BY <1>1
  <2>2. number(p + 1) = first + KeptOf(L, p)
    BY <2>1
  <2> QED
    BY <1>1, <1>3, <1>4, <1>5, <1>8, <2>2
<1>9. L[p] = "-" => before = (IF p > 2 /\ Kept(L[p - 1]) THEN {n} ELSE {})
  BY <1>1 DEF AddsBefore
<1>10. after = IF p < Len(L) /\ Kept(L[p + 1]) THEN {n + 1} ELSE {}
  BY <1>1 DEF AddsAfter
<1> HIDE DEF before, after, number
<1>11. \A x \in new : Right(x)
  <2>1. CASE L[p] = "+"
    <3>1. Affected(L, p)
      BY <2>1 DEF Affected
    <3>2. Right(n)
      BY <1>1, <1>6, <2>1, <3>1
    <3> QED
      BY <2>1, <3>2
  <2>2. CASE L[p] = "-"
    <3>1. \A x \in before : Right(x)
      <4>1. CASE p > 2 /\ Kept(L[p - 1])
        <5>1. p - 1 \in 1 .. Len(L) /\ p - 1 < Len(L) /\ (p - 1) + 1 = p
          BY <1>1, <4>1
        <5>2. L[p - 1] \in {"same", "+"}
          BY <1>2, <1>3, <4>1, <5>1
        <5>3. Affected(L, p - 1)
          BY <2>2, <5>1, <5>2 DEF Affected
        <5>4. n = number(p - 1)
          BY <1>1, <1>7, <2>2, <4>1
        <5> QED
          BY <1>9, <2>2, <4>1, <5>1, <5>3, <5>4
      <4> QED
        BY <1>9, <2>2, <4>1
    <3>2. \A x \in after : Right(x)
      <4>1. CASE p < Len(L) /\ Kept(L[p + 1])
        <5>1. p + 1 \in 1 .. Len(L) /\ p + 1 > 1 /\ (p + 1) - 1 = p
          BY <1>1, <4>1
        <5>2. L[p + 1] \in {"same", "+"}
          BY <1>2, <1>3, <4>1, <5>1
        <5>3. Affected(L, p + 1)
          BY <2>2, <5>1, <5>2 DEF Affected
        <5>4. n + 1 = number(p + 1)
          BY <1>8, <2>2, <4>1
        <5> QED
          BY <1>10, <4>1, <5>1, <5>3, <5>4
      <4> QED
        BY <1>10, <4>1
    <3> QED
      BY <2>2, <3>1, <3>2
  <2>3. CASE L[p] = "same"
    BY <2>3
  <2> QED
    BY <1>1, <1>2, <2>1, <2>2, <2>3
<1>12. ASSUME NEW k \in 1 .. Len(L), Due(L, k, p), ~Due(L, k, p - 1)
       PROVE  number(k) \in new \cup {first}
  <2>1. \/ L[k] = "+" /\ k = p
        \/ L[k] = "same" /\ k > 1 /\ L[k - 1] = "-" /\ k - 1 = p
        \/ L[k] = "same" /\ k < Len(L) /\ L[k + 1] = "-" /\ k + 1 = p
    <3>1. /\ k <= p => k <= p - 1 \/ k = p
          /\ k - 1 <= p => k - 1 <= p - 1 \/ k - 1 = p
          /\ k + 1 <= p => k + 1 <= p - 1 \/ k + 1 = p
      BY <1>1
    <3> QED
      BY <1>12, <3>1 DEF Due
  <2>2. CASE L[k] = "+" /\ k = p
    BY <1>6, <2>2
  <2>3. CASE L[k] = "same" /\ k > 1 /\ L[k - 1] = "-" /\ k - 1 = p
    <3>1. k = p + 1 /\ p < Len(L)
      BY <1>1, <2>3
    <3>2. L[p] = "-" /\ Kept(L[p + 1])
      BY <1>3, <2>3, <3>1
    <3>3. number(k) \in after
      BY <1>8, <1>10, <3>1, <3>2
    <3> QED
      BY <3>2, <3>3
  <2>4. CASE L[k] = "same" /\ k < Len(L) /\ L[k + 1] = "-" /\ k + 1 = p
    <3>1. k = p - 1 /\ p > 1
      BY <1>1, <2>4
    <3>2. L[p] = "-" /\ Kept(L[p - 1])
      BY <1>3, <2>4, <3>1
    <3>3. CASE p > 2
      <4>1. number(k) \in before
        BY <1>7, <1>9, <3>1, <3>2, <3>3
      <4> QED
        BY <3>2, <4>1
    <3>4. CASE ~(p > 2)
      <4>1. k = 1
        BY <1>1, <3>1, <3>4
      <4> QED
        BY <4>1, KeptNone DEF number
    <3> QED
      BY <3>3, <3>4
  <2> QED
    BY <2>1, <2>2, <2>3, <2>4
<1>13. IsFiniteSet(new)
  <2>1. IsFiniteSet(before) /\ IsFiniteSet(after)
    BY FS_EmptySet, FS_Singleton DEF before, after, AddsBefore, AddsAfter
  <2>2. IsFiniteSet(before \cup after)
    BY <2>1, FS_Union
  <2> HIDE DEF new
  <2>3. new \in {{n}, before \cup after, {}}
    BY <1>1, <1>2 DEF new
  <2>4. IsFiniteSet({n}) /\ IsFiniteSet({})
    BY FS_EmptySet, FS_Singleton
  <2> QED
    BY <2>2, <2>3, <2>4
<1>14. Adds(L, p, n) = new
  BY DEF Adds, before, after
<1> HIDE DEF new
<1> QED
  BY <1>11, <1>12, <1>13, <1>14 DEF number

\* A turn of the loop over the lines.
LEMMA LineKeeps ==
  ASSUME AInv, Line
  PROVE  AInv'
<1> DEFINE h == Hunk
           L == Lines
           p == i + 1
           n == IF Kept(L[p]) THEN current_line_number + 1 ELSE current_line_number
           new == Adds(L, p, n)
<1>1. /\ lines_pc = "lines" /\ lines_pc' = "lines" /\ i < Len(L) /\ i' = p
      /\ current_line_number' = n
      /\ UNCHANGED lines_given /\ UNCHANGED <<segment, hunk, result, covered, total>>
  BY DEF Line
<1>2. /\ patch' = patch /\ hits' = hits
      /\ \A s : Wanted(s)' = Wanted(s) /\ Starts(s)' = Starts(s)
  BY <1>1, PatchKept
<1>3. /\ segment \in 1 .. Len(patch) /\ hunk \in 1 .. Len(patch[segment])
      /\ segment >= 2 /\ i \in Nat
      /\ current_line_number = h.start - 1 + KeptOf(L, i)
  BY <1>1, PatchType DEF AInv, Position, InSegment, LinesTypeOK
<1>4. /\ h = patch[segment][hunk] /\ h \in HunkType /\ h.start \in Nat /\ L = h.lines
      /\ L \in Seq({"same", "+", "-"}) /\ Len(L) \in Nat
  BY <1>3, PatchType DEF AInv, Hunk, Lines, Mark
<1>5. h' = h /\ L' = L
  BY <1>1, <1>2 DEF Hunk, Lines
<1>6. affected_lines' = affected_lines \cup new
  <2>1. i = p - 1 /\ i + 2 = p + 1
    BY <1>3
  <2>2. Removed(n) = AddsBefore(L, p, n) \cup AddsAfter(L, p, n)
    BY <2>1 DEF Removed, AddsBefore, AddsAfter
  <2> QED
    BY <2>2 DEF Line, Adds
<1> HIDE DEF h, L, new
<1>7. p \in 1 .. Len(L) /\ p \in Nat /\ p - 1 = i
  BY <1>1, <1>3, <1>4
<1>8. n = h.start - 1 + KeptOf(L, p) /\ n \in Int /\ n \in Nat \cup {-1} /\ KeptOf(L, p) \in Nat
  <2>1. /\ KeptOf(L, i) \in Nat
        /\ KeptOf(L, p) = KeptOf(L, i) + (IF Kept(L[p]) THEN 1 ELSE 0)
    BY <1>3, KeptNext
  <2>2. h.start \in Nat /\ current_line_number = h.start - 1 + KeptOf(L, i)
    BY <1>3, <1>4
  <2>3. CASE Kept(L[p])
    <3>1. n = current_line_number + 1 /\ KeptOf(L, p) = KeptOf(L, i) + 1
      BY <2>1, <2>3
    <3> HIDE DEF n, p
    <3> QED
      BY <2>1, <2>2, <3>1
  <2>4. CASE ~Kept(L[p])
    <3>1. n = current_line_number /\ KeptOf(L, p) = KeptOf(L, i)
      BY <2>1, <2>4
    <3> HIDE DEF n, p
    <3> QED
      BY <2>1, <2>2, <3>1
  <2> QED
    BY <2>3, <2>4
<1> HIDE DEF p, n
<1>9. /\ \A x \in new : \E k \in 1 .. Len(L) : Affected(L, k) /\ x = h.start + KeptOf(L, k - 1)
      /\ \A k \in 1 .. Len(L) :
           Due(L, k, p) => Due(L, k, p - 1) \/ h.start + KeptOf(L, k - 1) \in new \cup {h.start}
      /\ IsFiniteSet(new)
  <2>1. /\ L \in Seq({"same", "+", "-"}) /\ h.start \in Nat /\ p \in 1 .. Len(L)
        /\ n \in Int /\ n = h.start - 1 + KeptOf(L, p)
    BY <1>4, <1>7, <1>8
  <2> DEFINE first == h.start
  <2>2. first \in Nat /\ n = first - 1 + KeptOf(L, p)
    BY <2>1
  <2> HIDE DEF first
  <2>3. /\ \A x \in Adds(L, p, n) :
             \E k \in 1 .. Len(L) : Affected(L, k) /\ x = first + KeptOf(L, k - 1)
        /\ \A k \in 1 .. Len(L) :
             Due(L, k, p) => \/ Due(L, k, p - 1)
                             \/ first + KeptOf(L, k - 1) \in Adds(L, p, n) \cup {first}
        /\ IsFiniteSet(Adds(L, p, n))
    BY <2>1, <2>2, LineFinds
  <2> QED
    BY <2>3 DEF new, first
<1>10. \A k \in 1 .. Len(L) : NewNumber(h, k) = h.start + KeptOf(L, k - 1)
  BY <1>4, Number
<1>11. new \subseteq Wanted(segment)
  <2>1. new \subseteq WantedOf(h)
    BY <1>4, <1>9, <1>10, WantedOfMember
  <2> QED
    BY <1>3, <1>4, <2>1, WantedMember
<1>12. /\ IsFiniteSet(affected_lines) /\ affected_lines \subseteq Wanted(segment)
       /\ \A k \in 1 .. hunk - 1 :
            WantedOf(patch[segment][k]) \subseteq affected_lines \cup {patch[segment][k].start}
       /\ \A k \in 1 .. Len(L) :
            Due(L, k, p - 1) => NewNumber(h, k) \in affected_lines \cup {h.start}
  BY <1>1, <1>7 DEF AInv, Found, InSegment, h, L
<1>13. Found'
  <2>1. IsFiniteSet(affected_lines')
    BY <1>6, <1>9, <1>12, FS_Union
  <2>2. affected_lines' \subseteq Wanted(segment)'
    BY <1>1, <1>2, <1>6, <1>11, <1>12
  <2>3. \A k \in 1 .. Len(L) :
          Due(L, k, p) => NewNumber(h, k) \in affected_lines' \cup {h.start}
    BY <1>6, <1>9, <1>10, <1>12
  <2>4. \A k : NewNumber(Hunk, k)' = NewNumber(Hunk, k)
    BY <1>5 DEF NewNumber, h
  <2>5. \A k : WantedOf(patch[segment][k])' = WantedOf(patch[segment][k])
    BY <1>1, <1>2 DEF WantedOf
  <2>6. \A k \in 1 .. hunk - 1 : WantedOf(patch[segment][k])
                                   \subseteq affected_lines' \cup {patch[segment][k].start}
    BY <1>6, <1>12
  <2>7. \A k \in 1 .. Len(Lines') :
          Due(Lines, k, i)' =>
            NewNumber(Hunk, k)' \in affected_lines' \cup {Hunk'.start}
    <3>1. \A k : Due(Lines, k, i)' = Due(L, k, p)
      BY <1>1, <1>5 DEF Due, L
    <3> QED
      BY <1>5, <2>3, <2>4, <3>1 DEF h, L
  <2> QED
    BY <1>1, <1>2, <2>1, <2>2, <2>5, <2>6, <2>7 DEF Found
<1>14. Position'
  <2>1. KeptOf(Lines, i)' = KeptOf(L, p)
    BY <1>1, <1>5 DEF KeptOf, Kept, L
  <2>2. i' <= Len(Lines') /\ current_line_number' = Hunk'.start - 1 + KeptOf(L, p)
    BY <1>1, <1>5, <1>7, <1>8 DEF h, L
  <2> QED
    BY <1>1, <1>2, <1>3, <2>1, <2>2 DEF AInv, Position, InSegment
<1>15. LinesTypeOK'
  <2>1. affected_lines' \subseteq Nat
    BY <1>1, <1>2, <1>3, <1>6, <1>11, WantedFinite DEF AInv, LinesTypeOK
  <2> QED
    BY <1>1, <1>2, <1>7, <1>8, <2>1 DEF AInv, LinesTypeOK
<1>16. FoundBefore' /\ Totalled'
  BY <1>1, <1>2 DEF AInv, FoundBefore, Totalled
<1> QED
  BY <1>13, <1>14, <1>15, <1>16 DEF AInv

\* The end of a hunk: what was due at its last line is all that it affects.
LEMMA EndHunkKeeps ==
  ASSUME AInv, EndHunk
  PROVE  AInv'
<1>1. /\ lines_pc = "lines" /\ lines_pc' = "hunk" /\ i = Len(Lines) /\ hunk' = hunk + 1
      /\ UNCHANGED lines_given
      /\ UNCHANGED <<segment, i, current_line_number, affected_lines, result, covered, total>>
  BY DEF EndHunk
<1>2. /\ patch' = patch /\ hits' = hits
      /\ \A s : Wanted(s)' = Wanted(s) /\ Starts(s)' = Starts(s)
  BY <1>1, PatchKept
<1>3. /\ segment \in 1 .. Len(patch) /\ segment >= 2 /\ Len(patch[segment]) \in Nat
      /\ hunk \in 1 .. Len(patch[segment])
  BY <1>1, PatchType DEF AInv, Position, InSegment, LinesTypeOK
<1>4. /\ Hunk = patch[segment][hunk] /\ Hunk \in HunkType /\ Lines = Hunk.lines
      /\ Lines \in Seq(Mark) /\ Len(Lines) \in Nat
  BY <1>3, PatchType DEF AInv, Hunk, Lines
<1>5. /\ IsFiniteSet(affected_lines) /\ affected_lines \subseteq Wanted(segment)
      /\ \A k \in 1 .. hunk - 1 :
           WantedOf(patch[segment][k]) \subseteq affected_lines \cup {patch[segment][k].start}
      /\ \A k \in 1 .. Len(Lines) :
           Due(Lines, k, i) =>
             NewNumber(Hunk, k) \in affected_lines \cup {Hunk.start}
  BY <1>1 DEF AInv, Found, InSegment
<1>6. WantedOf(patch[segment][hunk]) \subseteq affected_lines \cup {patch[segment][hunk].start}
  <2> SUFFICES ASSUME NEW n \in WantedOf(Hunk)
               PROVE  n \in affected_lines \cup {Hunk.start}
    BY <1>4
  <2>1. PICK k \in 1 .. Len(Lines) : Affected(Lines, k) /\ n = NewNumber(Hunk, k)
    BY <1>4, WantedOfMember
  <2>2. Due(Lines, k, i)
    BY <1>1, <1>4, <2>1, DueIsAffected
  <2> QED
    BY <1>5, <2>1, <2>2
<1>7. LinesTypeOK'
  BY <1>1, <1>2, <1>3 DEF AInv, LinesTypeOK
<1>8. Position' /\ Totalled'
  BY <1>1, <1>2, <1>3 DEF Position, Totalled, InSegment
<1>9. Found'
  <2>1. \A k \in 1 .. hunk' - 1 : k \in 1 .. hunk - 1 \/ k = hunk
    BY <1>1, <1>3
  <2>2. \A k : WantedOf(patch[segment][k])' = WantedOf(patch[segment][k])
    BY <1>1, <1>2 DEF WantedOf
  <2>3. \A k \in 1 .. hunk' - 1 :
          WantedOf(patch[segment][k]) \subseteq affected_lines \cup {patch[segment][k].start}
    BY <1>5, <1>6, <2>1
  <2> QED
    BY <1>1, <1>2, <1>5, <2>2, <2>3 DEF Found
<1>10. FoundBefore'
  BY <1>1, <1>2 DEF AInv, FoundBefore
<1> QED
  BY <1>7, <1>8, <1>9, <1>10 DEF AInv

\* The end of a file: its lines join the result.
LEMMA EndSegmentKeeps ==
  ASSUME AInv, EndSegment
  PROVE  AInv'
<1>1. /\ lines_pc = "hunk" /\ lines_pc' = "segment" /\ hunk > Len(patch[segment])
      /\ segment' = segment + 1
      /\ result' = result \cup ({segment} \X affected_lines)
      /\ UNCHANGED lines_given
      /\ UNCHANGED <<hunk, i, current_line_number, affected_lines, covered, total>>
  BY DEF EndSegment
<1>2. /\ patch' = patch /\ hits' = hits
      /\ \A s : Wanted(s)' = Wanted(s) /\ Starts(s)' = Starts(s)
  BY <1>1, PatchKept
<1>3. /\ segment \in 1 .. Len(patch) /\ segment >= 2 /\ Len(patch) \in Nat
      /\ Len(patch[segment]) \in Nat /\ hunk = Len(patch[segment]) + 1
  <2>1. segment \in 1 .. Len(patch) /\ segment >= 2 /\ hunk \in 1 .. Len(patch[segment]) + 1
    BY <1>1, PatchType DEF AInv, Position, InSegment, LinesTypeOK
  <2>2. Len(patch) \in Nat /\ Len(patch[segment]) \in Nat
    BY <2>1, PatchType DEF AInv
  <2> QED
    BY <1>1, <2>1, <2>2
<1>4. /\ IsFiniteSet(affected_lines) /\ affected_lines \subseteq Wanted(segment)
      /\ \A k \in 1 .. Len(patch[segment]) :
           WantedOf(patch[segment][k]) \subseteq affected_lines \cup {patch[segment][k].start}
  BY <1>1, <1>3 DEF AInv, Found, InSegment
<1>5. Wanted(segment) \ Starts(segment) \subseteq affected_lines
  <2> SUFFICES ASSUME NEW n \in Wanted(segment), n \notin Starts(segment)
               PROVE  n \in affected_lines
    OBVIOUS
  <2>1. PICK k \in 1 .. Len(patch[segment]) : n \in WantedOf(patch[segment][k])
    BY WantedMember
  <2>2. n # patch[segment][k].start
    BY DEF Starts
  <2> QED
    BY <1>4, <2>1, <2>2
<1>6. LinesTypeOK'
  <2>1. affected_lines \subseteq Nat
    BY DEF AInv, LinesTypeOK
  <2>2. {segment} \X affected_lines \subseteq (1 .. Len(patch)) \X Nat
    BY <1>3, <2>1
  <2>3. result' \subseteq (1 .. Len(patch')) \X Nat
    BY <1>1, <1>2, <2>2 DEF AInv, LinesTypeOK
  <2>4. segment' \in 1 .. Len(patch') + 2
    BY <1>1, <1>2, <1>3
  <2> QED
    BY <1>1, <1>2, <2>3, <2>4 DEF AInv, LinesTypeOK
<1>7. Position' /\ Found' /\ Totalled'
  BY <1>1, <1>2, <1>3 DEF Position, Found, Totalled, InSegment
<1>8. FoundBefore'
  <2>1. IsFiniteSet(result')
    <3>1. IsFiniteSet({segment} \X affected_lines)
      BY <1>4, FS_Product, FS_Singleton
    <3> QED
      BY <1>1, <3>1, FS_Union DEF AInv, FoundBefore
  <2>2. \A l \in result' : l[1] \in 2 .. segment' - 1 /\ l[2] \in Wanted(l[1])
    <3>1. \A l \in result : l[1] \in 2 .. segment' - 1 /\ l[2] \in Wanted(l[1])
      <4>1. \A s \in 2 .. segment - 1 : s \in 2 .. segment' - 1
        BY <1>1, <1>3
      <4> QED
        BY <4>1 DEF AInv, FoundBefore
    <3>2. \A l \in {segment} \X affected_lines :
            l[1] = segment /\ l[2] \in Wanted(segment)
      BY <1>4
    <3>3. segment \in 2 .. segment' - 1
      BY <1>1, <1>3
    <3> QED
      BY <1>1, <3>1, <3>2, <3>3
  <2>3. ASSUME NEW s \in 2 .. Len(patch), s < segment', NEW n \in Wanted(s) \ Starts(s)
        PROVE  <<s, n>> \in result'
    <3>1. s < segment \/ s = segment
      BY <1>1, <1>3, <2>3
    <3>2. CASE s < segment
      BY <1>1, <2>3, <3>2 DEF AInv, FoundBefore
    <3>3. CASE s = segment
      BY <1>1, <1>5, <2>3, <3>3
    <3> QED
      BY <3>1, <3>2, <3>3
  <2> QED
    BY <1>2, <2>1, <2>2, <2>3 DEF FoundBefore
<1> QED
  BY <1>6, <1>7, <1>8 DEF AInv

\* The end of the patch, and the counts.
LEMMA CoverageKeeps ==
  ASSUME AInv, ReturnLines \/ EvaluateCoverage
  PROVE  AInv'
<1>1. /\ UNCHANGED lines_given
      /\ UNCHANGED <<segment, hunk, i, current_line_number, affected_lines, result>>
      /\ lines_pc \in {"segment", "coverage"} /\ lines_pc' \in {"coverage", "done"}
      /\ lines_pc = "segment" => segment > Len(patch)
  BY DEF ReturnLines, EvaluateCoverage
<1>2. /\ patch' = patch /\ hits' = hits
      /\ \A s : Wanted(s)' = Wanted(s) /\ Starts(s)' = Starts(s)
  BY <1>1, PatchKept
<1>3. Position'
  BY <1>1, <1>2 DEF AInv, Position, InSegment
<1>4. Found'
  BY <1>1 DEF Found, InSegment
<1>5. FoundBefore'
  BY <1>1, <1>2 DEF AInv, FoundBefore
<1>6. CASE ReturnLines
  <2>1. lines_pc' = "coverage" /\ UNCHANGED <<covered, total>>
    BY <1>6 DEF ReturnLines
  <2>2. LinesTypeOK' /\ Totalled'
    BY <1>1, <1>2, <2>1 DEF AInv, LinesTypeOK, Totalled
  <2> QED
    BY <1>3, <1>4, <1>5, <2>2 DEF AInv
<1>7. CASE EvaluateCoverage
  <2> DEFINE Code == OfCode(result)
             Hit == {l \in Code : hits[l[1]][l[2]] > 0}
  <2>1. lines_pc' = "done" /\ total' = Cardinality(Code) /\ covered' = Cardinality(Hit)
    BY <1>7 DEF EvaluateCoverage
  <2>2. IsFiniteSet(Code)
    <3>1. Code \in SUBSET result
      BY DEF OfCode
    <3> QED
      BY <3>1, FS_Subset DEF AInv, FoundBefore
  <2>3. Hit \in SUBSET Code
    OBVIOUS
  <2>4. OfCode(result)' = Code
    BY <1>1, <1>2 DEF OfCode
  <2> HIDE DEF Code, Hit
  <2>5. /\ Cardinality(Code) \in Nat /\ Cardinality(Hit) \in Nat
        /\ Cardinality(Hit) <= Cardinality(Code)
    BY <2>2, <2>3, FS_Subset, FS_CardinalityType
  <2>6. LinesTypeOK'
    BY <1>1, <1>2, <2>1, <2>5 DEF AInv, LinesTypeOK
  <2>7. Totalled'
    BY <2>1, <2>4 DEF Totalled
  <2> QED
    BY <1>3, <1>4, <1>5, <2>6, <2>7 DEF AInv
<1> QED
  BY <1>6, <1>7

\* The invariant holds in every state.
LEMMA LinesInvariance == LinesSpec => []AInv
<1>1. LinesInit => AInv
  BY LinesInitially
<1>2. AInv /\ [LinesNext]_lines_vars => AInv'
  <2> SUFFICES ASSUME AInv, [LinesNext]_lines_vars
               PROVE  AInv'
    OBVIOUS
  <2>1. CASE SkipBinary
    BY <2>1, SkipKeeps
  <2>2. CASE StartSegment \/ StartHunk
    BY <2>2, StartKeeps
  <2>3. CASE Line
    BY <2>3, LineKeeps
  <2>4. CASE EndHunk
    BY <2>4, EndHunkKeeps
  <2>5. CASE EndSegment
    BY <2>5, EndSegmentKeeps
  <2>6. CASE ReturnLines \/ EvaluateCoverage
    BY <2>6, CoverageKeeps
  <2>7. CASE UNCHANGED lines_vars
    <3>1. /\ UNCHANGED lines_given
          /\ UNCHANGED <<lines_pc, segment, hunk, i, current_line_number, affected_lines,
                        result, covered, total>>
      BY <2>7 DEF lines_vars, lines_given
    <3>2. /\ patch' = patch /\ hits' = hits
          /\ \A s : Wanted(s)' = Wanted(s) /\ Starts(s)' = Starts(s)
      BY <3>1, PatchKept
    <3>3. Hunk' = Hunk /\ Lines' = Lines
      BY <3>1, <3>2 DEF Hunk, Lines
    <3>4. LinesTypeOK' /\ FoundBefore'
      BY <3>1, <3>2 DEF AInv, LinesTypeOK, FoundBefore
    <3>5. Totalled'
      <4>1. OfCode(result)' = OfCode(result)
        BY <3>1, <3>2 DEF OfCode
      <4> QED
        BY <3>1, <4>1 DEF AInv, Totalled
    <3>6. Position'
      <4>1. KeptOf(Lines, i)' = KeptOf(Lines, i)
        BY <3>1, <3>3 DEF KeptOf, Kept
      <4> QED
        BY <3>1, <3>2, <3>3, <4>1 DEF AInv, Position, InSegment
    <3>7. Found'
      <4>1. \A k : /\ NewNumber(Hunk, k)' = NewNumber(Hunk, k)
                  /\ WantedOf(patch[segment][k])' = WantedOf(patch[segment][k])
                  /\ Due(Lines, k, i)' = Due(Lines, k, i)
        BY <3>1, <3>2, <3>3 DEF NewNumber, WantedOf, Due
      <4> QED
        BY <3>1, <3>2, <3>3, <4>1 DEF AInv, Found, InSegment
    <3> QED
      BY <3>4, <3>5, <3>6, <3>7 DEF AInv
  <2> QED
    BY <2>1, <2>2, <2>3, <2>4, <2>5, <2>6, <2>7 DEF LinesNext
<1> QED
  BY <1>1, <1>2, PTL DEF LinesSpec

-----------------------------------------------------------------------------
(***************************************************************************)
(* The theorems.                                                           *)
(***************************************************************************)

\* The values of get_affected_lines() and evaluate_coverage() keep their
\* types; in particular no more lines are covered than there are.
THEOREM LinesTypeCorrect == LinesSpec => []LinesTypeOK
BY LinesInvariance, PTL DEF AInv

\* For every patch: from the second file on, the loop of get_affected_lines()
\* finds no line but the added ones and the neighbours of the removed blocks,
\* by their numbers in the new file, and misses at most first lines of hunks.
THEOREM LinesAreFound == LinesSpec => []LinesFound
<1>1. AInv => LinesFound
  <2> SUFFICES ASSUME AInv, lines_pc = "done", NEW s \in 2 .. Len(patch)
               PROVE  Wanted(s) \ Starts(s) \subseteq Got(s) /\ Got(s) \subseteq Wanted(s)
    BY DEF LinesFound
  <2>1. s < segment
    BY PatchType DEF AInv, Position, LinesTypeOK
  <2>2. \A n \in Wanted(s) \ Starts(s) : <<s, n>> \in result
    BY <2>1 DEF AInv, FoundBefore
  <2>3. \A n : <<s, n>>[1] = s /\ <<s, n>>[2] = n
    OBVIOUS
  <2>4. Wanted(s) \ Starts(s) \subseteq Got(s)
    BY <2>2, <2>3 DEF Got
  <2>5. Got(s) \subseteq Wanted(s)
    BY DEF AInv, FoundBefore, Got
  <2> QED
    BY <2>4, <2>5
<1> QED
  BY <1>1, LinesInvariance, PTL

\* For every patch and report: the total of evaluate_coverage() lies between
\* the lines of code found for certain and all the affected ones.
THEOREM TotalIsOfCode == LinesSpec => []TotalOfCode
<1>1. AInv => TotalOfCode
  <2> SUFFICES ASSUME AInv, lines_pc = "done"
               PROVE  /\ Cardinality(OfCode(AllFound)) <= total
                      /\ total <= Cardinality(OfCode(AllWanted))
    BY DEF TotalOfCode
  <2>1. total = Cardinality(OfCode(result))
    BY DEF AInv, Totalled
  <2>2. segment > Len(patch) /\ segment \in Nat /\ Len(patch) \in Nat
    BY PatchType DEF AInv, Position, LinesTypeOK
  <2>3. AllFound \subseteq result
    <3> SUFFICES ASSUME NEW l \in AllWanted, l[2] \notin Starts(l[1])
                 PROVE  l \in result
      BY DEF AllFound
    <3>1. PICK s \in 2 .. Len(patch) : l \in {s} \X Wanted(s)
      BY DEF AllWanted
    <3>2. PICK n \in Wanted(s) : l = <<s, n>>
      BY <3>1
    <3>3. s < segment
      BY <2>2
    <3>4. n \notin Starts(s)
      BY <3>2
    <3> QED
      BY <3>2, <3>3, <3>4 DEF AInv, FoundBefore
  <2>4. result \subseteq AllWanted
    <3> SUFFICES ASSUME NEW l \in result
                 PROVE  l \in AllWanted
      OBVIOUS
    <3>1. l \in (1 .. Len(patch)) \X Nat
      BY DEF AInv, LinesTypeOK
    <3>2. l[1] \in 2 .. Len(patch) /\ l[2] \in Wanted(l[1])
      BY <2>2, <3>1 DEF AInv, FoundBefore
    <3>3. l \in {l[1]} \X Wanted(l[1])
      BY <3>1, <3>2
    <3> QED
      BY <3>2, <3>3 DEF AllWanted
  <2>5. /\ OfCode(AllFound) \subseteq OfCode(result)
        /\ OfCode(result) \subseteq OfCode(AllWanted)
    BY <2>3, <2>4 DEF OfCode
  <2>6. IsFiniteSet(OfCode(AllWanted)) /\ IsFiniteSet(OfCode(result))
    <3>1. OfCode(AllWanted) \in SUBSET AllWanted /\ OfCode(result) \in SUBSET result
      BY DEF OfCode
    <3> QED
      BY <3>1, WantedFinite, FS_Subset DEF AInv, FoundBefore
  <2> QED
    BY <2>1, <2>5, <2>6, FS_Subset
<1> QED
  BY <1>1, LinesInvariance, PTL
==============================================================================
