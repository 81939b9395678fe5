--------------------------- MODULE PhaseOneCorpus ---------------------------
(***************************************************************************)
(* construct_phase_one_corpus() of tools/evaluation/run-benchmark.py, from *)
(* the point where the calibration run is over: how the three phase-one    *)
(* corpora are filled by pools of worker processes.                        *)
(*                                                                         *)
(* ROSA names a test input by a hash of its content, so an input and its   *)
(* name are the same thing here.  A trace is abstracted to the system      *)
(* calls it shows.  The targets are not deterministic: an input may show   *)
(* another behaviour each time it is traced.  A corpus maps an input to    *)
(* its trace; NoFile: the input is not in the directory, NoTrace: it is    *)
(* there without a trace.                                                  *)
(***************************************************************************)
EXTENDS FiniteSets

CONSTANTS
  Inputs,      \* test inputs
  Behaviours,  \* what the syscalls component of a trace can be
  NoFile, NoTrace

ASSUME MarkersAssumption ==
  NoFile # NoTrace /\ {NoFile, NoTrace} \cap Behaviours = {}

VARIABLES
  pc,
  test_inputs,   \* inputs of the calibration run, with a trace each
  triggers,      \* content of backdoor-triggers
  previous,      \* traces_dir: input -> trace in the previous version
  normal, poisoned, selective,  \* the three corpora
  todo,          \* tasks of the pool that are neither done nor given up
  stuck,         \* tasks that never end
  raised         \* some task of the pool raised

vars == <<pc, test_inputs, triggers, previous, normal, poisoned, selective,
          todo, stuck, raised>>
input == <<test_inputs, triggers, previous>>

Corpus == [Inputs -> Behaviours \cup {NoFile, NoTrace}]
Empty  == [i \in Inputs |-> NoFile]
Files(c) == {i \in Inputs : c[i] # NoFile}

\* corpus c with the files of s copied into it; a trace that is already
\* there stays until it is written again.
With(c, s) == [i \in Inputs |-> IF i \in s /\ c[i] = NoFile THEN NoTrace ELSE c[i]]

Ended == {"returned", "failed"}

TypeOK ==
  /\ pc \in {"copy", "trace", "poison", "trace-poisoned", "select"} \cup Ended
  /\ test_inputs \in SUBSET Inputs
  /\ triggers \in SUBSET Inputs
  /\ previous \in [Inputs -> Behaviours]
  /\ {normal, poisoned, selective} \subseteq Corpus
  /\ todo \in SUBSET Inputs
  /\ stuck \in SUBSET todo
  /\ raised \in BOOLEAN

Init ==
  /\ pc = "copy"
  /\ test_inputs \in SUBSET Inputs
  /\ triggers \in SUBSET Inputs
  /\ previous \in [Inputs -> Behaviours]
  /\ normal = Empty
  /\ poisoned = Empty
  /\ selective = Empty
  /\ todo = {}
  /\ stuck = {}
  /\ raised = FALSE

-----------------------------------------------------------------------------
(***************************************************************************)
(* multiprocessing.Pool.map.                                               *)
(***************************************************************************)

\* The call starts on the tasks s.
Map(s) == todo' = s /\ stuck' = {} /\ raised' = FALSE

\* A task ends; which task is next is up to the pool.
TaskDone(i) == i \in todo \ stuck /\ todo' = todo \ {i} /\ UNCHANGED <<stuck, raised>>

\* A task raises: its chunk of the task list, whatever part of the rest that
\* is, is given up; the other chunks go on.
TaskRaises(i) ==
  /\ i \in todo \ stuck
  /\ \E chunk \in SUBSET (todo \ stuck) : todo' = todo \ ({i} \cup chunk)
  /\ raised' = TRUE
  /\ UNCHANGED stuck

\* A task never ends: the rosa-trace or rosa-showmap it runs hangs, there is
\* no timeout, or its worker process is killed.  The rest of its chunk never
\* starts.
TaskSticks ==
  /\ \E i \in todo \ stuck, chunk \in SUBSET (todo \ stuck) : stuck' = stuck \cup {i} \cup chunk
  /\ UNCHANGED <<pc, input, normal, poisoned, selective, todo, raised>>

MapDoesNotWait(to) == pc' = IF raised THEN "failed" ELSE to  \* mutant: map_async()

\* map() returns, or raises what a task raised, once all are accounted for.
MapReturns(to) == todo = {} /\ pc' = IF raised THEN "failed" ELSE to

-----------------------------------------------------------------------------
(***************************************************************************)
(* The three corpora.                                                      *)
(***************************************************************************)

\* The test inputs are copied to phase-one-corpus.
CopyInputs ==
  /\ pc = "copy"
  /\ pc' = "trace"
  /\ normal' = With(normal, test_inputs)
  /\ Map(test_inputs)
  /\ UNCHANGED <<input, poisoned, selective>>

\* trace_input() on the current version, for the normal corpus.
TraceInput ==
  /\ pc = "trace"
  /\ \E i \in Inputs :
       \/ /\ TaskDone(i)
          /\ \E b \in Behaviours : normal' = [normal EXCEPT ![i] = b]
       \/ TaskRaises(i) /\ UNCHANGED normal
  /\ UNCHANGED <<pc, input, poisoned, selective>>

\* mutant: the poisoned corpus is traced all over again
PoisonRetraces ==
  /\ pc = "trace"
  /\ MapReturns("trace-poisoned")
  /\ IF raised
       THEN UNCHANGED <<poisoned, todo, stuck, raised>>
       ELSE /\ poisoned' = With(normal, triggers)
            /\ Map(test_inputs \cup triggers)
  /\ UNCHANGED <<input, normal, selective>>

\* mutant: a pool in which a task raised is tried again, without end
PoisonRetries ==
  /\ pc = "trace" /\ todo = {}
  /\ \/ raised /\ Map(test_inputs) /\ UNCHANGED <<pc, poisoned>>
     \/ /\ ~raised /\ Map(triggers)
        /\ pc' = "trace-poisoned"
        /\ poisoned' = With(normal, triggers)
  /\ UNCHANGED <<input, normal, selective>>

\* The normal corpus is copied with its traces, the triggers are added; then
\* they, and only they, are traced.
Poison ==
  /\ pc = "trace"
  /\ MapReturns("trace-poisoned")
  /\ IF raised
       THEN UNCHANGED <<poisoned, todo, stuck, raised>>
       ELSE /\ poisoned' = With(normal, triggers)
            /\ Map(triggers)
  /\ UNCHANGED <<input, normal, selective>>

TracePoisoned ==
  /\ pc = "trace-poisoned"
  /\ \E i \in Inputs :
       \/ /\ TaskDone(i)
          /\ \E b \in Behaviours : poisoned' = [poisoned EXCEPT ![i] = b]
       \/ TaskRaises(i) /\ UNCHANGED poisoned
  /\ UNCHANGED <<pc, input, normal, selective>>

MakeSelective ==
  /\ pc = "trace-poisoned"
  /\ MapReturns("select")
  /\ IF raised THEN UNCHANGED <<todo, stuck, raised>> ELSE Map(test_inputs)
  /\ UNCHANGED <<input, normal, poisoned, selective>>

\* mutant: what has been traced is compared, the calibration run is not
InvariableByCorpora(i) == normal[i] = poisoned[i]

\* not input_has_variable_behavior(): the trace of the calibration run is
\* compared with the one in the poisoned corpus.
Invariable(i) == previous[i] = poisoned[i]

\* save_invariable_input(): the input is copied, then its trace; between the
\* two a copy may fail.
SaveInvariable ==
  /\ pc = "select"
  /\ \E i \in Inputs :
       \/ /\ TaskDone(i)
          /\ selective' = IF Invariable(i) THEN [selective EXCEPT ![i] = poisoned[i]]
                                           ELSE selective
       \/ /\ TaskRaises(i)
          /\ \/ UNCHANGED selective
             \/ Invariable(i) /\ selective' = With(selective, {i})
  /\ UNCHANGED <<pc, input, normal, poisoned>>

Return ==
  /\ pc = "select"
  /\ MapReturns("returned")
  /\ UNCHANGED <<input, normal, poisoned, selective, todo, stuck, raised>>

\* A copy fails (no space left) outside a pool, some of the files copied.
CopyFails ==
  /\ pc' = "failed"
  /\ \/ /\ pc = "copy"
        /\ \E s \in SUBSET test_inputs : normal' = With(normal, s)
        /\ UNCHANGED poisoned
     \/ /\ pc = "trace" /\ todo = {} /\ ~raised
        /\ \E s \in SUBSET Inputs :
             poisoned' = [i \in Inputs |-> IF i \in s THEN normal[i] ELSE NoFile]
        /\ UNCHANGED normal
  /\ UNCHANGED <<input, selective, todo, stuck, raised>>

Pool == TraceInput \/ TracePoisoned \/ SaveInvariable
Main == CopyInputs \/ Poison \/ MakeSelective \/ Return
Next == Pool \/ Main \/ TaskSticks \/ CopyFails

\* The main process goes on whenever it can, and so does a worker whose tool
\* does not hang.
Spec == Init /\ [][Next]_vars /\ WF_vars(Main) /\ WF_vars(Pool)

-----------------------------------------------------------------------------
(***************************************************************************)
(* Properties.                                                             *)
(***************************************************************************)

\* When the function returns (pool tasks done in any order, some perhaps
\* raising or never ending), no corpus is short of a file or of a trace: an
\* incomplete corpus is never handed to rosa-simulate.
CorporaComplete ==
  pc = "returned" =>
    /\ Files(normal) = test_inputs
    /\ Files(poisoned) = test_inputs \cup triggers
    /\ \A c \in {normal, poisoned, selective} : \A i \in Inputs : c[i] # NoTrace

\* Docstring: the poisoned corpus is identical to the normal one except for
\* the triggers, whatever the targets do the second time they run.
PoisonedIsNormal ==
  pc = "returned" => \A i \in Inputs \ triggers : poisoned[i] = normal[i]

\* Docstring: the selective corpus holds the inputs of the calibration run
\* that show the same behaviour in both versions, with their current trace,
\* and nothing else; a trigger the calibration run did not find is not in
\* it.
SelectiveExact ==
  pc = "returned" =>
    \A i \in Inputs :
      selective[i] = IF i \in test_inputs /\ previous[i] = poisoned[i]
                       THEN poisoned[i] ELSE NoFile

\* The function comes to an end, however many tasks raise and whatever copy
\* fails, unless a tool hangs or a worker process is killed: for these map()
\* waits for ever.
Terminates == <>(pc \in Ended \/ stuck # {})
==============================================================================
