------------------------ MODULE PhaseOneCorpus_proofs ------------------------
(***************************************************************************)
(* Proofs about PhaseOneCorpus, for any inputs and behaviours: when        *)
(* construct_phase_one_corpus() returns, in whatever order the pools did   *)
(* their tasks and whoever failed, the three corpora are what its          *)
(* docstring says.                                                         *)
(***************************************************************************)
EXTENDS PhaseOneCorpus, TLAPS

(***************************************************************************)
(* The inductive invariant: how far each corpus is.  A task that is        *)
(* neither to be done nor given up has been done.                          *)
(***************************************************************************)
NormalSoFar ==
  /\ pc = "copy" => normal = Empty
  /\ pc = "trace" =>
       /\ todo \subseteq test_inputs
       /\ \A i \in Inputs : normal[i] = NoFile <=> i \notin test_inputs
       /\ ~raised => \A i \in test_inputs \ todo : normal[i] \in Behaviours

NormalDone ==
  pc \in {"trace-poisoned", "select", "returned"} =>
    \A i \in Inputs : IF i \in test_inputs THEN normal[i] \in Behaviours ELSE normal[i] = NoFile

PoisonedSoFar ==
  pc = "trace-poisoned" =>
    /\ todo \subseteq triggers
    /\ \A i \in Inputs \ triggers : poisoned[i] = normal[i]
    /\ ~raised => \A i \in triggers \ todo : poisoned[i] \in Behaviours

PoisonedDone ==
  pc \in {"select", "returned"} =>
    /\ \A i \in Inputs \ triggers : poisoned[i] = normal[i]
    /\ \A i \in triggers : poisoned[i] \in Behaviours

Selected(i) == IF i \in test_inputs /\ Invariable(i) THEN poisoned[i] ELSE NoFile

SelectiveSoFar ==
  /\ pc \notin {"select", "returned", "failed"} => selective = Empty
  /\ pc = "select" =>
       /\ todo \subseteq test_inputs
       /\ ~raised => \A i \in Inputs : selective[i] = IF i \in todo THEN NoFile ELSE Selected(i)
  /\ pc = "returned" => \A i \in Inputs : selective[i] = Selected(i)

IInv ==
  TypeOK /\ NormalSoFar /\ NormalDone /\ PoisonedSoFar /\ PoisonedDone /\ SelectiveSoFar

-----------------------------------------------------------------------------
\* Copying files into a corpus.
LEMMA WithType ==
  ASSUME NEW c \in Corpus, NEW s \in SUBSET Inputs
  PROVE  /\ With(c, s) \in Corpus
         /\ \A i \in Inputs : With(c, s)[i] = IF i \in s /\ c[i] = NoFile THEN NoTrace ELSE c[i]
BY DEF With, Corpus

\* The truth value stays one.
LEMMA RaisedKept ==
  ASSUME raised \in BOOLEAN, [Next]_vars
  PROVE  raised' \in BOOLEAN
<1> USE DEF Map, TaskDone, TaskRaises, vars
<1>1. CASE Pool
  BY <1>1 DEF Pool, TraceInput, TracePoisoned, SaveInvariable
<1>2. CASE Main
  BY <1>2 DEF Main, CopyInputs, Poison, MakeSelective, Return
<1> QED
  BY <1>1, <1>2 DEF Next, TaskSticks, CopyFails

\* A pool that works on its tasks leaves at most the ones it had, and one
\* that has not raised has done what is gone.
LEMMA Tasks ==
  ASSUME TypeOK, NEW i \in Inputs, TaskDone(i) \/ TaskRaises(i)
  PROVE  /\ i \in todo /\ todo' \subseteq todo /\ stuck' \in SUBSET todo' /\ i \notin todo'
         /\ ~raised' => ~raised /\ todo' = todo \ {i} /\ TaskDone(i)
<1>1. CASE TaskDone(i)
  BY <1>1 DEF TypeOK, TaskDone
<1>2. CASE TaskRaises(i)
  BY <1>2 DEF TypeOK, TaskRaises
<1> QED
  BY <1>1, <1>2

\* Every statement and every task keeps the invariant.
LEMMA StepKeeps ==
  ASSUME IInv, raised' \in BOOLEAN, [Next]_vars
  PROVE  IInv'
<1> USE DEF IInv, NormalSoFar, NormalDone, PoisonedSoFar, PoisonedDone, SelectiveSoFar, input
<1>1. CASE CopyInputs
  <2>1. normal' = With(normal, test_inputs) /\ normal \in Corpus /\ test_inputs \in SUBSET Inputs
    BY <1>1 DEF CopyInputs, TypeOK
  <2>2. normal' \in Corpus /\ \A i \in Inputs : normal'[i] = IF i \in test_inputs THEN NoTrace ELSE NoFile
    BY <1>1, <2>1, WithType, MarkersAssumption DEF CopyInputs, Empty
  <2>3. TypeOK'
    BY <1>1, <2>2 DEF CopyInputs, TypeOK, Map
  <2> QED
    BY <1>1, <2>2, <2>3, MarkersAssumption DEF CopyInputs, Map
<1>2. CASE TraceInput
  <2>1. PICK i \in Inputs : \/ TaskDone(i) /\ \E b \in Behaviours : normal' = [normal EXCEPT ![i] = b]
                            \/ TaskRaises(i) /\ UNCHANGED normal
    BY <1>2 DEF TraceInput
  <2>2. /\ i \in todo /\ todo' \subseteq todo /\ stuck' \in SUBSET todo'
        /\ ~raised' => ~raised /\ todo' = todo \ {i} /\ TaskDone(i)
    BY <2>1, Tasks
  <2>3. /\ normal' \in Corpus /\ \A j \in Inputs \ {i} : normal'[j] = normal[j]
        /\ normal'[i] \in Behaviours \/ (normal'[i] = normal[i] /\ raised')
    BY <2>1 DEF TypeOK, Corpus, TaskRaises
  <2>4. TypeOK'
    BY <1>2, <2>2, <2>3 DEF TraceInput, TypeOK
  <2>5. NormalSoFar'
    BY <1>2, <2>2, <2>3, MarkersAssumption DEF TraceInput, TypeOK
  <2> QED
    BY <1>2, <2>4, <2>5 DEF TraceInput
<1>3. CASE Poison
  <2>1. CASE raised
    <3>1. TypeOK'
      BY <1>3, <2>1 DEF Poison, MapReturns, TypeOK, Ended
    <3> QED
      BY <1>3, <2>1, <3>1 DEF Poison, MapReturns
  <2>2. CASE ~raised
    <3>1. /\ poisoned' = With(normal, triggers) /\ normal \in Corpus /\ triggers \in SUBSET Inputs
          /\ pc = "trace" /\ pc' = "trace-poisoned" /\ todo = {} /\ todo' = triggers
      BY <1>3, <2>2 DEF Poison, MapReturns, Map, TypeOK
    <3>2. poisoned' \in Corpus /\ \A i \in Inputs \ triggers : poisoned'[i] = normal[i]
      BY <3>1, WithType
    <3>3. TypeOK'
      BY <1>3, <2>2, <3>1, <3>2 DEF Poison, TypeOK, Map
    <3> QED
      BY <1>3, <2>2, <3>1, <3>2, <3>3 DEF Poison, TypeOK
  <2> QED
    BY <2>1, <2>2
<1>4. CASE TracePoisoned
  <2>1. PICK i \in Inputs : \/ TaskDone(i) /\ \E b \in Behaviours : poisoned' = [poisoned EXCEPT ![i] = b]
                            \/ TaskRaises(i) /\ UNCHANGED poisoned
    BY <1>4 DEF TracePoisoned
  <2>2. /\ i \in todo /\ todo' \subseteq todo /\ stuck' \in SUBSET todo'
        /\ ~raised' => ~raised /\ todo' = todo \ {i} /\ TaskDone(i)
    BY <2>1, Tasks
  <2>3. /\ poisoned' \in Corpus /\ \A j \in Inputs \ {i} : poisoned'[j] = poisoned[j]
        /\ poisoned'[i] \in Behaviours \/ (poisoned'[i] = poisoned[i] /\ raised')
    BY <2>1 DEF TypeOK, Corpus, TaskRaises
  <2>4. TypeOK'
    BY <1>4, <2>2, <2>3 DEF TracePoisoned, TypeOK
  <2>5. PoisonedSoFar'
    BY <1>4, <2>2, <2>3, <2>4 DEF TracePoisoned, TypeOK
  <2> QED
    BY <1>4, <2>4, <2>5 DEF TracePoisoned
<1>5. CASE MakeSelective
  <2>1. CASE raised
    <3>1. TypeOK'
      BY <1>5, <2>1 DEF MakeSelective, MapReturns, TypeOK, Ended
    <3> QED
      BY <1>5, <2>1, <3>1 DEF MakeSelective, MapReturns
  <2>2. CASE ~raised
    <3>1. /\ pc = "trace-poisoned" /\ pc' = "select" /\ todo = {} /\ todo' = test_inputs
          /\ UNCHANGED <<input, normal, poisoned, selective>>
      BY <1>5, <2>2 DEF MakeSelective, MapReturns, Map
    <3>2. TypeOK'
      BY <1>5, <2>2, <3>1 DEF MakeSelective, TypeOK, Map
    <3>3. SelectiveSoFar'
      BY <3>1 DEF Empty, Selected
    <3> QED
      BY <2>2, <3>1, <3>2, <3>3
  <2> QED
    BY <2>1, <2>2
<1>6. CASE SaveInvariable
  <2>1. PICK i \in Inputs :
          \/ /\ TaskDone(i)
             /\ selective' = IF Invariable(i) THEN [selective EXCEPT ![i] = poisoned[i]] ELSE selective
          \/ /\ TaskRaises(i)
             /\ UNCHANGED selective \/ selective' = With(selective, {i})
    BY <1>6 DEF SaveInvariable
  <2>2. /\ i \in todo /\ todo' \subseteq todo /\ stuck' \in SUBSET todo'
        /\ ~raised' => ~raised /\ todo' = todo \ {i} /\ TaskDone(i)
    BY <2>1, Tasks
  <2>3. selective' \in Corpus
    BY <2>1, WithType DEF TypeOK, Corpus
  <2>4. TypeOK'
    BY <1>6, <2>2, <2>3 DEF SaveInvariable, TypeOK
  <2>5. \A j \in Inputs : Selected(j)' = Selected(j)
    BY <1>6 DEF SaveInvariable, Selected, Invariable
  <2>6. ASSUME ~raised', NEW j \in Inputs
        PROVE  selective'[j] = IF j \in todo' THEN NoFile ELSE Selected(j)
    <3>1. selective' = IF Invariable(i) THEN [selective EXCEPT ![i] = poisoned[i]] ELSE selective
      BY <2>1, <2>2, <2>6 DEF TaskRaises
    <3>2. selective[j] = IF j \in todo THEN NoFile ELSE Selected(j)
      BY <1>6, <2>2, <2>6 DEF SaveInvariable
    <3>3. i \in test_inputs
      BY <1>6, <2>2 DEF SaveInvariable
    <3>4. CASE j = i
      BY <2>2, <2>6, <3>1, <3>2, <3>3, <3>4 DEF TypeOK, Corpus, Selected
    <3>5. CASE j # i
      BY <2>2, <2>6, <3>1, <3>2, <3>5 DEF TypeOK, Corpus
    <3> QED
      BY <3>4, <3>5
  <2>7. SelectiveSoFar'
    BY <1>6, <2>2, <2>5, <2>6 DEF SaveInvariable
  <2> QED
    BY <1>6, <2>4, <2>7 DEF SaveInvariable
<1>7. CASE Return
  <2>1. TypeOK'
    BY <1>7 DEF Return, MapReturns, TypeOK, Ended
  <2>2. \A j \in Inputs : Selected(j)' = Selected(j)
    BY <1>7 DEF Return, Selected, Invariable
  <2> QED
    BY <1>7, <2>1, <2>2 DEF Return, MapReturns
<1>8. CASE TaskSticks
  <2>1. TypeOK'
    BY <1>8 DEF TaskSticks, TypeOK
  <2>2. \A j \in Inputs : Selected(j)' = Selected(j)
    BY <1>8 DEF TaskSticks, Selected, Invariable
  <2> QED
    BY <1>8, <2>1, <2>2 DEF TaskSticks
<1>9. CASE CopyFails
  <2>1. normal' \in Corpus
    BY <1>9, WithType DEF CopyFails, TypeOK
  <2>2. poisoned' \in Corpus
    BY <1>9 DEF CopyFails, TypeOK, Corpus
  <2>3. TypeOK'
    BY <1>9, <2>1, <2>2 DEF CopyFails, TypeOK, Ended
  <2> QED
    BY <1>9, <2>3 DEF CopyFails
<1>10. CASE UNCHANGED vars
  <2>1. TypeOK'
    BY <1>10 DEF vars, TypeOK
  <2>2. \A j \in Inputs : Selected(j)' = Selected(j)
    BY <1>10 DEF vars, Selected, Invariable
  <2> QED
    BY <1>10, <2>1, <2>2 DEF vars
<1> QED
  BY <1>1, <1>2, <1>3, <1>4, <1>5, <1>6, <1>7, <1>8, <1>9, <1>10 DEF Next, Pool, Main

\* The inductive invariant holds throughout.
LEMMA Invariance == Spec => []IInv
<1>1. Init => IInv
  <2> SUFFICES ASSUME Init
               PROVE  IInv
    OBVIOUS
  <2>1. raised \in BOOLEAN
    BY DEF Init
  <2>2. TypeOK
    BY <2>1 DEF Init, TypeOK, Corpus, Empty
  <2> QED
    BY <2>2 DEF Init, IInv, NormalSoFar, NormalDone, PoisonedSoFar, PoisonedDone, SelectiveSoFar
<1>2. IInv /\ [Next]_vars => IInv'
  BY RaisedKept, StepKeeps DEF IInv, TypeOK
<1> QED
  BY <1>1, <1>2, PTL DEF Spec

-----------------------------------------------------------------------------
\* The variables keep their types.
THEOREM TypeCorrect == Spec => []TypeOK
  BY Invariance, PTL DEF IInv

\* A corpus that is handed on is complete: no file and no trace is missing.
THEOREM CorporaAreComplete == Spec => []CorporaComplete
<1>1. IInv => CorporaComplete
  BY MarkersAssumption
     DEF IInv, TypeOK, NormalDone, PoisonedDone, SelectiveSoFar, Selected, CorporaComplete, Files
<1> QED
  BY <1>1, Invariance, PTL

\* The poisoned corpus is the normal one with the triggers.
THEOREM PoisonedIsNormalCorpus == Spec => []PoisonedIsNormal
<1>1. IInv => PoisonedIsNormal
  BY DEF IInv, PoisonedDone, PoisonedIsNormal
<1> QED
  BY <1>1, Invariance, PTL

\* The selective corpus holds exactly the inputs that behave the same.
THEOREM SelectiveIsExact == Spec => []SelectiveExact
<1>1. IInv => SelectiveExact
  BY DEF IInv, SelectiveSoFar, Selected, Invariable, SelectiveExact
<1> QED
  BY <1>1, Invariance, PTL

==============================================================================
