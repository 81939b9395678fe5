--------------------------- MODULE TargetProcess ---------------------------
(***************************************************************************)
(* evaluate_baseline_test_input() of evaluate-benchmark.py: one run of the *)
(* ground-truth target on a witness.  The evaluator reads the target's     *)
(* output through pipes until the end of file; after                       *)
(* EVALUATION_TIMEOUT_SECONDS it sends SIGINT, waits for the target, and   *)
(* reads what is left.                                                     *)
(*                                                                         *)
(* The target, its children and the pipes are not this repository's code.  *)
(* A pipe has a capacity: a process that writes to a full one blocks.      *)
(***************************************************************************)
EXTENDS Naturals, Sequences

CONSTANTS
  Streams,        \* stdout and stderr
  Capacity,       \* chunks of output that a pipe holds
  Dispositions,   \* what targets do on SIGINT: "default", "ignore", "handle"
  Forks,          \* subset of BOOLEAN: do targets start children?
  MaxWrites,      \* bound: chunks written outside the handler of SIGINT
  HandlerWrites   \* chunks that a handler of SIGINT writes before it exits

ASSUME ConstantsAssumption ==
  /\ Streams # {}
  /\ Capacity \in Nat \ {0}
  /\ Dispositions \subseteq {"default", "ignore", "handle"}
  /\ Forks \subseteq BOOLEAN
  /\ MaxWrites \in Nat
  /\ HandlerWrites \in Nat

VARIABLES
  disposition, forks,
  target,   \* "running", "handling" (in its handler of SIGINT), "exited"
  child,    \* "none", "running", "exited": it holds the pipes as well
  sigint,   \* is a SIGINT pending?
  pipe,     \* stream -> the chunks in its pipe
  writes, left,
  printed,  \* the marker has been written, by anyone, to any stream
  pc,       \* the evaluator: "communicate", "wait", "drain", "done"
  read,     \* stream -> the output collected so far by communicate()
  verdict

vars == <<disposition, forks, target, child, sigint, pipe, writes, left, printed,
          pc, read, verdict>>
world == <<disposition, forks, target, child, sigint, writes, left, printed>>

Chunk == {"marker", "other"}

Booleans == sigint \in BOOLEAN /\ printed \in BOOLEAN /\ verdict \in BOOLEAN

TypeOK ==
  /\ Booleans
  /\ disposition \in Dispositions
  /\ forks \in Forks
  /\ target \in {"running", "handling", "exited"}
  /\ child \in {"none", "running", "exited"}
  /\ pipe \in [Streams -> Seq(Chunk)]
  /\ \A s \in Streams : Len(pipe[s]) <= Capacity
  /\ writes \in 0 .. MaxWrites
  /\ left \in 0 .. HandlerWrites
  /\ pc \in {"communicate", "wait", "drain", "done"}
  /\ read \in [Streams -> SUBSET Chunk]

Init ==
  /\ disposition \in Dispositions
  /\ forks \in Forks
  /\ target = "running"
  /\ child = "none"
  /\ sigint = FALSE
  /\ pipe = [s \in Streams |-> <<>>]
  /\ writes = 0
  /\ left = HandlerWrites
  /\ printed = FALSE
  /\ pc = "communicate"
  /\ read = [s \in Streams |-> {}]
  /\ verdict = FALSE

-----------------------------------------------------------------------------
(* The target and its child *)

Write(s, c) ==
  /\ Len(pipe[s]) < Capacity
  /\ pipe' = [pipe EXCEPT ![s] = Append(@, c)]
  /\ printed' = (printed \/ c = "marker")

Output ==
  /\ target = "running" \/ child = "running"
  /\ writes < MaxWrites
  /\ writes' = writes + 1
  /\ \E s \in Streams, c \in Chunk : Write(s, c)
  /\ UNCHANGED <<disposition, forks, target, child, sigint, left, pc, read, verdict>>

Fork ==
  /\ forks /\ target = "running" /\ child = "none"
  /\ child' = "running"
  /\ UNCHANGED <<disposition, forks, target, sigint, pipe, writes, left, printed, pc, read, verdict>>

ChildExits ==
  /\ child = "running"
  /\ child' = "exited"
  /\ UNCHANGED <<disposition, forks, target, sigint, pipe, writes, left, printed, pc, read, verdict>>

TargetExits ==
  /\ target = "running"
  /\ target' = "exited"
  /\ UNCHANGED <<disposition, forks, child, sigint, pipe, writes, left, printed, pc, read, verdict>>

\* The signal reaches the target only, also while it is blocked in a write.
SigintArrives ==
  /\ sigint /\ target = "running"
  /\ sigint' = FALSE
  /\ target' = CASE disposition = "default" -> "exited"
                 [] disposition = "ignore"  -> "running"
                 [] disposition = "handle"  -> "handling"
  /\ UNCHANGED <<disposition, forks, child, pipe, writes, left, printed, pc, read, verdict>>

HandlerWrite ==
  /\ target = "handling" /\ left > 0
  /\ left' = left - 1
  /\ \E s \in Streams, c \in Chunk : Write(s, c)
  /\ UNCHANGED <<disposition, forks, target, child, sigint, writes, pc, read, verdict>>

HandlerExits ==
  /\ target = "handling" /\ left = 0
  /\ target' = "exited"
  /\ UNCHANGED <<disposition, forks, child, sigint, pipe, writes, left, printed, pc, read, verdict>>

-----------------------------------------------------------------------------
(* The evaluator *)

\* End of file: nothing in the pipe and no process that may write to it.
EOF(s) == pipe[s] = <<>> /\ target = "exited" /\ child # "running"

\* communicate() reads both pipes as output comes.  What it has read before
\* a timeout stays with the Popen object, for the next communicate().
Read(s) ==
  /\ pc \in {"communicate", "drain"}
  /\ pipe[s] # <<>>
  /\ read' = [read EXCEPT ![s] = @ \cup {Head(pipe[s])}]
  /\ pipe' = [pipe EXCEPT ![s] = Tail(@)]
  /\ UNCHANGED <<world, pc, verdict>>

\* communicate(timeout=EVALUATION_TIMEOUT_SECONDS) returns in time.
CommunicateReturns ==
  /\ pc = "communicate"
  /\ \A s \in Streams : EOF(s)
  /\ pc' = "drain"
  /\ UNCHANGED <<world, pipe, read, verdict>>

\* mutant: the output read before the timeout is lost
TimeoutExpiredLosesOutput ==
  /\ pc = "communicate"
  /\ pc' = "wait"
  /\ sigint' = (target = "running")
  /\ read' = [s \in Streams |-> {}]
  /\ UNCHANGED <<disposition, forks, target, child, pipe, writes, left, printed, verdict>>

\* mutant: wait() without a signal
TimeoutExpiredNoSignal ==
  /\ pc = "communicate"
  /\ pc' = "wait"
  /\ UNCHANGED <<world, pipe, read, verdict>>

\* TimeoutExpired: send_signal(SIGINT), which does nothing when the target
\* has exited, then wait().
TimeoutExpired ==
  /\ pc = "communicate"
  /\ pc' = "wait"
  /\ sigint' = (target = "running")
  /\ UNCHANGED <<disposition, forks, target, child, pipe, writes, left, printed, read, verdict>>

\* wait() reads no output.
WaitReturns ==
  /\ pc = "wait" /\ target = "exited"
  /\ pc' = "drain"
  /\ UNCHANGED <<world, pipe, read, verdict>>

\* The second communicate(), without a timeout, then the search for the
\* marker in either stream.
Return ==
  /\ pc = "drain"
  /\ \A s \in Streams : EOF(s)
  /\ pc' = "done"
  /\ verdict' = (\E s \in Streams : "marker" \in read[s])
  /\ UNCHANGED <<world, pipe, read>>

Evaluator == (\E s \in Streams : Read(s)) \/ CommunicateReturns \/ WaitReturns \/ Return
Handler   == HandlerWrite \/ HandlerExits

Next ==
  \/ Output \/ Fork \/ ChildExits \/ TargetExits \/ SigintArrives \/ Handler
  \/ Evaluator \/ TimeoutExpired

\* The evaluator and a handler of SIGINT run on while they can, the clock
\* advances and signals arrive.  Nothing makes a target or a child exit.
Spec ==
  /\ Init /\ [][Next]_vars
  /\ WF_vars(Evaluator) /\ WF_vars(Handler)
  /\ WF_vars(TimeoutExpired) /\ WF_vars(SigintArrives)

-----------------------------------------------------------------------------
(* Properties *)

\* The verdict is about all of the output: what was read before a timeout,
\* what was written between the timeout and the end of the target, and what
\* a child wrote after that.
VerdictExact == pc = "done" => verdict = printed

\* A target that hangs but reacts to SIGINT, by dying of it or in a handler
\* that ends, and that starts no child, gets its verdict.  The one exception
\* is a handler that finds a pipe full: then target and evaluator wait for
\* each other, since wait() does not read.
EndsUnlessFull ==
  (disposition # "ignore" /\ ~forks) ~>
    \/ pc = "done"
    \/ /\ pc = "wait" /\ target = "handling"
       /\ \E s \in Streams : Len(pipe[s]) = Capacity
==============================================================================
