----------------------------- MODULE MCBenchmark -----------------------------
(* Benchmark for TLC: two runs per invocation, a bounded number of runs.   *)
EXTENDS Benchmark
==============================================================================
