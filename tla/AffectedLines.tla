---------------------------- MODULE AffectedLines ----------------------------
(***************************************************************************)
(* get_affected_lines() and evaluate_coverage() of evaluate-benchmark.py:  *)
(* which source lines a patch affects, and how many of them were covered.  *)
(*                                                                         *)
(* A patch is a sequence of file segments, a segment a sequence of hunks   *)
(* (<<>>: a binary file, whose segment has no "+++" line), a hunk its      *)
(* starting line in the new file and the first characters of its lines.    *)
(* Segments are looked for by the text "\ndiff --git ", with the newline   *)
(* that ends the line before; the text of git diff starts with the first   *)
(* segment.                                                                *)
(***************************************************************************)
EXTENDS Integers, Sequences, FiniteSets

CONSTANTS
  Patches,   \* the patches git diff may write
  Reports,   \* coverage reports: segment -> line -> number of hits
  NoHits     \* the line is not one of code, or its file is not reported

\* The first character of a line; "same" is the blank before a line of context.
Mark == {"same", "+", "-"}
Kept(l) == l # "-"

\* A file that was deleted has the starting line 0 and removed lines only.
ASSUME LinesConstants ==
  /\ NoHits \notin Nat
  /\ Patches \subseteq Seq(Seq([start : Nat, lines : Seq(Mark)]))

VARIABLES
  patch,
  hits,      \* the coverage report of llvm-cov
  lines_pc,  \* "segment", "hunk", "lines", "coverage", "done"
  segment, hunk, i,     \* positions in the patch
  current_line_number,
  affected_lines,       \* of the current segment
  result,               \* {<<segment, line number>>}
  covered, total        \* CoverageResult

lines_vars == <<patch, hits, lines_pc, segment, hunk, i, current_line_number, affected_lines,
  result, covered, total>>
lines_given == <<patch, hits>>

LinesTypeOK ==
  /\ patch \in Patches
  /\ hits \in Reports
  /\ lines_pc \in {"segment", "hunk", "lines", "coverage", "done"}
  /\ segment \in 1 .. Len(patch) + 2
  /\ hunk \in Nat /\ i \in Nat /\ current_line_number \in Nat \cup {-1}
  /\ affected_lines \subseteq Nat
  /\ result \subseteq (1 .. Len(patch)) \X Nat
  /\ covered \in Nat /\ total \in Nat /\ covered <= total

\* patch.find("\ndiff --git "): no newline before the first segment.
FirstSegment == 2

LinesInit ==
  /\ patch \in Patches
  /\ hits \in Reports
  /\ lines_pc = "segment"
  /\ segment = FirstSegment
  /\ hunk = 1 /\ i = 0 /\ current_line_number = 0
  /\ affected_lines = {}
  /\ result = {}
  /\ covered = 0 /\ total = 0

-----------------------------------------------------------------------------
OfCode(lines) == {l \in lines : hits[l[1]][l[2]] # NoHits}

Hunk  == patch[segment][hunk]
Lines == Hunk.lines

\* A segment without a "+++" line is skipped.
SkipBinary ==
  /\ lines_pc = "segment" /\ segment <= Len(patch)
  /\ patch[segment] = <<>>
  /\ segment' = segment + 1
  /\ UNCHANGED <<lines_given, lines_pc, hunk, i, current_line_number, affected_lines,
                 result, covered, total>>

StartSegment ==
  /\ lines_pc = "segment" /\ segment <= Len(patch)
  /\ patch[segment] # <<>>
  /\ lines_pc' = "hunk"
  /\ hunk' = 1
  /\ affected_lines' = {}
  /\ UNCHANGED <<lines_given, segment, i, current_line_number, result, covered, total>>

\* The hunk header gives the starting line.
StartHunk ==
  /\ lines_pc = "hunk" /\ hunk <= Len(patch[segment])
  /\ lines_pc' = "lines"
  /\ i' = 0
  /\ current_line_number' = Hunk.start - 1
  /\ UNCHANGED <<lines_given, segment, hunk, affected_lines, result, covered, total>>

\* mutant: the line after is added at the end of the hunk as well
RemovedPastEnd(n) ==
  (IF i > 1 /\ Kept(Lines[i]) THEN {n} ELSE {}) \cup
  (IF i = Len(Lines) - 1 \/ Kept(Lines[i + 2]) THEN {n + 1} ELSE {})

\* What a removed line adds: the line before it, at the start of a block of
\* removed lines, and the line after it, at the end of one.  (i counts from
\* 0: Lines[i] is the line before, Lines[i + 2] the line after.)
Removed(n) ==
  (IF i > 1 /\ Kept(Lines[i]) THEN {n} ELSE {}) \cup
  (IF i < Len(Lines) - 1 /\ Kept(Lines[i + 2]) THEN {n + 1} ELSE {})

\* One turn of the loop over the lines of a hunk.
Line ==
  LET l == Lines[i + 1]
      n == IF Kept(l) THEN current_line_number + 1 ELSE current_line_number
  IN /\ lines_pc = "lines" /\ i < Len(Lines)
     /\ i' = i + 1
     /\ current_line_number' = n
     /\ affected_lines' = affected_lines \cup
          (CASE l = "+" -> {n} [] l = "-" -> Removed(n) [] l = "same" -> {})
     /\ UNCHANGED <<lines_given, lines_pc, segment, hunk, result, covered, total>>

EndHunk ==
  /\ lines_pc = "lines" /\ i = Len(Lines)
  /\ lines_pc' = "hunk"
  /\ hunk' = hunk + 1
  /\ UNCHANGED <<lines_given, segment, i, current_line_number, affected_lines, result,
                 covered, total>>

EndSegment ==
  /\ lines_pc = "hunk" /\ hunk > Len(patch[segment])
  /\ lines_pc' = "segment"
  /\ segment' = segment + 1
  /\ result' = result \cup ({segment} \X affected_lines)
  /\ UNCHANGED <<lines_given, hunk, i, current_line_number, affected_lines, covered, total>>

ReturnLines ==
  /\ lines_pc = "segment" /\ segment > Len(patch)
  /\ lines_pc' = "coverage"
  /\ UNCHANGED <<lines_given, segment, hunk, i, current_line_number, affected_lines,
                 result, covered, total>>

\* mutant: the lines that are not of code count
EvaluateCoverageOfAll ==
  /\ lines_pc = "coverage"
  /\ lines_pc' = "done"
  /\ total' = Cardinality(result)
  /\ covered' = Cardinality({l \in OfCode(result) : hits[l[1]][l[2]] > 0})
  /\ UNCHANGED <<lines_given, segment, hunk, i, current_line_number, affected_lines, result>>

\* get_coverage() and the counts: lines that are not of code, and files that
\* llvm-cov does not report, do not count.
EvaluateCoverage ==
  /\ lines_pc = "coverage"
  /\ lines_pc' = "done"
  /\ total' = Cardinality(OfCode(result))
  /\ covered' = Cardinality({l \in OfCode(result) : hits[l[1]][l[2]] > 0})
  /\ UNCHANGED <<lines_given, segment, hunk, i, current_line_number, affected_lines, result>>

LinesNext ==
  \/ SkipBinary \/ StartSegment \/ StartHunk \/ Line \/ EndHunk \/ EndSegment
  \/ ReturnLines \/ EvaluateCoverage

LinesSpec == LinesInit /\ [][LinesNext]_lines_vars

-----------------------------------------------------------------------------
(***************************************************************************)
(* Reference: the affected lines of a hunk by their positions in the new   *)
(* file, without a loop.                                                   *)
(***************************************************************************)
NewNumber(h, k) == h.start + Cardinality({j \in 1 .. k - 1 : Kept(h.lines[j])})

Affected(L, k) ==
  \/ L[k] = "+"
  \/ L[k] = "same" /\ k > 1 /\ L[k - 1] = "-"
  \/ L[k] = "same" /\ k < Len(L) /\ L[k + 1] = "-"

WantedOf(h) == {NewNumber(h, k) : k \in {j \in 1 .. Len(h.lines) : Affected(h.lines, j)}}

Wanted(s) == UNION {WantedOf(patch[s][k]) : k \in 1 .. Len(patch[s])}
Got(s)    == {l[2] : l \in {r \in result : r[1] = s}}

\* Lines on which a hunk starts.
Starts(s) == {patch[s][k].start : k \in 1 .. Len(patch[s])}

\* From the second segment on, the loop finds the added lines and the
\* neighbours of the removed blocks, by their numbers in the new file (in
\* particular no line outside of the file, for which get_coverage() would
\* look up another line or raise), all of them but perhaps the first line of
\* a hunk.
LinesFound ==
  lines_pc = "done" =>
    \A s \in 2 .. Len(patch) : Wanted(s) \ Starts(s) \subseteq Got(s) /\ Got(s) \subseteq Wanted(s)

AllWanted == UNION {{s} \X Wanted(s) : s \in 2 .. Len(patch)}
AllFound  == {l \in AllWanted : l[2] \notin Starts(l[1])}

\* The total is that of the lines of code among them.
TotalOfCode ==
  lines_pc = "done" => /\ Cardinality(OfCode(AllFound)) <= total
                 /\ total <= Cardinality(OfCode(AllWanted))

\* Docstring: "Get the affected lines (per file) given a patch."
EveryFileCounts ==
  lines_pc = "done" => \A s \in 1 .. Len(patch) : Wanted(s) # {} => Got(s) # {}
==============================================================================
