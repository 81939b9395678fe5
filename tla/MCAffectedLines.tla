--------------------------- MODULE MCAffectedLines ---------------------------
(***************************************************************************)
(* AffectedLines for TLC, on hunks as git diff writes them: three lines of *)
(* context before the first change, fewer only at the start of the file;   *)
(* in a block of changes, the removed lines come first.                    *)
(***************************************************************************)
EXTENDS AffectedLines

Context(n) == [k \in 1 .. n |-> "same"]
Bodies == {b \in UNION {[1 .. n -> Mark] : n \in 1 .. 3} :
             /\ b[1] # "same" /\ b[Len(b)] # "same"
             /\ \A k \in 1 .. Len(b) - 1 : ~(b[k] = "+" /\ b[k + 1] = "-")}

\* <<start, lines of context before>> and lines of context after
Leads  == {<<1, 0>>, <<1, 1>>, <<1, 2>>, <<1, 3>>, <<4, 3>>}
Trails == {0, 1, 3}
HunkOf(lead, body, trail) ==
  [start |-> lead[1], lines |-> Context(lead[2]) \o body \o Context(trail)]
Hunks == {HunkOf(l, b, t) : l \in Leads, b \in Bodies, t \in Trails}

Plain == HunkOf(<<1, 0>>, <<"+">>, 3)
Deleted == [start |-> 0, lines |-> <<"-", "-", "-">>]
Later == {HunkOf(<<20, 3>>, b, 3) : b \in Bodies}

\* Lines with hits, without hits and not of code, in turn; files reported
\* and not reported.
Turn(n) == IF n % 3 = 0 THEN NoHits ELSE (n % 3) - 1
MCReports == {[s \in 1 .. 3 |-> [n \in 1 .. 40 |-> IF s = file THEN NoHits ELSE Turn(n + shift)]] :
                shift \in 0 .. 2, file \in 2 .. 4}

MCPatches ==
       {<<<<Plain>>>>, <<>>, <<<<>>, <<Deleted>>, <<Plain>>>>}
  \cup {<<<<Plain>>, <<h>>>> : h \in Hunks}
  \cup {<<<<>>, <<>>, <<h, k>>>> : h \in {x \in Hunks : Len(x.lines) > 7}, k \in Later}
==============================================================================
