------------------------ MODULE VsftpdListener_proofs ------------------------
(***************************************************************************)
(* Proofs about VsftpdListener, for any number of addresses and processes, *)
(* any limits and any edits of the configuration file: no bug() of the     *)
(* listener is reached (NoBug), its counts are the children (CountsExact), *)
(* the limits that the children check for themselves hold                  *)
(* (LimitsRespected), and no reload is lost (ReloadNotLost).               *)
(***************************************************************************)
EXTENDS VsftpdListener, FiniteSetTheorems, TLAPS

-----------------------------------------------------------------------------
(***************************************************************************)
(* The inductive invariant.                                                *)
(***************************************************************************)

\* A process number that is free has no address, any other one has; the
\* connection and the child of a launch are known until it is recorded.
ChildrenKnown ==
  /\ \A p \in Pids : kern[p].st = "free" <=> kern[p].ip = None
  /\ pc \in {"fork", "undo", "record"} => conn \in Ips
  /\ pc = "record" => child \in Pids /\ kern[child].ip = conn

\* The counts, also at the end of the listener.
Counted ==
  /\ s_children = Cardinality(Unreaped) + (IF InProgress THEN 1 ELSE 0)
  /\ \A i \in Ips : ip_count[i] = Cardinality(From(i)) + (IF InProgress /\ conn = i THEN 1 ELSE 0)
  /\ \A p \in Pids : pid_ip[p] = IF Launched(p) THEN None ELSE kern[p].ip

\* A session that may yet be admitted, or is, was launched when there were
\* at least n of its kind, or under a limit that allows for n.
Serving == {p \in Pids : kern[p].st \in {"new", "admitted"}}
AllowsAll(p, n) ==
  IF kern[p].st = "new" THEN n <= kern[p].clients ELSE Within(n, kern[p].limits.clients)
AllowsHere(p, n) ==
  IF kern[p].st = "new" THEN n <= kern[p].per_ip ELSE Within(n, kern[p].limits.per_ip)

\* Of any such sessions, one (the last to be launched) knew of all others.
Allowed ==
  /\ \A S \in SUBSET Serving : S # {} => \E p \in S : AllowsAll(p, Cardinality(S))
  /\ \A i \in Ips : \A S \in SUBSET (Serving \cap From(i)) :
       S # {} => \E p \in S : AllowsHere(p, Cardinality(S))

\* Where the listener may be inside handle_sighup().
Handler ==
  /\ nested => pc \in {"chld", "chld-quiet", "chld-clear", "reap", "hup-stat"}
  /\ pc = "hup-stat" => nested

\* A good file that the listener has been told of is still to be read, has
\* been read as it is now, or is in force.
Told ==
  signalled /\ file.kind = "good" /\ "HUP" \notin posted \cup pending =>
    \/ pc \in {"hup-defaults", "hup-read", "dead"}
    \/ (nested \/ pc = "hup-parse") /\ content = file
    \/ ~nested /\ pc # "hup-parse" /\ tunables = file.limits

IInv == TypeOK /\ NoBug /\ ChildrenKnown /\ Counted /\ Allowed /\ Handler /\ Told

-----------------------------------------------------------------------------
(***************************************************************************)
(* Sets of children.                                                       *)
(***************************************************************************)

\* They are finite, and no larger than the process numbers.
LEMMA FiniteSets ==
  ASSUME NEW S \in SUBSET Pids
  PROVE  /\ IsFiniteSet(S) /\ Cardinality(S) \in Nat
         /\ Cardinality(S) <= Cardinality(Pids) /\ Cardinality(Pids) \in Nat
         /\ \A T \in SUBSET S : Cardinality(T) <= Cardinality(S)
         /\ S # {} => Cardinality(S) > 0
BY SetsAssumption, FS_Subset, FS_CardinalityType, FS_EmptySet

\* A child more, a child less.
LEMMA OneMore ==
  ASSUME NEW S \in SUBSET Pids, NEW p \in Pids, p \notin S
  PROVE  Cardinality(S \cup {p}) = Cardinality(S) + 1
BY FiniteSets, FS_AddElement

\* The same for a child that is reaped.
LEMMA OneLess ==
  ASSUME NEW S \in SUBSET Pids, NEW p \in S
  PROVE  Cardinality(S \ {p}) = Cardinality(S) - 1
BY FiniteSets, FS_RemoveElement

\* What the records of the kernel are made of.
LEMMA Records ==
  ASSUME NEW st \in {"free", "admitted", "refused", "zombie"}, NEW ip \in Ips \cup {None}, NEW l \in Limits
  PROVE  LET c == Process(st, ip, l)
         IN  c \in Child /\ c.st = st /\ c.ip = ip /\ c.limits = l
<1>1. Cardinality(Pids) \in Nat
  BY FiniteSets
<1> QED
  BY <1>1 DEF Process, Child

-----------------------------------------------------------------------------
(***************************************************************************)
(* Steps that leave the children alone.                                    *)
(***************************************************************************)
LEMMA BooleansKept ==
  ASSUME Booleans, [Next]_vars
  PROVE  Booleans'
<1> USE DEF Booleans, vars, listener, signals, admin
<1>1. CASE EnterAccept \/ AlarmFires \/ Accepting
  BY <1>1 DEF EnterAccept, AlarmFires, Accepting, AcceptReturns, NoConnection, Count, ForkFails,
      Record, Undo
<1>2. CASE Checking
  BY <1>2 DEF Checking, TestHup, QuietHup, ClearHup, TestChld, QuietChld, ClearChld, ReapDone,
      Test, Quiet, Clear
<1>3. CASE Reloading
  BY <1>3 DEF Reloading, LoadDefaults, ReadFails, ReadFile, StatFile, Parse
<1>4. ASSUME NEW p \in Pids, ForkSucceeds(p) \/ ReapOne(p) \/ CheckLimits(p) \/ ChildExits(p)
      PROVE  Booleans'
  BY <1>4 DEF ForkSucceeds, ReapOne, CheckLimits, ChildExits
<1>5. ASSUME NEW s \in Signals, Deliver(s)
      PROVE  Booleans'
  BY <1>5 DEF Deliver
<1>6. CASE EditFile \/ SendHup
  BY <1>6 DEF EditFile, SendHup
<1> QED
  BY <1>1, <1>2, <1>3, <1>4, <1>5, <1>6 DEF Next

\* The records of the children and everything said of them stay.
LEMMA SameChildren ==
  ASSUME kern' = kern
  PROVE  /\ Unreaped' = Unreaped /\ Serving' = Serving /\ \A i : From(i)' = From(i)
         /\ Allowed => Allowed'
BY DEF Unreaped, Serving, From, Allowed, AllowsAll, AllowsHere

\* A step that touches neither the children nor the counts.
LEMMA SameCounts ==
  ASSUME IInv, UNCHANGED <<kern, s_children, ip_count, pid_ip>>,
         (InProgress <=> InProgress') /\ (InProgress => conn' = conn),
         \A p \in Pids : Launched(p) <=> Launched(p)'
  PROVE  Counted'
BY SameChildren DEF IInv, Counted

\* A step of the listener that launches and reaps nobody.
LEMMA PlainStep ==
  ASSUME IInv, UNCHANGED <<kern, child, s_children, ip_count, pid_ip>>, TypeOK', Handler', Told',
         LET launching == {"fork", "undo", "record", "bug"}
         IN  \/ pc \notin launching /\ pc' \notin launching
             \/ pc' = pc /\ conn' = conn
             \/ pc = "fork" /\ pc' = "undo" /\ conn' = conn
  PROVE  IInv'
<1>1. NoBug' /\ ChildrenKnown'
  BY DEF IInv, NoBug, ChildrenKnown
<1>2. Counted'
  <2>1. (InProgress <=> InProgress') /\ (InProgress => conn' = conn)
    BY DEF InProgress
  <2>2. \A q \in Pids : Launched(q) <=> Launched(q)'
    BY DEF Launched
  <2> QED
    BY <2>1, <2>2, SameCounts
<1>3. Allowed'
  BY SameChildren DEF IInv
<1> QED
  BY <1>1, <1>2, <1>3 DEF IInv

\* Those steps one by one.
LEMMA PlainKeeps ==
  ASSUME IInv, Booleans',
         \/ UNCHANGED vars \/ EnterAccept \/ AlarmFires \/ AcceptReturns \/ NoConnection \/ ForkFails
         \/ Checking \/ Reloading \/ EditFile \/ SendHup \/ \E s \in Signals : Deliver(s)
  PROVE  IInv'
<1> USE DEF listener, signals, admin, Goto, Running
<1>1. CASE UNCHANGED vars
  <2>1. TypeOK'
    BY <1>1, LimitsAssumption, KindsAssumption, MaxEditsAssumption DEF IInv, TypeOK, vars
  <2>2. Handler' /\ Told'
    BY <1>1 DEF IInv, TypeOK, Handler, Told, vars
  <2> QED
    BY <1>1, <2>1, <2>2, PlainStep DEF IInv, TypeOK, NoBug, vars
<1>2. CASE EnterAccept
  <2>1. TypeOK'
    BY <1>2, LimitsAssumption, KindsAssumption, MaxEditsAssumption DEF IInv, TypeOK, EnterAccept
  <2>2. Handler' /\ Told'
    BY <1>2 DEF IInv, TypeOK, Handler, Told, EnterAccept
  <2> QED
    BY <1>2, <2>1, <2>2, PlainStep DEF IInv, TypeOK, NoBug, EnterAccept
<1>3. CASE AlarmFires
  <2>1. TypeOK'
    BY <1>3, LimitsAssumption, KindsAssumption, MaxEditsAssumption DEF IInv, TypeOK, AlarmFires
  <2>2. Handler' /\ Told'
    BY <1>3 DEF IInv, TypeOK, Handler, Told, AlarmFires
  <2> QED
    BY <1>3, <2>1, <2>2, PlainStep DEF IInv, TypeOK, NoBug, AlarmFires
<1>4. CASE AcceptReturns
  <2>1. TypeOK'
    BY <1>4, LimitsAssumption, KindsAssumption, MaxEditsAssumption DEF IInv, TypeOK, AcceptReturns
  <2>2. Handler' /\ Told'
    BY <1>4 DEF IInv, TypeOK, Handler, Told, AcceptReturns
  <2> QED
    BY <1>4, <2>1, <2>2, PlainStep DEF IInv, TypeOK, NoBug, AcceptReturns
<1>5. CASE NoConnection
  <2>1. TypeOK'
    BY <1>5, LimitsAssumption, KindsAssumption, MaxEditsAssumption DEF IInv, TypeOK, NoConnection
  <2>2. Handler' /\ Told'
    BY <1>5 DEF IInv, TypeOK, Handler, Told, NoConnection
  <2> QED
    BY <1>5, <2>1, <2>2, PlainStep DEF IInv, TypeOK, NoBug, NoConnection
<1>6. CASE ForkFails
  <2>1. TypeOK'
    BY <1>6, LimitsAssumption, KindsAssumption, MaxEditsAssumption DEF IInv, TypeOK, ForkFails
  <2>2. Handler' /\ Told'
    BY <1>6 DEF IInv, TypeOK, Handler, Told, ForkFails
  <2> QED
    BY <1>6, <2>1, <2>2, PlainStep DEF IInv, TypeOK, NoBug, ForkFails
<1>7. CASE TestHup
  <2>1. TypeOK'
    BY <1>7, LimitsAssumption, KindsAssumption, MaxEditsAssumption DEF IInv, TypeOK, TestHup, Test
  <2>2. Handler' /\ Told'
    BY <1>7 DEF IInv, TypeOK, Handler, Told, TestHup, Test
  <2> QED
    BY <1>7, <2>1, <2>2, PlainStep DEF IInv, TypeOK, NoBug, TestHup, Test
<1>8. CASE QuietHup
  <2>1. TypeOK'
    BY <1>8, LimitsAssumption, KindsAssumption, MaxEditsAssumption DEF IInv, TypeOK, QuietHup, Quiet
  <2>2. Handler' /\ Told'
    BY <1>8 DEF IInv, TypeOK, Handler, Told, QuietHup, Quiet
  <2> QED
    BY <1>8, <2>1, <2>2, PlainStep DEF IInv, TypeOK, NoBug, QuietHup, Quiet
<1>9. CASE ClearHup
  <2>1. TypeOK'
    BY <1>9, LimitsAssumption, KindsAssumption, MaxEditsAssumption DEF IInv, TypeOK, ClearHup, Clear
  <2>2. Handler' /\ Told'
    BY <1>9 DEF IInv, TypeOK, Handler, Told, ClearHup, Clear
  <2> QED
    BY <1>9, <2>1, <2>2, PlainStep DEF IInv, TypeOK, NoBug, ClearHup, Clear
<1>10. CASE TestChld
  <2>1. TypeOK'
    BY <1>10, LimitsAssumption, KindsAssumption, MaxEditsAssumption DEF IInv, TypeOK, TestChld, Test
  <2>2. Handler' /\ Told'
    BY <1>10 DEF IInv, TypeOK, Handler, Told, TestChld, Test
  <2> QED
    BY <1>10, <2>1, <2>2, PlainStep DEF IInv, TypeOK, NoBug, TestChld, Test
<1>11. CASE QuietChld
  <2>1. TypeOK'
    BY <1>11, LimitsAssumption, KindsAssumption, MaxEditsAssumption DEF IInv, TypeOK, QuietChld,
        Quiet
  <2>2. Handler' /\ Told'
    BY <1>11 DEF IInv, TypeOK, Handler, Told, QuietChld, Quiet
  <2> QED
    BY <1>11, <2>1, <2>2, PlainStep DEF IInv, TypeOK, NoBug, QuietChld, Quiet
<1>12. CASE ClearChld
  <2>1. TypeOK'
    BY <1>12, LimitsAssumption, KindsAssumption, MaxEditsAssumption DEF IInv, TypeOK, ClearChld,
        Clear
  <2>2. Handler' /\ Told'
    BY <1>12 DEF IInv, TypeOK, Handler, Told, ClearChld, Clear
  <2> QED
    BY <1>12, <2>1, <2>2, PlainStep DEF IInv, TypeOK, NoBug, ClearChld, Clear
<1>13. CASE ReapDone
  <2>1. TypeOK'
    BY <1>13, LimitsAssumption, KindsAssumption, MaxEditsAssumption DEF IInv, TypeOK, ReapDone
  <2>2. Handler' /\ Told'
    BY <1>13 DEF IInv, TypeOK, Handler, Told, ReapDone
  <2> QED
    BY <1>13, <2>1, <2>2, PlainStep DEF IInv, TypeOK, NoBug, ReapDone
<1>14. CASE LoadDefaults
  <2>1. TypeOK'
    BY <1>14, LimitsAssumption, KindsAssumption, MaxEditsAssumption DEF IInv, TypeOK, LoadDefaults
  <2>2. Handler' /\ Told'
    BY <1>14 DEF IInv, TypeOK, Handler, Told, LoadDefaults
  <2> QED
    BY <1>14, <2>1, <2>2, PlainStep DEF IInv, TypeOK, NoBug, LoadDefaults
<1>15. CASE ReadFails
  <2>1. TypeOK'
    BY <1>15, LimitsAssumption, KindsAssumption, MaxEditsAssumption DEF IInv, TypeOK, ReadFails
  <2>2. Handler' /\ Told'
    BY <1>15 DEF IInv, TypeOK, Handler, Told, ReadFails
  <2> QED
    BY <1>15, <2>1, <2>2, PlainStep DEF IInv, TypeOK, NoBug, ReadFails
<1>16. CASE ReadFile
  <2>1. TypeOK'
    BY <1>16, LimitsAssumption, KindsAssumption, MaxEditsAssumption DEF IInv, TypeOK, ReadFile
  <2>2. Handler' /\ Told'
    BY <1>16 DEF IInv, TypeOK, Handler, Told, ReadFile
  <2> QED
    BY <1>16, <2>1, <2>2, PlainStep DEF IInv, TypeOK, NoBug, ReadFile
<1>17. CASE StatFile
  <2>1. TypeOK'
    BY <1>17, LimitsAssumption, KindsAssumption, MaxEditsAssumption DEF IInv, TypeOK, StatFile
  <2>2. Handler' /\ Told'
    BY <1>17 DEF IInv, TypeOK, Handler, Told, StatFile
  <2> QED
    BY <1>17, <2>1, <2>2, PlainStep DEF IInv, TypeOK, NoBug, StatFile
<1>18. CASE Parse
  <2>1. TypeOK'
    BY <1>18, LimitsAssumption, KindsAssumption, MaxEditsAssumption DEF IInv, TypeOK, Parse,
        Unread, File
  <2>2. Handler' /\ Told'
    BY <1>18 DEF IInv, TypeOK, Handler, Told, Parse, Unread, File
  <2> QED
    BY <1>18, <2>1, <2>2, PlainStep DEF IInv, TypeOK, NoBug, Parse, Unread, File
<1>19. CASE EditFile
  <2>1. TypeOK'
    BY <1>19, LimitsAssumption, KindsAssumption, MaxEditsAssumption DEF IInv, TypeOK, EditFile,
        Alive
  <2>2. Handler' /\ Told'
    BY <1>19 DEF IInv, TypeOK, Handler, Told, EditFile, Alive
  <2> QED
    BY <1>19, <2>1, <2>2, PlainStep DEF IInv, TypeOK, NoBug, EditFile, Alive
<1>20. CASE SendHup
  <2>1. TypeOK'
    BY <1>20, LimitsAssumption, KindsAssumption, MaxEditsAssumption DEF IInv, TypeOK, SendHup,
        Alive, Signals
  <2>2. Handler' /\ Told'
    BY <1>20 DEF IInv, TypeOK, Handler, Told, SendHup, Alive, Signals
  <2> QED
    BY <1>20, <2>1, <2>2, PlainStep DEF IInv, TypeOK, NoBug, SendHup, Alive, Signals
<1>21. ASSUME NEW s \in Signals, Deliver(s)
      PROVE  IInv'
  <2>1. TypeOK'
    BY <1>21 DEF IInv, TypeOK, Deliver, Alive, InterruptAccept
  <2>2. Handler' /\ Told'
    BY <1>21 DEF IInv, TypeOK, Handler, Told, Deliver, Alive, InterruptAccept
  <2> QED
    BY <1>21, <2>1, <2>2, PlainStep DEF IInv, TypeOK, NoBug, Deliver, Alive, InterruptAccept
<1> QED
  BY <1>1, <1>2, <1>3, <1>4, <1>5, <1>6, <1>7, <1>8, <1>9, <1>10, <1>11, <1>12, <1>13, <1>14,
      <1>15, <1>16, <1>17, <1>18, <1>19, <1>20, <1>21 DEF Checking, Reloading

-----------------------------------------------------------------------------
(***************************************************************************)
(* Launches and ends of children.                                          *)
(***************************************************************************)

\* The counts fit their types, whatever is under way.
Fitting ==
  Counted => /\ s_children \in 0 .. Cardinality(Pids) + 1
             /\ \A i \in Ips : ip_count[i] \in 0 .. Cardinality(Pids) + 1

\* The counts fit into their range.
LEMMA CountsFit == Fitting
<1>1. Unreaped \in SUBSET Pids /\ \A i \in Ips : From(i) \in SUBSET Pids
  BY DEF Unreaped, From
<1> QED
  BY <1>1, FiniteSets DEF Fitting, Counted

\* So do the next ones.
LEMMA CountsFitNext == Fitting'
  BY CountsFit, PTL

\* Counting a connection keeps the invariant.
LEMMA CountKeeps ==
  ASSUME IInv, Booleans', Count
  PROVE  IInv'
<1> USE DEF Goto, signals, admin
<1>1. /\ pc = "accepted" /\ pc' = "fork" /\ conn \in Ips /\ conn' = conn /\ child' = child
      /\ kern' = kern /\ pid_ip' = pid_ip /\ s_children' = s_children + 1
      /\ ip_count' = [ip_count EXCEPT ![conn] = @ + 1]
  BY DEF Count, IInv, TypeOK
<1>2. Counted'
  <2>1. ~InProgress /\ InProgress' /\ \A p \in Pids : ~Launched(p) /\ ~Launched(p)'
    BY <1>1 DEF InProgress, Launched
  <2>2. s_children = Cardinality(Unreaped) /\ Cardinality(Unreaped) \in Nat
    BY <2>1, FiniteSets DEF IInv, Counted, Unreaped
  <2>3. \A i \in Ips : ip_count[i] = Cardinality(From(i)) /\ Cardinality(From(i)) \in Nat
    BY <2>1, FiniteSets DEF IInv, Counted, From
  <2>4. \A i \in Ips : ip_count'[i] = IF i = conn THEN ip_count[i] + 1 ELSE ip_count[i]
    BY <1>1 DEF IInv, TypeOK
  <2> QED
    BY <1>1, <2>1, <2>2, <2>3, <2>4, SameChildren DEF IInv, Counted
<1>3. TypeOK'
  <2>1. /\ s_children' \in 0 .. Cardinality(Pids) + 1
        /\ \A i \in Ips : ip_count'[i] \in 0 .. Cardinality(Pids) + 1
    BY <1>2, CountsFitNext DEF Fitting
  <2> QED
    BY <1>1, <2>1 DEF IInv, TypeOK, Count, Running
<1>4. NoBug' /\ ChildrenKnown' /\ Handler' /\ Told'
  BY <1>1 DEF IInv, NoBug, ChildrenKnown, Handler, Told, Count
<1> QED
  BY <1>1, <1>2, <1>3, <1>4, SameChildren DEF IInv

\* The entry of the new child is not there yet: its process number was free.
LEMMA RecordKeeps ==
  ASSUME IInv, Booleans', Record
  PROVE  IInv'
<1> USE DEF signals, admin
<1>1. pc = "record" /\ child \in Pids /\ conn \in Ips /\ kern[child].ip = conn
  BY DEF Record, IInv, ChildrenKnown
<1>2. pid_ip[child] = None
  BY <1>1 DEF IInv, Counted, Launched
<1>3. /\ pc' = "accept" /\ pid_ip' = [pid_ip EXCEPT ![child] = conn] /\ kern' = kern
      /\ s_children' = s_children /\ ip_count' = ip_count
  BY <1>2 DEF Record
<1>4. Counted'
  <2>1. ~InProgress /\ ~InProgress' /\ \A p \in Pids : ~Launched(p)' /\ (Launched(p) <=> p = child)
    BY <1>1, <1>3 DEF InProgress, Launched
  <2>2. \A p \in Pids : pid_ip'[p] = kern[p].ip
    BY <1>1, <1>3, <2>1 DEF IInv, TypeOK, Counted
  <2> QED
    BY <1>3, <2>1, <2>2, SameChildren DEF IInv, Counted
<1>5. TypeOK'
  BY <1>1, <1>3 DEF IInv, TypeOK, Running, Record
<1>6. NoBug' /\ ChildrenKnown' /\ Handler' /\ Told'
  BY <1>1, <1>3 DEF IInv, NoBug, ChildrenKnown, Handler, Told, Record
<1> QED
  BY <1>3, <1>4, <1>5, <1>6, SameChildren DEF IInv

\* The counts that are taken back are there.
LEMMA UndoKeeps ==
  ASSUME IInv, Booleans', Undo
  PROVE  IInv'
<1> USE DEF signals, admin
<1>1. pc = "undo" /\ conn \in Ips /\ conn # None
  BY SetsAssumption DEF Undo, IInv, ChildrenKnown
<1>2. InProgress /\ \A p \in Pids : ~Launched(p)
  BY <1>1 DEF InProgress, Launched
<1>3. Cardinality(Unreaped) \in Nat /\ \A i \in Ips : Cardinality(From(i)) \in Nat
  BY FiniteSets DEF Unreaped, From
<1>4. /\ s_children = Cardinality(Unreaped) + 1
      /\ \A i \in Ips : ip_count[i] = Cardinality(From(i)) + (IF conn = i THEN 1 ELSE 0)
  BY <1>2 DEF IInv, Counted
<1>5. /\ pc' = "accept" /\ ip_count' = [ip_count EXCEPT ![conn] = @ - 1] /\ conn' = None /\ child' = child
      /\ s_children' = s_children - 1 /\ kern' = kern /\ pid_ip' = pid_ip
  BY <1>1, <1>3, <1>4 DEF Undo, DropIpCount
<1>6. Counted'
  <2>1. ~InProgress' /\ \A p \in Pids : ~Launched(p)'
    BY <1>5 DEF InProgress, Launched
  <2>2. \A i \in Ips : ip_count'[i] = Cardinality(From(i))
    BY <1>1, <1>3, <1>4, <1>5 DEF IInv, TypeOK
  <2> QED
    BY <1>2, <1>3, <1>4, <1>5, <2>1, <2>2, SameChildren DEF IInv, Counted
<1>7. TypeOK'
  <2>1. /\ s_children' \in 0 .. Cardinality(Pids) + 1
        /\ \A i \in Ips : ip_count'[i] \in 0 .. Cardinality(Pids) + 1
    BY <1>6, CountsFitNext DEF Fitting
  <2> QED
    BY <1>1, <1>5, <2>1 DEF IInv, TypeOK, Running, Undo
<1>8. NoBug' /\ ChildrenKnown' /\ Handler' /\ Told'
  BY <1>1, <1>5 DEF IInv, NoBug, ChildrenKnown, Handler, Told, Undo
<1> QED
  BY <1>5, <1>6, <1>7, <1>8, SameChildren DEF IInv

\* Sessions that end or are checked leave the others as they were.
LEMMA FewerAllowed ==
  ASSUME Allowed, Serving' \subseteq Serving, \A i \in Ips : Serving' \cap From(i)' \subseteq From(i),
         \A q \in Serving', n \in Nat :
           (AllowsAll(q, n) => AllowsAll(q, n)') /\ (AllowsHere(q, n) => AllowsHere(q, n)')
  PROVE  Allowed'
<1>1. ASSUME NEW S \in SUBSET Serving', S # {}
      PROVE  \E q \in S : AllowsAll(q, Cardinality(S))'
  <2>1. S \in SUBSET Serving /\ Cardinality(S) \in Nat
    BY <1>1, FiniteSets DEF Serving
  <2>2. PICK q \in S : AllowsAll(q, Cardinality(S))
    BY <1>1, <2>1 DEF Allowed
  <2> QED
    BY <1>1, <2>1, <2>2
<1>2. ASSUME NEW i \in Ips, NEW S \in SUBSET (Serving' \cap From(i)'), S # {}
      PROVE  \E q \in S : AllowsHere(q, Cardinality(S))'
  <2>1. S \in SUBSET (Serving \cap From(i)) /\ Cardinality(S) \in Nat
    BY <1>2, FiniteSets DEF Serving
  <2>2. PICK q \in S : AllowsHere(q, Cardinality(S))
    BY <1>2, <2>1 DEF Allowed
  <2> QED
    BY <1>2, <2>1, <2>2
<1> QED
  BY <1>1, <1>2 DEF Allowed

\* A new child knows of everybody who is there.
LEMMA ForkKeeps ==
  ASSUME IInv, Booleans', NEW p \in Pids, ForkSucceeds(p)
  PROVE  IInv'
<1> USE DEF Goto, signals, admin
<1> DEFINE new == [st |-> "new", ip |-> conn, clients |-> s_children,
                   per_ip |-> ip_count[conn], limits |-> tunables]
<1>1. /\ pc = "fork" /\ pc' = "record" /\ conn \in Ips /\ conn # None /\ conn' = conn /\ child' = p
      /\ kern[p].st = "free" /\ kern[p].ip = None
      /\ s_children' = s_children /\ ip_count' = ip_count /\ pid_ip' = pid_ip
  BY SetsAssumption DEF ForkSucceeds, IInv, ChildrenKnown
<1>2. new \in Child /\ new.st = "new" /\ new.ip = conn /\ new.clients = s_children /\ new.per_ip = ip_count[conn]
  BY <1>1 DEF IInv, TypeOK, Child
<1>3. \A q \in Pids : kern'[q] = IF q = p THEN new ELSE kern[q]
  BY DEF ForkSucceeds, IInv, TypeOK
<1> HIDE DEF new
<1> PICK a \in Ips : a = conn
  BY <1>1
<1>4. /\ Unreaped' = Unreaped \cup {p} /\ p \notin Unreaped /\ Unreaped \in SUBSET Pids
      /\ From(a)' = From(a) \cup {p} /\ p \notin From(a) /\ From(a) \in SUBSET Pids
      /\ \A i \in Ips : i # a => From(i)' = From(i)
      /\ Serving' = Serving \cup {p} /\ Serving' \subseteq Unreaped'
  <2>1. Unreaped' = Unreaped \cup {p} /\ p \notin Unreaped /\ Unreaped \in SUBSET Pids
    BY <1>1, <1>2, <1>3 DEF Unreaped
  <2>2. From(a)' = From(a) \cup {p} /\ p \notin From(a) /\ From(a) \in SUBSET Pids
    BY <1>1, <1>2, <1>3 DEF From
  <2>3. \A i \in Ips : i # a => From(i)' = From(i)
    BY <1>1, <1>2, <1>3, SetsAssumption DEF From
  <2>4. Serving' = Serving \cup {p} /\ Serving' \subseteq Unreaped'
    BY <1>1, <1>2, <1>3 DEF Unreaped, Serving
  <2> QED
    BY <2>1, <2>2, <2>3, <2>4
<1>5. /\ s_children = Cardinality(Unreaped')
      /\ ip_count[a] = Cardinality(From(a)')
      /\ \A i \in Ips : i # a => ip_count[i] = Cardinality(From(i)')
  <2>1. InProgress
    BY <1>1 DEF InProgress
  <2>2. \A i \in Ips : Cardinality(From(i)) \in Nat
    BY FiniteSets DEF From
  <2> QED
    BY <1>1, <1>4, <2>1, <2>2, OneMore DEF IInv, Counted
<1>6. Counted'
  <2>1. ~InProgress' /\ \A q \in Pids : ~Launched(q) /\ (Launched(q)' <=> q = p)
    BY <1>1 DEF InProgress, Launched
  <2>2. \A q \in Pids : pid_ip'[q] = IF q = p THEN None ELSE kern'[q].ip
    BY <1>1, <1>3, <2>1 DEF IInv, Counted
  <2>3. Cardinality(Unreaped') \in Nat /\ \A i \in Ips : Cardinality(From(i)') \in Nat
    BY FiniteSets DEF Unreaped, From
  <2> QED
    BY <1>1, <1>5, <2>1, <2>2, <2>3 DEF Counted
<1>7. TypeOK'
  BY <1>1, <1>2, <1>3 DEF IInv, TypeOK, Running, ForkSucceeds, new
<1>8. NoBug' /\ ChildrenKnown' /\ Handler' /\ Told'
  BY <1>1, <1>2, <1>3 DEF IInv, NoBug, ChildrenKnown, Handler, Told, ForkSucceeds
<1>9. Allowed'
  <2>1. ASSUME NEW S \in SUBSET Serving', S # {}
        PROVE  \E q \in S : AllowsAll(q, Cardinality(S))'
    <3>1. CASE p \in S
      <4>1. Unreaped' \in SUBSET Pids
        BY DEF Unreaped
      <4>2. Cardinality(S) <= Cardinality(Unreaped')
        BY <1>4, <2>1, <4>1, FiniteSets
      <4>3. AllowsAll(p, Cardinality(S))'
        BY <1>2, <1>3, <1>5, <4>2 DEF AllowsAll
      <4> QED
        BY <3>1, <4>3
    <3>2. CASE p \notin S
      <4>1. PICK q \in S : AllowsAll(q, Cardinality(S))
        BY <1>4, <2>1, <3>2 DEF IInv, Allowed
      <4>2. q \in Pids /\ q # p
        BY <1>4, <2>1, <3>2 DEF Serving
      <4> QED
        BY <1>3, <4>1, <4>2 DEF AllowsAll
    <3> QED
      BY <3>1, <3>2
  <2>2. ASSUME NEW i \in Ips, NEW S \in SUBSET (Serving' \cap From(i)'), S # {}
        PROVE  \E q \in S : AllowsHere(q, Cardinality(S))'
    <3>1. CASE p \in S
      <4>1. i = a /\ From(a)' \in SUBSET Pids
        BY <1>2, <1>3, <2>2, <3>1 DEF From
      <4>2. Cardinality(S) <= Cardinality(From(a)')
        BY <2>2, <4>1, FiniteSets
      <4>3. AllowsHere(p, Cardinality(S))'
        BY <1>2, <1>3, <1>5, <4>2 DEF AllowsHere
      <4> QED
        BY <3>1, <4>3
    <3>2. CASE p \notin S
      <4>1. PICK q \in S : AllowsHere(q, Cardinality(S))
        BY <1>4, <2>2, <3>2 DEF IInv, Allowed
      <4>2. q \in Pids /\ q # p
        BY <1>4, <2>2, <3>2 DEF Serving
      <4> QED
        BY <1>3, <4>1, <4>2 DEF AllowsHere
    <3> QED
      BY <3>1, <3>2
  <2> QED
    BY <2>1, <2>2 DEF Allowed
<1> QED
  BY <1>6, <1>7, <1>8, <1>9 DEF IInv

\* A child that is reaped is in s_p_pid_ip_hash and has been counted.
LEMMA ReapKeeps ==
  ASSUME IInv, Booleans', NEW p \in Pids, ReapOne(p)
  PROVE  IInv'
<1> USE DEF signals, admin
<1>1. pc = "reap" /\ kern[p].st = "zombie" /\ kern[p].ip \in Ips
  BY SetsAssumption DEF ReapOne, IInv, TypeOK, Child, ChildrenKnown
<1> PICK ip \in Ips : ip = kern[p].ip /\ ip # None
  BY <1>1, SetsAssumption
<1>2. ~InProgress /\ \A q \in Pids : ~Launched(q)
  BY <1>1 DEF InProgress, Launched
<1>3. /\ pid_ip[p] = ip /\ s_children = Cardinality(Unreaped) /\ \A i \in Ips : ip_count[i] = Cardinality(From(i))
  <2>1. Cardinality(Unreaped) \in Nat /\ \A i \in Ips : Cardinality(From(i)) \in Nat
    BY FiniteSets DEF Unreaped, From
  <2> QED
    BY <1>1, <1>2, <2>1 DEF IInv, Counted
<1>4. Unborn \in Child /\ Unborn.st = "free" /\ Unborn.ip = None
  BY Records, LimitsAssumption DEF Unborn
<1>5. \A q \in Pids : kern'[q] = IF q = p THEN Unborn ELSE kern[q]
  BY DEF ReapOne, IInv, TypeOK
<1>6. /\ Unreaped' = Unreaped \ {p} /\ p \in Unreaped /\ Unreaped \in SUBSET Pids
      /\ From(ip)' = From(ip) \ {p} /\ p \in From(ip) /\ From(ip) \in SUBSET Pids
      /\ \A i \in Ips : i # ip => From(i)' = From(i)
      /\ Serving' = Serving
  <2>1. Unreaped' = Unreaped \ {p} /\ p \in Unreaped /\ Unreaped \in SUBSET Pids
    BY <1>1, <1>4, <1>5 DEF Unreaped
  <2>2. From(ip)' = From(ip) \ {p} /\ p \in From(ip) /\ From(ip) \in SUBSET Pids
    BY <1>1, <1>4, <1>5 DEF From
  <2>3. \A i \in Ips : i # ip => From(i)' = From(i)
    BY <1>1, <1>4, <1>5, SetsAssumption DEF From
  <2>4. Serving' = Serving
    BY <1>1, <1>4, <1>5 DEF Serving
  <2> QED
    BY <2>1, <2>2, <2>3, <2>4
<1>7. ip_count[ip] > 0
  <2>1. From(ip) # {}
    BY <1>6
  <2> QED
    BY <1>1, <1>3, <1>6, <2>1, FiniteSets
<1>8. /\ pc' = "reap" /\ s_children' = s_children - 1 /\ ip_count' = [ip_count EXCEPT ![ip] = @ - 1]
      /\ pid_ip' = [pid_ip EXCEPT ![p] = None] /\ conn' = conn /\ child' = child
  BY <1>1, <1>3, <1>7 DEF ReapOne, DropIpCount
<1>9. Counted'
  <2>1. ~InProgress' /\ \A q \in Pids : ~Launched(q)'
    BY <1>8 DEF InProgress, Launched
  <2>2. /\ Cardinality(Unreaped') = Cardinality(Unreaped) - 1
        /\ Cardinality(From(ip)') = Cardinality(From(ip)) - 1
    BY <1>6, OneLess
  <2>3. \A i \in Ips : ip_count'[i] = Cardinality(From(i)')
    BY <1>1, <1>3, <1>6, <1>8, <2>2 DEF IInv, TypeOK
  <2>4. \A q \in Pids : pid_ip'[q] = kern'[q].ip
    BY <1>2, <1>4, <1>5, <1>8 DEF IInv, TypeOK, Counted
  <2>5. Cardinality(Unreaped') \in Nat /\ \A i \in Ips : Cardinality(From(i)') \in Nat
    BY FiniteSets DEF Unreaped, From
  <2> QED
    BY <1>3, <1>8, <2>1, <2>2, <2>3, <2>4, <2>5 DEF Counted
<1>10. TypeOK'
  <2>1. /\ s_children' \in 0 .. Cardinality(Pids) + 1
        /\ \A i \in Ips : ip_count'[i] \in 0 .. Cardinality(Pids) + 1
    BY <1>9, CountsFitNext DEF Fitting
  <2>2. kern' \in [Pids -> Child]
    BY <1>4, <1>5 DEF ReapOne, IInv, TypeOK
  <2> QED
    BY <1>1, <1>8, <2>1, <2>2 DEF IInv, TypeOK, Running, ReapOne
<1>11. NoBug' /\ ChildrenKnown' /\ Handler' /\ Told'
  BY <1>1, <1>4, <1>5, <1>8 DEF IInv, NoBug, ChildrenKnown, Handler, Told, ReapOne
<1>12. Allowed'
  <2>1. \A q \in Serving' : kern'[q] = kern[q]
    BY <1>1, <1>5, <1>6 DEF Serving
  <2>2. \A i \in Ips : Serving' \cap From(i)' \subseteq From(i)
    BY <1>6
  <2> QED
    BY <1>6, <2>1, <2>2, FewerAllowed DEF IInv, AllowsAll, AllowsHere
<1> QED
  BY <1>9, <1>10, <1>11, <1>12 DEF IInv

\* A child is checked or ends: it stays where it is counted.
LEMMA ChildKeeps ==
  ASSUME IInv, Booleans', NEW p \in Pids, CheckLimits(p) \/ ChildExits(p)
  PROVE  IInv'
<1> USE DEF listener, signals, admin
<1> DEFINE c == kern[p]
<1>1. c.st \in {"new", "admitted", "refused"} /\ c.ip \in Ips /\ c.limits \in Limits
  BY DEF CheckLimits, ChildExits, Live, IInv, TypeOK, Child, ChildrenKnown
<1>2. PICK d \in Child : /\ kern' = [kern EXCEPT ![p] = d] /\ d.ip = c.ip /\ d.st \in {"admitted", "refused", "zombie"}
                         /\ d.st = "admitted" => /\ d.limits = c.limits /\ c.st = "new"
                                                 /\ Within(c.clients, c.limits.clients)
                                                 /\ Within(c.per_ip, c.limits.per_ip)
  <2>1. CASE CheckLimits(p)
    <3> DEFINE over(n, max) == max > 0 /\ n > max
               Over == over(c.clients, c.limits.clients) \/ over(c.per_ip, c.limits.per_ip)
    <3>1. c \in Child /\ c.limits.clients \in Nat /\ c.limits.per_ip \in Nat
      BY <1>1, LimitsAssumption DEF IInv, TypeOK
    <3>2. c.clients \in Nat /\ c.per_ip \in Nat
      BY <3>1, FiniteSets DEF Child
    <3>3. CASE Over
      <4>1. kern' = [kern EXCEPT ![p] = Process("refused", c.ip, Defaults)]
        BY <2>1, <3>3 DEF CheckLimits
      <4>2. LET d == Process("refused", c.ip, Defaults)
            IN  d \in Child /\ d.ip = c.ip /\ d.st = "refused"
        BY <1>1, Records, LimitsAssumption
      <4> QED
        BY <4>1, <4>2
    <3>4. CASE ~Over
      <4>1. kern' = [kern EXCEPT ![p] = Process("admitted", c.ip, c.limits)] /\ c.st = "new"
        BY <2>1, <3>4 DEF CheckLimits
      <4>2. Within(c.clients, c.limits.clients) /\ Within(c.per_ip, c.limits.per_ip)
        BY <3>1, <3>2, <3>4 DEF Within
      <4>3. LET d == Process("admitted", c.ip, c.limits)
            IN  d \in Child /\ d.ip = c.ip /\ d.st = "admitted" /\ d.limits = c.limits
        BY <1>1, Records
      <4> QED
        BY <4>1, <4>2, <4>3
    <3> QED
      BY <3>3, <3>4
  <2>2. CASE ChildExits(p)
    <3>1. kern' = [kern EXCEPT ![p] = Process("zombie", c.ip, Defaults)]
      BY <2>2 DEF ChildExits
    <3>2. LET d == Process("zombie", c.ip, Defaults)
          IN  d \in Child /\ d.ip = c.ip /\ d.st = "zombie"
      BY <1>1, Records, LimitsAssumption
    <3> QED
      BY <3>1, <3>2
  <2> QED
    BY <2>1, <2>2
<1>3. \A q \in Pids : kern'[q] = IF q = p THEN d ELSE kern[q]
  BY <1>2 DEF IInv, TypeOK
<1>4. UNCHANGED listener /\ UNCHANGED <<pending, alarmed, admin>> /\ posted' \in {posted, posted \cup {"CHLD"}}
  BY DEF CheckLimits, ChildExits
<1>5. /\ Unreaped' = Unreaped /\ Serving' \subseteq Serving
      /\ \A i \in Ips : From(i)' = From(i)
  BY <1>1, <1>2, <1>3 DEF Unreaped, From, Serving
<1>6. Counted'
  BY <1>2, <1>3, <1>4, <1>5 DEF IInv, Counted, InProgress, Launched
<1>7. TypeOK'
  BY <1>2, <1>3, <1>4 DEF IInv, TypeOK, Signals
<1>8. NoBug' /\ ChildrenKnown' /\ Handler' /\ Told'
  BY <1>1, <1>2, <1>3, <1>4, SetsAssumption DEF IInv, NoBug, ChildrenKnown, Handler, Told
<1>9. Allowed'
  <2>1. ASSUME NEW q \in Serving', NEW n \in Nat
        PROVE  (AllowsAll(q, n) => AllowsAll(q, n)') /\ (AllowsHere(q, n) => AllowsHere(q, n)')
    <3>1. CASE q = p
      <4>1. d.st = "admitted"
        BY <1>2, <1>3, <2>1, <3>1 DEF Serving
      <4>2. c \in Child /\ c.limits.clients \in Nat /\ c.limits.per_ip \in Nat
        BY <1>1, LimitsAssumption DEF IInv, TypeOK
      <4>3. c.clients \in Nat /\ c.per_ip \in Nat
        BY <4>2, FiniteSets DEF Child
      <4> QED
        BY <1>2, <1>3, <3>1, <4>1, <4>2, <4>3 DEF AllowsAll, AllowsHere, Within
    <3>2. CASE q # p
      BY <1>3, <2>1, <3>2 DEF AllowsAll, AllowsHere, Serving
    <3> QED
      BY <3>1, <3>2
  <2> QED
    BY <1>5, <2>1, FewerAllowed DEF IInv
<1> QED
  BY <1>6, <1>7, <1>8, <1>9 DEF IInv

-----------------------------------------------------------------------------
(***************************************************************************)
(* The theorems.                                                           *)
(***************************************************************************)
LEMMA InitHolds == Init => IInv
<1> SUFFICES ASSUME Init
             PROVE  IInv
  OBVIOUS
<1>1. Cardinality(Pids) \in Nat
  BY FiniteSets
<1>2. Unborn \in Child /\ Unborn.st = "free" /\ Unborn.ip = None
  BY Records, LimitsAssumption DEF Unborn
<1>3. Booleans
  BY DEF Init, Booleans
<1>4. TypeOK /\ NoBug
  BY <1>1, <1>2, <1>3, LimitsAssumption, KindsAssumption, MaxEditsAssumption
     DEF Init, TypeOK, NoBug, Running, File, Unread
<1>5. ChildrenKnown /\ Handler /\ Told
  BY <1>2 DEF Init, ChildrenKnown, Handler, Told
<1>6. Unreaped = {} /\ Serving = {} /\ \A i \in Ips : From(i) = {}
  BY <1>2, SetsAssumption DEF Init, Unreaped, Serving, From
<1>7. Counted
  <2>1. pc = "accept" /\ s_children = 0 /\ ip_count = [i \in Ips |-> 0]
    BY DEF Init
  <2>2. ~ InProgress /\ \A p \in Pids : ~ Launched(p)
    BY <2>1 DEF InProgress, Launched
  <2>3. Cardinality({}) = 0
    BY FS_EmptySet
  <2>4. \A p \in Pids : pid_ip[p] = None /\ kern[p].ip = None
    BY <1>2 DEF Init
  <2>5. s_children = Cardinality(Unreaped) + (IF InProgress THEN 1 ELSE 0)
    BY <1>6, <2>1, <2>2, <2>3
  <2>6. ASSUME NEW i \in Ips
        PROVE  ip_count[i] = Cardinality(From(i)) + (IF InProgress /\ conn = i THEN 1 ELSE 0)
    BY <1>6, <2>1, <2>2, <2>3
  <2> QED
    BY <2>2, <2>4, <2>5, <2>6 DEF Counted
<1>8. Allowed
  BY <1>6 DEF Allowed
<1> QED
  BY <1>4, <1>5, <1>7, <1>8 DEF IInv

\* Every step of the listener, its children and the kernel keeps the invariant.
LEMMA StepKeeps ==
  ASSUME IInv, [Next]_vars
  PROVE  IInv'
<1>1. Booleans'
  BY BooleansKept DEF IInv, TypeOK
<1> QED
  BY <1>1, PlainKeeps, CountKeeps, RecordKeeps, UndoKeeps, ForkKeeps, ReapKeeps, ChildKeeps
     DEF Next, Accepting

\* The inductive invariant holds throughout.
LEMMA Invariance == Spec => []IInv
  BY InitHolds, StepKeeps, PTL DEF Spec

\* The variables keep their types; the counts never leave the range of the
\* process numbers, and never go below zero.
THEOREM TypeCorrect == Spec => []TypeOK
  BY Invariance, PTL DEF IInv

\* No bug() of the listener is reached, in whatever order children end and
\* are reaped.
THEOREM NoBugReached == Spec => []NoBug
  BY Invariance, PTL DEF IInv

\* s_children and the counts per address are exact.
THEOREM CountsAreExact == Spec => []CountsExact
<1>1. IInv => CountsExact
  BY DEF IInv, Counted, CountsExact
<1> QED
  BY <1>1, Invariance, PTL

\* max_clients and max_per_ip hold, although every child checks them for
\* itself with the counts of its launch.
THEOREM LimitsHold == Spec => []LimitsRespected
<1>1. IInv => LimitsRespected
  <2> SUFFICES ASSUME IInv
               PROVE  LimitsRespected
    OBVIOUS
  <2>1. Admitted \in SUBSET Serving /\ \A q \in Admitted : kern[q].st = "admitted"
    BY DEF Admitted, Serving
  <2>2. ASSUME Admitted # {}
        PROVE  \E q \in Admitted : Within(Cardinality(Admitted), kern[q].limits.clients)
    BY <2>1, <2>2 DEF IInv, Allowed, AllowsAll
  <2>3. ASSUME NEW i \in Ips, Admitted \cap From(i) # {}
        PROVE  \E q \in Admitted \cap From(i) :
                 Within(Cardinality(Admitted \cap From(i)), kern[q].limits.per_ip)
    <3>1. Admitted \cap From(i) \in SUBSET (Serving \cap From(i))
      BY <2>1
    <3> QED
      BY <2>1, <2>3, <3>1 DEF IInv, Allowed, AllowsHere
  <2> QED
    BY <2>2, <2>3 DEF LimitsRespected
<1> QED
  BY <1>1, Invariance, PTL

\* A SIGHUP after an edit always has its effect.
THEOREM ReloadIsNotLost == Spec => []ReloadNotLost
<1>1. IInv => ReloadNotLost
  BY DEF IInv, Told, ReloadNotLost
<1> QED
  BY <1>1, Invariance, PTL

==============================================================================
