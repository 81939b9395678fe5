---------------------------- MODULE VsftpdListener ----------------------------
(***************************************************************************)
(* targets/vsftpd/3.0.5: the standalone listener (standalone.c, hash.c and *)
(* the synchronous signal framework of sysutil.c).                         *)
(*                                                                         *)
(* The listener accepts connections, counts them in all and per address,   *)
(* and forks a child for each; the child compares the two counts it was    *)
(* launched with to max_clients and max_per_ip (prelogin.c).  SIGCHLD and  *)
(* SIGHUP only set a flag and arm a one-second alarm; the flags are looked *)
(* at after accept() and after each read() of the configuration file, so   *)
(* that children are reaped, and the configuration is reloaded, at those   *)
(* points only.  The alarm is there for the signal that arrives between    *)
(* the look at the flags and the next blocking accept().                   *)
(*                                                                         *)
(* Addresses and process numbers are model values, the configuration file  *)
(* is its two limits (0: no limit) and what stat() says of it.             *)
(***************************************************************************)
EXTENDS Naturals, FiniteSets

CONSTANTS
  Ips,         \* client addresses
  Pids,        \* process numbers the kernel hands out; bounds the children
  Limits,      \* [clients, per_ip]: the limits a configuration may set
  Defaults,    \* the limits of tunables_load_defaults()
  FileKinds,   \* what may lie at the path of the configuration file
  MaxEdits,    \* bound: changes of the configuration file
  None         \* no connection, no process

ASSUME SetsAssumption == IsFiniteSet(Pids) /\ None \notin Ips \cup Pids
ASSUME LimitsAssumption ==
  Limits \subseteq [clients : Nat, per_ip : Nat] /\ Defaults \in Limits
ASSUME KindsAssumption ==
  "good" \in FileKinds /\ FileKinds \subseteq {"good", "foreign", "missing"}
ASSUME MaxEditsAssumption == MaxEdits \in Nat

VARIABLES
  pc,          \* the listener
  nested,      \* the SIGCHLD flag is looked at from inside handle_sighup()
  conn,        \* address of the accepted connection
  child,       \* new_child
  s_children,
  ip_count,    \* s_p_ip_count_hash; 0: no entry
  pid_ip,      \* s_p_pid_ip_hash; None: no entry
  pending,     \* s_sig_details[].pending
  alarmed,     \* alarm() is set
  tunables,    \* tunable_max_clients, tunable_max_per_ip
  content,     \* what str_fileread() returned
  kern,        \* the kernel's view of the children
  posted,      \* signals sent to the listener and not delivered yet
  file,        \* the configuration file
  signalled,   \* the listener has been sent SIGHUP since the last edit
  edits

listener == <<pc, nested, conn, child, s_children, ip_count, pid_ip, tunables, content>>
signals  == <<pending, alarmed, posted>>
admin    == <<file, signalled, edits>>
vars     == <<listener, signals, kern, admin>>

Signals == {"HUP", "CHLD"}
Running == {
  "accept", "blocked", "hup", "hup-quiet", "hup-clear", "hup-defaults",
  "hup-read", "hup-stat", "hup-parse", "chld", "chld-quiet", "chld-clear",
  "reap", "accepted", "fork", "record", "undo" }

\* A child's life; a process number is free until the child is reaped.  What
\* it was launched with is there until its check_limits().
Process(st, ip, limits) ==
  [st |-> st, ip |-> ip, clients |-> 0, per_ip |-> 0, limits |-> limits]
Unborn == Process("free", None, Defaults)
Child  == [st : {"free", "new", "admitted", "refused", "zombie"}, ip : Ips \cup {None},
           clients : 0 .. Cardinality(Pids) + 1, per_ip : 0 .. Cardinality(Pids) + 1,
           limits : Limits]
\* Only the settings of a good file ever come into force.
File   == {f \in [kind : FileKinds, limits : Limits] : f.kind # "good" => f.limits = Defaults}
Unread == [kind |-> "good", limits |-> Defaults]

Booleans == nested \in BOOLEAN /\ alarmed \in BOOLEAN /\ signalled \in BOOLEAN

TypeOK ==
  /\ Booleans
  /\ pc \in Running \cup {"bug", "dead"}
  /\ conn \in Ips \cup {None}
  /\ child \in Pids \cup {None}
  /\ s_children \in 0 .. Cardinality(Pids) + 1
  /\ ip_count \in [Ips -> 0 .. Cardinality(Pids) + 1]
  /\ pid_ip \in [Pids -> Ips \cup {None}]
  /\ pending \subseteq Signals /\ posted \subseteq Signals
  /\ tunables \in Limits
  /\ content \in File
  /\ kern \in [Pids -> Child]
  /\ file \in File
  /\ edits \in 0 .. MaxEdits

Init ==
  /\ pc = "accept" /\ nested = FALSE /\ conn = None /\ child = None
  /\ s_children = 0
  /\ ip_count = [i \in Ips |-> 0]
  /\ pid_ip = [p \in Pids |-> None]
  /\ pending = {} /\ alarmed = FALSE /\ posted = {}
  /\ tunables \in Limits
  /\ file = [kind |-> "good", limits |-> tunables]
  /\ content = Unread
  /\ kern = [p \in Pids |-> Unborn]
  /\ signalled = FALSE
  /\ edits = 0

Goto(from, to) == pc = from /\ pc' = to

\* The model ends with the listener.
Alive == pc \notin {"bug", "dead"}

Live(p)   == kern[p].st \in {"new", "admitted", "refused"}
Zombies   == {p \in Pids : kern[p].st = "zombie"}
Unreaped  == {p \in Pids : kern[p].st # "free"}
Admitted  == {p \in Pids : kern[p].st = "admitted"}
From(i)   == {p \in Pids : kern[p].ip = i}

-----------------------------------------------------------------------------
(***************************************************************************)
(* The accept loop of vsf_standalone_main().                               *)
(***************************************************************************)
\* accept() is entered; until then a signal does not cut it short.
EnterAccept ==
  /\ Goto("accept", "blocked")
  /\ UNCHANGED <<nested, conn, child, s_children, ip_count, pid_ip, tunables, content>>
  /\ UNCHANGED <<signals, kern, admin>>

\* It returns a connection, or an error (the client is gone again).
AcceptReturns ==
  /\ Goto("blocked", "hup")
  /\ conn' \in Ips \cup {None}
  /\ UNCHANGED <<nested, child, s_children, ip_count, pid_ip, tunables, content>>
  /\ UNCHANGED <<signals, kern, admin>>

\* vsf_sysutil_accept_timeout() returns, after the look at the signals.
NoConnection ==
  /\ conn = None
  /\ Goto("accepted", "accept")
  /\ UNCHANGED <<nested, conn, child, s_children, ip_count, pid_ip, tunables, content>>
  /\ UNCHANGED <<signals, kern, admin>>

\* ++s_children and handle_ip_count().
Count ==
  /\ conn # None
  /\ Goto("accepted", "fork")
  /\ s_children' = s_children + 1
  /\ ip_count' = [ip_count EXCEPT ![conn] = @ + 1]
  /\ UNCHANGED <<nested, conn, child, pid_ip, tunables, content>>
  /\ UNCHANGED <<signals, kern, admin>>

\* The child starts with the counts and the tunables of this moment.
ForkSucceeds(p) ==
  /\ kern[p].st = "free"
  /\ Goto("fork", "record")
  /\ child' = p
  /\ kern' = [kern EXCEPT ![p] = [st |-> "new", ip |-> conn, clients |-> s_children,
                                  per_ip |-> ip_count[conn], limits |-> tunables]]
  /\ UNCHANGED <<nested, conn, s_children, ip_count, pid_ip, tunables, content>>
  /\ UNCHANGED <<signals, admin>>

ForkFails ==
  /\ Goto("fork", "undo")
  /\ UNCHANGED <<nested, conn, child, s_children, ip_count, pid_ip, tunables, content>>
  /\ UNCHANGED <<signals, kern, admin>>

\* The parent closes the connection (the close of a socket that does not
\* linger is not interrupted) and enters the child into s_p_pid_ip_hash;
\* hash_add_entry() calls bug() on a key that is there already.
Record ==
  /\ pc = "record"
  /\ IF pid_ip[child] = None
     THEN pc' = "accept" /\ pid_ip' = [pid_ip EXCEPT ![child] = conn]
     ELSE pc' = "bug" /\ UNCHANGED pid_ip
  /\ conn' = None /\ child' = None
  /\ UNCHANGED <<nested, s_children, ip_count, tunables, content>>
  /\ UNCHANGED <<signals, kern, admin>>

\* drop_ip_count(), which calls bug() on an address without a count, then
\* goes on at `next`.  (`ip` is None when the lookup of its caller failed.)
DropIpCount(ip, next) ==
  IF ip # None /\ ip_count[ip] > 0
  THEN /\ ip_count' = [ip_count EXCEPT ![ip] = @ - 1]
       /\ pc' = next
  ELSE /\ UNCHANGED ip_count
       /\ pc' = "bug"

\* fork() failed: the counts are taken back.
UndoHalf ==  \* mutant: the per-address count is forgotten
  /\ Goto("undo", "accept")
  /\ s_children' = s_children - 1
  /\ conn' = None
  /\ UNCHANGED <<nested, child, ip_count, pid_ip, tunables, content>>
  /\ UNCHANGED <<signals, kern, admin>>

Undo ==
  /\ pc = "undo"
  /\ s_children' = s_children - 1
  /\ DropIpCount(conn, "accept")
  /\ conn' = None
  /\ UNCHANGED <<nested, child, pid_ip, tunables, content>>
  /\ UNCHANGED <<signals, kern, admin>>

-----------------------------------------------------------------------------
(***************************************************************************)
(* The signal framework: vsf_sysutil_common_sighandler() and the alarm on  *)
(* one side, vsf_sysutil_check_pending_actions() on the other.             *)
(***************************************************************************)
\* A signal cuts a blocking accept() short (EINTR) and nothing else.
InterruptAccept == pc' = IF pc = "blocked" THEN "hup" ELSE pc

DeliverUnarmed(s) ==  \* mutant: the handlers are installed without use_alarm
  /\ Alive /\ s \in posted
  /\ posted' = posted \ {s}
  /\ pending' = pending \cup {s}
  /\ UNCHANGED alarmed
  /\ InterruptAccept
  /\ UNCHANGED <<nested, conn, child, s_children, ip_count, pid_ip, tunables, content>>
  /\ UNCHANGED <<kern, admin>>

Deliver(s) ==
  /\ Alive /\ s \in posted
  /\ posted' = posted \ {s}
  /\ pending' = pending \cup {s}
  /\ alarmed' = TRUE
  /\ InterruptAccept
  /\ UNCHANGED <<nested, conn, child, s_children, ip_count, pid_ip, tunables, content>>
  /\ UNCHANGED <<kern, admin>>

\* vsf_sysutil_alrm_sighandler() sets the alarm again, so that only its
\* effect on a blocked listener is to be seen.
AlarmFires ==
  /\ alarmed
  /\ Goto("blocked", "hup")
  /\ UNCHANGED <<nested, conn, child, s_children, ip_count, pid_ip, tunables, content>>
  /\ UNCHANGED <<signals, kern, admin>>

\* One signal's turn in the loop over s_sig_details: the flag is tested,
\* alarm(0), the flag is cleared, the handler runs.
Test(s, here, quiet, next) ==
  /\ pc = here
  /\ pc' = IF s \in pending THEN quiet ELSE next
  /\ UNCHANGED <<nested, conn, child, s_children, ip_count, pid_ip, tunables, content>>
  /\ UNCHANGED <<signals, kern, admin>>

Quiet(here, next) ==
  /\ Goto(here, next)
  /\ alarmed' = FALSE
  /\ UNCHANGED <<nested, conn, child, s_children, ip_count, pid_ip, tunables, content>>
  /\ UNCHANGED <<pending, posted, kern, admin>>

Clear(s, here, next) ==
  /\ Goto(here, next)
  /\ pending' = pending \ {s}
  /\ UNCHANGED <<nested, conn, child, s_children, ip_count, pid_ip, tunables, content>>
  /\ UNCHANGED <<alarmed, posted, kern, admin>>

\* SIGHUP (1) has its turn before SIGCHLD (17).
TestHup  == Test("HUP", "hup", "hup-quiet", "chld")
QuietHup == Quiet("hup-quiet", "hup-clear")
ClearHup == Clear("HUP", "hup-clear", "hup-defaults")

TestChld  == Test("CHLD", "chld", "chld-quiet", IF nested THEN "hup-stat" ELSE "accepted")
QuietChld == Quiet("chld-quiet", "chld-clear")
ClearChld == Clear("CHLD", "chld-clear", "reap")

-----------------------------------------------------------------------------
(***************************************************************************)
(* handle_sigchld(): reap children until waitpid(WNOHANG) finds none.      *)
(***************************************************************************)
ReapKeepsEntry(p) ==  \* mutant: the entry of the process stays
  /\ pc = "reap"
  /\ kern[p].st = "zombie"
  /\ kern' = [kern EXCEPT ![p] = Unborn]
  /\ s_children' = s_children - 1
  /\ DropIpCount(pid_ip[p], "reap")
  /\ UNCHANGED <<nested, conn, child, pid_ip, tunables, content>>
  /\ UNCHANGED <<signals, admin>>

ReapOne(p) ==
  /\ pc = "reap"
  /\ kern[p].st = "zombie"
  /\ kern' = [kern EXCEPT ![p] = Unborn]
  /\ s_children' = s_children - 1
  /\ DropIpCount(pid_ip[p], "reap")
  /\ pid_ip' = [pid_ip EXCEPT ![p] = None]
  /\ UNCHANGED <<nested, conn, child, tunables, content>>
  /\ UNCHANGED <<signals, admin>>

ReapDone ==
  /\ Zombies = {}
  /\ Goto("reap", IF nested THEN "hup-stat" ELSE "accepted")
  /\ UNCHANGED <<nested, conn, child, s_children, ip_count, pid_ip, tunables, content>>
  /\ UNCHANGED <<signals, kern, admin>>

-----------------------------------------------------------------------------
(***************************************************************************)
(* handle_sighup(): tunables_load_defaults(), then                         *)
(* vsf_parseconf_load_file(0, 0).                                          *)
(***************************************************************************)
LoadDefaults ==
  /\ Goto("hup-defaults", "hup-read")
  /\ tunables' = Defaults
  /\ UNCHANGED <<nested, conn, child, s_children, ip_count, pid_ip, content>>
  /\ UNCHANGED <<signals, kern, admin>>

\* str_fileread() cannot open the file: the defaults stay.
ReadFails ==
  /\ file.kind = "missing"
  /\ Goto("hup-read", "chld")
  /\ UNCHANGED <<nested, conn, child, s_children, ip_count, pid_ip, tunables, content>>
  /\ UNCHANGED <<signals, kern, admin>>

\* The file is read; the flags are looked at after the read(), with the
\* SIGHUP handler marked as running.
ReadFile ==
  /\ file.kind # "missing"
  /\ Goto("hup-read", "chld")
  /\ content' = file
  /\ nested' = TRUE
  /\ UNCHANGED <<conn, child, s_children, ip_count, pid_ip, tunables>>
  /\ UNCHANGED <<signals, kern, admin>>

\* stat(): die() unless it is a regular file of the right owner.
StatFile ==
  /\ pc = "hup-stat"
  /\ pc' = IF file.kind = "good" THEN "hup-parse" ELSE "dead"
  /\ nested' = FALSE
  /\ UNCHANGED <<conn, child, s_children, ip_count, pid_ip, tunables, content>>
  /\ UNCHANGED <<signals, kern, admin>>

ParseClears ==  \* mutant: the flag is cleared when the handler has returned
  /\ Goto("hup-parse", "chld")
  /\ tunables' = content.limits
  /\ content' = Unread
  /\ pending' = pending \ {"HUP"}
  /\ UNCHANGED <<nested, conn, child, s_children, ip_count, pid_ip>>
  /\ UNCHANGED <<alarmed, posted, kern, admin>>

Parse ==
  /\ Goto("hup-parse", "chld")
  /\ tunables' = content.limits
  /\ content' = Unread
  /\ UNCHANGED <<nested, conn, child, s_children, ip_count, pid_ip>>
  /\ UNCHANGED <<signals, kern, admin>>

-----------------------------------------------------------------------------
(***************************************************************************)
(* Around the listener: its children and the administrator.                *)
(***************************************************************************)
\* check_limits() in the child; what it was told is not used after that.
CheckLimitsOff(p) ==  \* mutant: one session too many gets in
  LET c == kern[p]
      over(n, max) == max > 0 /\ n > max + 1
  IN /\ Alive /\ c.st = "new"
     /\ kern' = [kern EXCEPT ![p] =
                   IF over(c.clients, c.limits.clients) \/ over(c.per_ip, c.limits.per_ip)
                   THEN Process("refused", c.ip, Defaults)
                   ELSE Process("admitted", c.ip, c.limits)]
     /\ UNCHANGED <<listener, signals, admin>>

CheckLimits(p) ==
  LET c == kern[p]
      over(n, max) == max > 0 /\ n > max
  IN /\ Alive /\ c.st = "new"
     /\ kern' = [kern EXCEPT ![p] =
                   IF over(c.clients, c.limits.clients) \/ over(c.per_ip, c.limits.per_ip)
                   THEN Process("refused", c.ip, Defaults)
                   ELSE Process("admitted", c.ip, c.limits)]
     /\ UNCHANGED <<listener, signals, admin>>

\* A child ends, at any time and for any reason.
ChildExits(p) ==
  /\ Alive /\ Live(p)
  /\ kern' = [kern EXCEPT ![p] = Process("zombie", kern[p].ip, Defaults)]
  /\ posted' = posted \cup {"CHLD"}
  /\ UNCHANGED <<listener, pending, alarmed, admin>>

\* The file is changed, replaced or removed; SIGHUP is sent (again).
EditFile ==
  /\ Alive /\ edits < MaxEdits
  /\ edits' = edits + 1
  /\ file' \in File \ {file}
  /\ signalled' = FALSE
  /\ UNCHANGED <<listener, signals, kern>>

SendHup ==
  /\ Alive /\ ~signalled
  /\ signalled' = TRUE
  /\ posted' = posted \cup {"HUP"}
  /\ UNCHANGED <<listener, pending, alarmed, kern, file, edits>>

Accepting == AcceptReturns \/ NoConnection \/ Count \/ ForkFails \/ Record \/ Undo
Checking  == TestHup \/ QuietHup \/ ClearHup \/ TestChld \/ QuietChld \/ ClearChld \/ ReapDone
Reloading == LoadDefaults \/ ReadFails \/ ReadFile \/ StatFile \/ Parse

Next ==
  \/ EnterAccept \/ AlarmFires \/ Accepting \/ Checking \/ Reloading
  \/ \E p \in Pids : ForkSucceeds(p) \/ ReapOne(p) \/ CheckLimits(p) \/ ChildExits(p)
  \/ \E s \in Signals : Deliver(s)
  \/ EditFile \/ SendHup

\* The listener runs whenever it is not blocked in accept(), the kernel
\* delivers signals and alarms.  No client ever needs to connect, no child
\* to end, and no file to be edited.
ListenerStep ==
  \/ EnterAccept \/ NoConnection \/ Count \/ ForkFails \/ Record \/ Undo
  \/ Checking \/ Reloading
  \/ \E p \in Pids : ForkSucceeds(p) \/ ReapOne(p)

Fairness ==
  /\ WF_vars(ListenerStep)
  /\ WF_vars(AlarmFires)
  /\ \A s \in Signals : WF_vars(Deliver(s))

Spec == Init /\ [][Next]_vars /\ Fairness

-----------------------------------------------------------------------------
(***************************************************************************)
(* Properties.                                                             *)
(***************************************************************************)
InProgress == pc \in {"fork", "undo"}
Launched(p) == pc = "record" /\ child = p

\* Whenever children end, in whatever order they are reaped and whether the
\* reaping happens after accept() or inside a reload, none of the bug()
\* calls of the listener is reached: no child is reaped before it is in
\* s_p_pid_ip_hash, no count is dropped twice, no process number is entered
\* twice.
NoBug == pc # "bug"

\* s_children and the per-address counts are the children that have not
\* been reaped, and the connection that is being forked for.
CountsExact ==
  Alive =>
    /\ s_children = Cardinality(Unreaped) + (IF InProgress THEN 1 ELSE 0)
    /\ \A i \in Ips : ip_count[i] = Cardinality(From(i)) + (IF InProgress /\ conn = i THEN 1 ELSE 0)
    /\ \A p \in Pids : pid_ip[p] = IF Launched(p) THEN None ELSE kern[p].ip

\* The limits hold although they are checked by the children, later and
\* each for itself, and although a reload may change them: among the
\* sessions admitted and alive there is always one that was launched under
\* limits that allow for as many as there are, and the same for each
\* address.
Within(n, max) == max = 0 \/ n <= max
LimitsRespected ==
  /\ Admitted # {} => \E p \in Admitted :
       Within(Cardinality(Admitted), kern[p].limits.clients)
  /\ \A i \in Ips : Admitted \cap From(i) # {} =>
       \E p \in Admitted \cap From(i) :
         Within(Cardinality(Admitted \cap From(i)), kern[p].limits.per_ip)

\* A SIGHUP that follows an edit is never absorbed by the reload under way:
\* when none is on its way or being handled, the limits in force are those
\* of the file.
ReloadNotLost ==
  /\ signalled /\ file.kind = "good"
  /\ "HUP" \notin posted \cup pending
  /\ pc \notin {"hup-defaults", "hup-read", "hup-stat", "hup-parse", "dead", "bug"}
  /\ ~nested
  => tunables = file.limits

\* Every child that ends is reaped, and its slot freed, even when no other
\* client ever connects: the alarm gets the listener out of an accept() it
\* entered with the flag set.
ZombiesReaped == \A p \in Pids : kern[p].st = "zombie" ~> (kern[p].st = "free" \/ pc = "dead")
===============================================================================
