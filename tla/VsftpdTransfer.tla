---------------------------- MODULE VsftpdTransfer ----------------------------
(***************************************************************************)
(* targets/vsftpd/3.0.5: the session child around a data transfer          *)
(* (ftpdataio.c, ftpcmdio.c, the loop of process_post_login() and the      *)
(* transfer commands of postlogin.c, the signals of sysutil.c).            *)
(*                                                                         *)
(* One alarm() serves the idle timeout and the data timeout in turn.  Its  *)
(* signal, and the SIGURG of an asynchronous ABOR, only set a flag; the    *)
(* flags are looked at after each system call (chk), by whatever handler   *)
(* is installed by then.  The handlers shut connections down to get the    *)
(* transfer out of a blocked call.                                         *)
(*                                                                         *)
(* Time is abstract: an alarm that is set may fire at any moment.  TLS is  *)
(* off.  VsftpdSession has the exchange with the parent that "work" and    *)
(* "cleanup" stand for.                                                    *)
(***************************************************************************)
EXTENDS Integers, Sequences

CONSTANT MaxLines   \* lines waiting in the command connection

ASSUME MaxLinesAssumption == MaxLines \in Nat \ {0}

VARIABLES
  pc,            \* where process_post_login() is
  chk,           \* where vsf_sysutil_check_pending_actions() is
  job,           \* the command: what get_cmd_and_arg() returned
  result,        \* trans_ret.retval: "ok" (0), "file" (-1), "net" (-2)
  alarm,         \* what alarm() is set for: "off", "idle", "data", or
                 \* "again", the alarm(1) of vsf_sysutil_common_sighandler()
  handler,       \* sync_sig_handler of SIGALRM: "idle" (handle_alarm_timeout),
                 \* "data" (handle_sigalrm)
  alrm, urg,     \* SIGALRM, SIGURG: pending
  data_fd,       \* data_fd # -1
  io,            \* s_io_handler is installed
  data_progress, data_timeout, idle_timeout, abor_received,
  shut,          \* the data connection has been shut down by a handler
  cmd,           \* reading side of the command connection: "open" or "eof"
  lines,         \* lines in the command connection, the oldest first
  asked,         \* history: the client has sent ABOR and no answer came yet
  stalled,       \* the client neither reads nor writes the data connection
  due,           \* history: final replies the command is still to get; an
                 \* empty one is to get none
  due_abor,      \* history: the same of an ABOR the handler took; a repeated
                 \* one is answered with the first
  complete,      \* history: the command was answered "Transfer complete."
  tunables       \* idle_session_timeout > 0, data_connection_timeout > 0

flow    == <<pc, chk, job, result>>
alarms  == <<alarm, handler>>
pending == <<alrm, urg>>
dataio  == <<data_fd, io, data_progress, shut>>
flags   == <<data_timeout, idle_timeout, abor_received>>
client  == <<cmd, lines, asked, stalled>>
history == <<due, due_abor, complete>>
vars    == <<flow, alarms, pending, dataio, flags, client, history, tunables>>

Steps == {"arm", "read", "got", "work", "init", "mark", "xfer", "dispose",
          "close", "log", "status", "abor", "cleanup", "end"}
Exits == {"exit-idle", "exit-data", "exit-quit", "exit-hangup", "exit-died"}

\* Lines of the client: ABOR after the four telnet characters, or another
\* command, which may be empty (which one it is matters when it is carried
\* out; without the characters ABOR is one of them to the handler of SIGURG).
Lines    == {"abor", "command"}
Commands == {"send", "recv", "other", "empty"}

Booleans ==
  /\ alrm \in BOOLEAN /\ urg \in BOOLEAN
  /\ data_fd \in BOOLEAN /\ io \in BOOLEAN /\ data_progress \in BOOLEAN /\ shut \in BOOLEAN
  /\ data_timeout \in BOOLEAN /\ idle_timeout \in BOOLEAN /\ abor_received \in BOOLEAN
  /\ asked \in BOOLEAN /\ stalled \in BOOLEAN /\ complete \in BOOLEAN

TypeOK ==
  /\ Booleans
  /\ pc \in Steps \cup Exits \cup {"bug"}
  /\ chk \in {"no", "alrm", "urg", "line", "said"}
  /\ job \in Commands \cup {"none", "abor", "eof"}
  /\ result \in {"ok", "file", "net"}
  /\ alarm \in {"off", "idle", "data", "again"}
  /\ handler \in {"none", "idle", "data"}
  /\ cmd \in {"open", "eof"}
  /\ lines \in Seq(Lines)
  /\ due \in 0 .. 1 /\ due_abor \in 0 .. 1
  /\ tunables \in [idle : BOOLEAN, data : BOOLEAN]

\* After the login message.
Init ==
  /\ pc = "arm" /\ chk = "no" /\ job = "none" /\ result = "ok"
  /\ alarm = "off" /\ handler = "none" /\ alrm = FALSE /\ urg = FALSE
  /\ data_fd = FALSE /\ io = FALSE /\ data_progress = FALSE /\ shut = FALSE
  /\ data_timeout = FALSE /\ idle_timeout = FALSE /\ abor_received = FALSE
  /\ cmd = "open" /\ lines = << >> /\ asked = FALSE /\ stalled = FALSE
  /\ due = 0 /\ due_abor = 0 /\ complete = FALSE
  /\ tunables \in [idle : BOOLEAN, data : BOOLEAN]

Alive  == pc \in Steps
At(s)  == pc = s /\ chk = "no"

\* A system call: on its return the flags are looked at.
Call(to) == pc' = to /\ chk' = "alrm"
Step(to) == pc' = to /\ UNCHANGED chk

-----------------------------------------------------------------------------
(***************************************************************************)
(* Around the session: the clock and the client.                           *)
(***************************************************************************)
\* vsf_sysutil_common_sighandler() for SIGALRM: again in a second.
AlarmFires ==
  /\ Alive /\ alarm # "off"
  /\ alrm' = TRUE
  /\ alarm' = "again"
  /\ UNCHANGED <<flow, handler, urg, dataio, flags, client, history, tunables>>

\* Commands may be sent ahead.
Send ==
  /\ Alive /\ cmd = "open" /\ Len(lines) < MaxLines
  /\ \E l \in Lines :
       /\ lines' = Append(lines, l)
       /\ asked' = (asked \/ l = "abor")
  /\ UNCHANGED <<flow, alarms, pending, dataio, flags, cmd, stalled, history, tunables>>

\* Urgent data: with an ABOR, before or after its line arrives, or without.
SendUrgent ==
  /\ Alive /\ cmd = "open"
  /\ urg' = TRUE
  /\ UNCHANGED <<flow, alarms, alrm, dataio, flags, client, history, tunables>>

Stall ==
  /\ Alive /\ data_fd /\ ~stalled
  /\ stalled' = TRUE
  /\ UNCHANGED <<flow, alarms, pending, dataio, flags, cmd, lines, asked, history, tunables>>

Leave ==
  /\ Alive /\ cmd = "open"
  /\ cmd' = "eof"
  /\ UNCHANGED <<flow, alarms, pending, dataio, flags, lines, asked, stalled, history, tunables>>

-----------------------------------------------------------------------------
(***************************************************************************)
(* vsf_sysutil_check_pending_actions(): SIGALRM (14), then SIGURG (23).    *)
(***************************************************************************)
\* start_data_alarm().
StartDataAlarm ==
  /\ handler' = IF tunables.data THEN "data" ELSE handler
  /\ alarm' = IF tunables.data THEN "data" ELSE IF tunables.idle THEN "off" ELSE alarm

\* handle_sigalrm() and handle_alarm_timeout(), after the alarm(0).
DataStalled ==
  /\ handler = "data" /\ ~data_progress
  /\ data_timeout' = TRUE
  /\ shut' = (shut \/ data_fd)
  /\ cmd' = "eof"
  /\ alarm' = "off"
  /\ UNCHANGED <<handler, data_progress, idle_timeout>>

DataProgressed ==
  /\ handler = "data" /\ data_progress
  /\ data_progress' = FALSE
  /\ StartDataAlarm
  /\ UNCHANGED <<data_timeout, shut, cmd, idle_timeout>>

DataProgressedOnce ==  \* mutant: the alarm is not set again
  /\ handler = "data" /\ data_progress
  /\ data_progress' = FALSE
  /\ alarm' = "off"
  /\ UNCHANGED <<handler, data_timeout, shut, cmd, idle_timeout>>

IdleExpired ==
  /\ handler = "idle"
  /\ idle_timeout' = TRUE
  /\ cmd' = "eof"
  /\ alarm' = "off"
  /\ UNCHANGED <<handler, data_progress, data_timeout, shut>>

HandleAlrmOnce ==  \* mutant: see DataProgressedOnce
  /\ chk \in {"alrm", "line", "said"} /\ alrm
  /\ alrm' = FALSE
  /\ DataStalled \/ DataProgressedOnce \/ IdleExpired
  /\ chk' = IF chk = "alrm" THEN "urg" ELSE chk
  /\ UNCHANGED <<pc, job, result, urg, data_fd, io, abor_received, lines, asked, stalled>>
  /\ UNCHANGED <<history, tunables>>

HandleAlrm ==
  /\ chk \in {"alrm", "line", "said"} /\ alrm
  /\ alrm' = FALSE
  /\ DataStalled \/ DataProgressed \/ IdleExpired
  /\ chk' = IF chk = "alrm" THEN "urg" ELSE chk
  /\ UNCHANGED <<pc, job, result, urg, data_fd, io, abor_received, lines, asked, stalled>>
  /\ UNCHANGED <<history, tunables>>

NoAlrm ==
  /\ chk = "alrm" /\ ~alrm
  /\ chk' = "urg"
  /\ UNCHANGED <<pc, job, result, alarms, pending, dataio, flags, client, history, tunables>>

\* handle_sigurg(): without a data connection nothing is read.
HandleUrg ==
  /\ chk = "urg"
  /\ urg' = FALSE
  /\ chk' = IF urg /\ data_fd THEN "line" ELSE "no"
  /\ UNCHANGED <<pc, job, result, alarms, alrm, dataio, flags, client, history, tunables>>

\* Its get_cmd_and_arg() has a line or the end, and looks at idle_timeout
\* first.  (HandleAlrm also runs while it blocks.)
UrgExits ==
  /\ chk = "line" /\ ~alrm
  /\ idle_timeout \/ (lines = << >> /\ cmd = "eof")
  /\ pc' = IF idle_timeout THEN "exit-idle" ELSE "exit-hangup"
  /\ chk' = "no"
  /\ UNCHANGED <<job, result, alarms, pending, dataio, flags, client, history, tunables>>

UrgLine ==
  /\ chk = "line" /\ ~alrm /\ ~idle_timeout /\ lines # << >>
  /\ lines' = Tail(lines)

UrgAbor ==
  /\ UrgLine /\ Head(lines) = "abor"
  /\ abor_received' = TRUE
  /\ shut' = TRUE
  /\ chk' = "no"
  /\ due_abor' = IF abor_received THEN due_abor ELSE due_abor + 1
  /\ UNCHANGED <<pc, job, result, alarms, pending, data_fd, io, data_progress>>
  /\ UNCHANGED <<data_timeout, idle_timeout, cmd, asked, stalled, due, complete, tunables>>

\* Any other line, empty or sent ahead of the urgent data, is answered
\* "Unknown command." in the middle of the transfer and is gone.  In the
\* write SIGALRM is looked at, SIGURG not again.
UrgOther ==
  /\ UrgLine /\ Head(lines) # "abor"
  /\ chk' = "said"
  /\ UNCHANGED <<pc, job, result, alarms, pending, dataio, flags, cmd, asked, stalled>>
  /\ UNCHANGED <<history, tunables>>

UrgSaid ==
  /\ chk = "said" /\ ~alrm
  /\ chk' = "no"
  /\ UNCHANGED <<pc, job, result, alarms, pending, dataio, flags, client, history, tunables>>

Checking == HandleAlrm \/ NoAlrm \/ HandleUrg \/ UrgExits \/ UrgAbor \/ UrgOther \/ UrgSaid

-----------------------------------------------------------------------------
(***************************************************************************)
(* process_post_login().                                                   *)
(***************************************************************************)
\* vsf_cmdio_set_alarm().
ArmNot ==  \* mutant: the alarm is not set
  /\ At("arm")
  /\ handler' = IF tunables.idle THEN "idle" ELSE handler
  /\ Step("read")
  /\ UNCHANGED <<job, result, alarm, pending, dataio, flags, client, history, tunables>>

Arm ==
  /\ At("arm")
  /\ handler' = IF tunables.idle THEN "idle" ELSE handler
  /\ alarm' = IF tunables.idle THEN "idle" ELSE alarm
  /\ Step("read")
  /\ UNCHANGED <<job, result, pending, dataio, flags, client, history, tunables>>

\* A call that blocks and that a signal interrupts is made again.  A SIGURG
\* that comes just before the call goes unnoticed; for SIGALRM there is the
\* alarm(1).
Blocking ==
  \/ pc = "read" /\ lines = << >> /\ cmd = "open"
  \/ pc = "work"
  \/ pc = "xfer" /\ ~shut

InterruptedBy(signal) ==
  /\ chk = "no" /\ Blocking
  /\ signal
  /\ Call(pc)
  /\ UNCHANGED <<job, result, alarms, pending, dataio, flags, client, history, tunables>>

Interrupted == InterruptedBy(alrm)
InterruptedByUrg == InterruptedBy(urg)

\* vsf_cmdio_get_cmd_and_arg(): what has been sent before the end is read.
ReadLine ==
  /\ At("read") /\ lines # << >>
  /\ job' \in IF Head(lines) = "abor" THEN {"abor"} ELSE Commands
  /\ lines' = Tail(lines)
  /\ due' = IF job' = "empty" THEN 0 ELSE 1
  /\ Call("got")
  /\ UNCHANGED <<result, alarms, pending, dataio, flags, cmd, asked, stalled>>
  /\ UNCHANGED <<due_abor, complete, tunables>>

ReadEof ==
  /\ At("read") /\ lines = << >> /\ cmd = "eof"
  /\ job' = "eof"
  /\ Call("got")
  /\ UNCHANGED <<result, alarms, pending, dataio, flags, client, history, tunables>>

GotNothing ==
  /\ At("got")
  /\ idle_timeout \/ job = "eof"
  /\ Step(IF idle_timeout THEN "exit-idle" ELSE "exit-hangup")
  /\ UNCHANGED <<job, result, alarms, pending, dataio, flags, client, history, tunables>>

\* A control write: fails only when the connection is being torn down.
Reply(to) ==
  /\ Call(to)
  /\ due' = due - 1
  /\ UNCHANGED <<due_abor, complete>>

GotOther ==
  /\ At("got") /\ ~idle_timeout /\ job \in {"other", "abor"}
  /\ asked' = (asked /\ job # "abor")
  /\ Reply("end")
  /\ UNCHANGED <<job, result, alarms, pending, dataio, flags, cmd, lines, stalled, tunables>>

\* QUIT, and the commands of HTTP: vsf_cmdio_write_exit().
GotQuit ==
  /\ At("got") /\ ~idle_timeout /\ job = "other"
  /\ Step("exit-quit")
  /\ due' = due - 1
  /\ UNCHANGED <<job, result, alarms, pending, dataio, flags, client>>
  /\ UNCHANGED <<due_abor, complete, tunables>>

\* "Deliberately ignore to avoid NAT device bugs."
GotEmpty ==
  /\ At("got") /\ ~idle_timeout /\ job = "empty"
  /\ Step("end")
  /\ UNCHANGED <<job, result, alarms, pending, dataio, flags, client, history, tunables>>

GotTransfer ==
  /\ At("got") /\ ~idle_timeout /\ job \in {"send", "recv"}
  /\ Step("work")
  /\ UNCHANGED <<job, result, alarms, pending, dataio, flags, client, history, tunables>>

\* The command is refused, or the file cannot be opened.
Refused ==
  /\ At("work")
  /\ Reply("end")
  /\ UNCHANGED <<job, result, alarms, pending, dataio, flags, client, tunables>>

\* get_remote_transfer_fd() fails.
NoConnection ==
  /\ At("work")
  /\ Reply("cleanup")
  /\ abor_received' = FALSE
  /\ UNCHANGED <<job, result, alarms, pending, dataio, data_timeout, idle_timeout, client, tunables>>

Connected ==
  /\ At("work")
  /\ abor_received' = FALSE
  /\ Call("init")
  /\ UNCHANGED <<job, result, alarms, pending, dataio, data_timeout, idle_timeout, client>>
  /\ UNCHANGED <<history, tunables>>

\* init_data_sock_params().
InitData ==
  /\ At("init")
  /\ Step(IF data_fd \/ io THEN "bug" ELSE "mark")
  /\ data_fd' = TRUE /\ io' = TRUE /\ data_progress' = FALSE /\ shut' = FALSE
  /\ StartDataAlarm
  /\ UNCHANGED <<job, result, pending, flags, client, history, tunables>>

\* "150"; the write is not one of the data connection.
Mark ==
  /\ At("mark")
  /\ Call("xfer")
  /\ UNCHANGED <<job, result, alarms, pending, dataio, flags, client, history, tunables>>

-----------------------------------------------------------------------------
(***************************************************************************)
(* vsf_ftpdataio_transfer_file() and _dir(), and handle_io().              *)
(***************************************************************************)
Progress ==
  /\ At("xfer") /\ ~stalled /\ ~shut
  /\ Call("xfer")
  /\ data_progress' = TRUE
  /\ UNCHANGED <<job, result, alarms, pending, data_fd, io, shut, flags, client, history, tunables>>

XferEnds(r) ==
  /\ At("xfer")
  /\ Call("dispose")
  /\ result' = r
  /\ UNCHANGED <<job, alarms, pending, dataio, flags, client, history, tunables>>

\* To a receiver a connection that was shut down looks like the end of the
\* file.
XferDone  == ~stalled /\ ~shut /\ XferEnds("ok")
XferCut   == shut /\ XferEnds(IF job = "recv" THEN "ok" ELSE "net")
XferFails == \E r \in {"file", "net"} : ~stalled /\ XferEnds(r)

-----------------------------------------------------------------------------
(***************************************************************************)
(* vsf_ftpdataio_dispose_transfer_fd().                                    *)
(***************************************************************************)
DisposeKeepsHandler ==  \* mutant: the i/o handler stays installed
  /\ At("dispose")
  /\ Step(IF data_fd /\ io THEN "close" ELSE "bug")
  /\ IF ~abor_received /\ ~data_timeout THEN StartDataAlarm ELSE UNCHANGED alarms
  /\ UNCHANGED <<job, result, pending, dataio, flags, client, history, tunables>>

\* A transfer nothing is known to be wrong with lingers in the close().
Dispose ==
  /\ At("dispose")
  /\ Step(IF data_fd /\ io THEN "close" ELSE "bug")
  /\ io' = FALSE
  /\ IF ~abor_received /\ ~data_timeout THEN StartDataAlarm ELSE UNCHANGED alarms
  /\ UNCHANGED <<job, result, pending, data_fd, data_progress, shut, flags, client, history, tunables>>

CloseTrusts ==  \* mutant: the result of the transfer is not corrected
  /\ At("close")
  /\ data_fd' = FALSE /\ stalled' = FALSE
  /\ alarm' = IF tunables.data THEN "off" ELSE alarm
  /\ Step(IF result = "ok" THEN "log" ELSE "status")
  /\ UNCHANGED <<job, result, handler, pending, io, data_progress, shut, flags>>
  /\ UNCHANGED <<cmd, lines, asked, history, tunables>>

\* The close() returns when the data is out, on a signal, or after the ten
\* minutes of the linger; the flags are not looked at.
Close ==
  LET r == IF result = "ok" /\ (abor_received \/ data_timeout) THEN "net" ELSE result
  IN /\ At("close")
     /\ data_fd' = FALSE /\ stalled' = FALSE
     /\ alarm' = IF tunables.data THEN "off" ELSE alarm
     /\ result' = r
     /\ Step(IF r = "ok" THEN "log" ELSE "status")
     /\ UNCHANGED <<job, handler, pending, io, data_progress, shut, flags>>
     /\ UNCHANGED <<cmd, lines, asked, history, tunables>>

-----------------------------------------------------------------------------
(***************************************************************************)
(* The end of a transfer command.                                          *)
(***************************************************************************)
Log ==
  /\ At("log")
  /\ Call("status")
  /\ UNCHANGED <<job, result, alarms, pending, dataio, flags, client, history, tunables>>

StatusSilent ==  \* mutant: nothing is said of a transfer that was aborted
  /\ At("status")
  /\ IF result = "net" /\ (data_timeout \/ abor_received)
     THEN Step("abor") /\ UNCHANGED history
     ELSE /\ Call("abor")
          /\ due' = due - 1
          /\ complete' = (result = "ok")
          /\ UNCHANGED due_abor
  /\ UNCHANGED <<job, result, alarms, pending, dataio, flags, client, tunables>>

\* Nothing is said of a transfer that timed out; End does.
Status ==
  /\ At("status")
  /\ IF result = "net" /\ data_timeout
     THEN Step("abor") /\ UNCHANGED history
     ELSE /\ Call("abor")
          /\ due' = due - 1
          /\ complete' = (result = "ok")
          /\ UNCHANGED due_abor
  /\ UNCHANGED <<job, result, alarms, pending, dataio, flags, client, tunables>>

CheckAborMute ==  \* mutant: the flag is reset, the answer not sent
  /\ At("abor")
  /\ abor_received' = FALSE
  /\ Step("cleanup")
  /\ UNCHANGED <<job, result, alarms, pending, dataio, data_timeout, idle_timeout>>
  /\ UNCHANGED <<client, history, tunables>>

\* check_abor().
CheckAbor ==
  /\ At("abor")
  /\ abor_received' = FALSE
  /\ asked' = (asked /\ ~abor_received)
  /\ IF abor_received
     THEN Call("cleanup") /\ due_abor' = due_abor - 1
     ELSE Step("cleanup") /\ UNCHANGED due_abor
  /\ UNCHANGED <<job, result, alarms, pending, dataio, data_timeout, idle_timeout>>
  /\ UNCHANGED <<cmd, lines, stalled, due, complete, tunables>>

\* port_cleanup(), pasv_cleanup(), the log.
Cleanup ==
  /\ At("cleanup")
  /\ Call("end")
  /\ UNCHANGED <<job, result, alarms, pending, dataio, flags, client, history, tunables>>

End ==
  /\ At("end")
  /\ Step(IF data_timeout THEN "exit-data" ELSE "arm")
  /\ job' = "none" /\ result' = "ok" /\ shut' = FALSE
  /\ due' = 0 /\ due_abor' = 0 /\ complete' = FALSE
  /\ UNCHANGED <<alarms, pending, data_fd, io, data_progress, flags, client, tunables>>

\* A control write to a connection that is being torn down fails: die().
WriteFails ==
  /\ cmd = "eof"
  /\ \/ At("got") /\ job \notin {"eof", "empty"} /\ ~idle_timeout
     \/ chk = "said"
     \/ chk = "no" /\ pc \in {"work", "mark", "status"}
     \/ At("abor") /\ abor_received
  /\ pc' = "exit-died" /\ chk' = "no"
  /\ UNCHANGED <<job, result, alarms, pending, dataio, flags, client, history, tunables>>

Serving ==
  \/ Arm \/ Interrupted \/ ReadLine \/ ReadEof
  \/ GotNothing \/ GotOther \/ GotQuit \/ GotEmpty \/ GotTransfer
  \/ Refused \/ NoConnection \/ Connected \/ InitData \/ Mark
  \/ XferCut \/ Dispose \/ Close \/ Log \/ Status \/ CheckAbor \/ Cleanup \/ End

Next ==
  \/ AlarmFires \/ Send \/ SendUrgent \/ Stall \/ Leave
  \/ Checking \/ Serving
  \/ InterruptedByUrg \/ Progress \/ XferDone \/ XferFails \/ WriteFails

\* The process runs, the clock ticks, and a transfer that does not stall, and
\* the calls before it, end however often they are interrupted, a file being
\* finite.  No client has to send a command or to move data, and SIGURG may
\* go unnoticed.
Fairness ==
  /\ WF_vars(Checking) /\ WF_vars(Serving) /\ WF_vars(AlarmFires)
  /\ SF_vars(Refused \/ NoConnection \/ Connected)
  /\ SF_vars(XferDone \/ XferFails)

Spec == Init /\ [][Next]_vars /\ Fairness

-----------------------------------------------------------------------------
(***************************************************************************)
(* Properties.                                                             *)
(***************************************************************************)

\* However transfers end, the next one finds no descriptor and no i/o
\* handler of an earlier one, and each is disposed of once: none of the
\* bug() calls of init_data_sock_params(), dispose_transfer_fd() and the
\* i/o handler is reached.
NoBug == pc # "bug"

\* A transfer that a handler cut off, by shutting down the connection under
\* it, is never reported complete, although to a receiver the shutdown looks
\* like the end of the file.
CutNotComplete == complete => ~shut

\* When a command ends each line taken out of the command connection since
\* the last one has had exactly one final reply: the command itself, and an
\* ABOR that the handler took meanwhile, of which the reply must wait until
\* that of the transfer is out.  An empty command gets none; a transfer that
\* timed out may get none, and then the session ends with the message about
\* it.
OneReply ==
  At("end") => /\ due = 0 \/ data_timeout
               /\ due_abor = 0

\* With a data timeout a client that neither reads nor writes does not keep
\* the data connection for ever.
StalledReleased == (stalled /\ tunables.data) ~> (~stalled \/ ~Alive)

\* An ABOR is answered, whether it is taken out of the command connection by
\* the handler of SIGURG or later as a command, or the session ends.  (The
\* data timeout bounds what it may have to wait for.)
AborAnswered == (asked /\ tunables.data) ~> (~asked \/ ~Alive)

\* With an idle timeout a session whose client has nothing to say ends: the
\* idle alarm is always set again after the data alarm has used alarm().
IdleKicked == (pc = "read" /\ tunables.idle) ~> (pc # "read")
===============================================================================
