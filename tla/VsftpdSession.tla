---------------------------- MODULE VsftpdSession ----------------------------
(***************************************************************************)
(* targets/vsftpd/3.0.5: the processes of one session in the two-process   *)
(* model (twoprocess.c, privsock.c, postprivparent.c, privops.c,           *)
(* prelogin.c and the data-connection commands of postlogin.c).            *)
(*                                                                         *)
(* A privileged parent first serves an unprivileged child that collects    *)
(* USER and PASS; when a login is granted that child exits, the parent     *)
(* replaces the socket pair and forks the child that serves the session.   *)
(* The session child asks the parent over the socket pair for everything   *)
(* that needs privilege: the passive-mode socket lives in the parent, the  *)
(* address of active mode in the child, and what the child knows of the    *)
(* parent's socket it learns by asking.  Any process may be killed at any  *)
(* time; the parent is told by SIGCHLD, the child by the end of the socket *)
(* pair.                                                                   *)
(*                                                                         *)
(* TLS is off (no SSL slave stays behind).  A message is a request with    *)
(* its arguments, or one item of a reply; a transfer is one step (see      *)
(* VsftpdTransfer).                                                        *)
(***************************************************************************)
EXTENDS Naturals, Sequences

CONSTANTS MaxLoginFails  \* tunable_max_login_fails

ASSUME MaxLoginFailsAssumption == MaxLoginFails \in Nat \ {0}

VARIABLES
  ppc,          \* the privileged parent
  req,          \* the request it is working on
  on_chld,      \* its SIGCHLD handler: "exit" (handle_sigchld) or "null"
  pend,         \* its pending signals
  pasv_listen,  \* pasv_listen_fd # -1
  attempts,     \* history: logins the authentication refused
  granted,      \* history: PRIV_SOCK_RESULT_OK has been sent for a login
  pre,          \* the pre-login child
  user,         \* its user_str is not empty
  login_fails,  \* its count of failed logins
  post,         \* the session child
  port,         \* p_port_sockaddr # 0
  data_fd,      \* data_fd # -1
  up, down,     \* the socket pair: to the parent, to the child
  conn,         \* the command connection: "open" or "shut"
  tunables      \* tunable_chown_uploads, tunable_port_promiscuous

parent  == <<ppc, req, on_chld, pasv_listen, attempts, granted>>
prelog  == <<pre, user, login_fails>>
session == <<post, port, data_fd>>
socks   == <<up, down>>
vars    == <<parent, pend, prelog, session, socks, conn, tunables>>

Requests == {"LOGIN", "CLEANUP", "LISTEN", "ACTIVE", "ACCEPT", "DATA_SOCK", "CHOWN"}
\* Items of a reply: a result, the port of a listening socket, the answer
\* to ACTIVE, the error of an accept, a file descriptor.
Items    == {"OK", "BAD", "port", "yes", "no", "error", "fd"}

Gone      == {"none", "exiting", "zombie", "reaped"}
PreWork   == {"command", "login?"}
PostWaits == {"pasv-clean?", "listen?", "port-clean?", "check?", "check-port?",
              "chown?", "get?", "get-port?", "pick?", "accept?", "sock?", "clean?"}
PostWork  == {"command", "open", "get", "transfer", "clean"} \cup PostWaits
ParentWork == {"login", "auth", "null", "grant", "wait", "rewire", "fork",
               "serve", "work", "sigchld"}

Booleans ==
  /\ pasv_listen \in BOOLEAN /\ granted \in BOOLEAN
  /\ user \in BOOLEAN /\ port \in BOOLEAN /\ data_fd \in BOOLEAN

TypeOK ==
  /\ Booleans
  /\ ppc \in ParentWork \cup {"dead", "termed", "oops"}
  /\ req \in Requests \cup {"none"}
  /\ on_chld \in {"exit", "null"}
  /\ pend \subseteq {"TERM", "CHLD"}
  /\ attempts \in 0 .. MaxLoginFails
  /\ pre \in PreWork \cup (Gone \ {"none"})
  /\ login_fails \in 0 .. MaxLoginFails
  /\ post \in PostWork \cup Gone \cup {"oops"}
  /\ up \in Seq(Requests) /\ Len(up) <= 1
  /\ down \in Seq(Items) /\ Len(down) <= 2
  /\ conn \in {"open", "shut"}
  /\ tunables \in [chown_uploads : BOOLEAN, port_promiscuous : BOOLEAN]

\* After the first fork of vsf_two_process_start().
Init ==
  /\ ppc = "login" /\ req = "none" /\ on_chld = "exit" /\ pend = {}
  /\ pasv_listen = FALSE /\ attempts = 0 /\ granted = FALSE
  /\ pre = "command" /\ user = FALSE /\ login_fails = 0
  /\ post = "none" /\ port = FALSE /\ data_fd = FALSE
  /\ up = <<>> /\ down = <<>>
  /\ conn = "open"
  /\ tunables \in [chown_uploads : BOOLEAN, port_promiscuous : BOOLEAN]

ParentAlive == ppc \in ParentWork
PreAlive    == pre \in PreWork
PostAlive   == post \in PostWork

-----------------------------------------------------------------------------
(***************************************************************************)
(* Ends.  An exit, a die() for a reason outside the session (a lost peer,  *)
(* a full system) and a kill look the same from outside.                   *)
(***************************************************************************)
\* vsf_sysutil_common_sighandler(): with the null handler nothing is noted.
NoteChld == pend' = IF ParentAlive /\ on_chld = "exit" THEN pend \cup {"CHLD"} ELSE pend

\* An exit closes the socket pair first; SIGCHLD comes later.
PreEnds ==
  /\ pre' = "exiting"
  /\ UNCHANGED <<parent, pend, user, login_fails, session, socks, conn, tunables>>

PostEnds ==
  /\ post' = "exiting"
  /\ port' = FALSE /\ data_fd' = FALSE
  /\ UNCHANGED <<parent, pend, prelog, socks, conn, tunables>>

Exited ==
  /\ \/ pre = "exiting" /\ pre' = "zombie" /\ UNCHANGED post
     \/ post = "exiting" /\ post' = "zombie" /\ UNCHANGED pre
  /\ NoteChld
  /\ UNCHANGED <<parent, user, login_fails, port, data_fd, socks, conn, tunables>>

ParentEnds ==
  /\ ppc' = "dead" /\ pasv_listen' = FALSE /\ pend' = {}
  /\ UNCHANGED <<req, on_chld, attempts, granted, prelog, session, socks, conn, tunables>>

\* Any of them is killed or dies; the idle alarm and QUIT are among these.
Kill ==
  \/ PreAlive /\ PreEnds
  \/ PostAlive /\ PostEnds
  \/ ParentAlive /\ ParentEnds

\* The client leaves.
Disconnect ==
  /\ conn = "open"
  /\ conn' = "shut"
  /\ UNCHANGED <<parent, pend, prelog, session, socks, tunables>>

\* SIGTERM: from outside, or because the listener died.
Term ==
  /\ ParentAlive /\ "TERM" \notin pend
  /\ pend' = pend \cup {"TERM"}
  /\ UNCHANGED <<parent, prelog, session, socks, conn, tunables>>

-----------------------------------------------------------------------------
(***************************************************************************)
(* The pre-login child: parse_username_password().                         *)
(***************************************************************************)
\* vsf_cmdio_get_cmd_and_arg() finds the command connection closed.
PreHangup == pre = "command" /\ conn = "shut" /\ PreEnds

\* check_login_fails().
LoginFailed ==
  IF login_fails + 1 >= MaxLoginFails
  THEN pre' = "exiting" /\ conn' = "shut"
  ELSE pre' = "command" /\ UNCHANGED conn

\* USER: accepted, or refused because local users are (no failed login).
User ==
  /\ pre = "command" /\ conn = "open"
  /\ user' \in BOOLEAN
  /\ UNCHANGED <<parent, pend, pre, login_fails, session, socks, conn, tunables>>

\* USER with a name the user list denies.
UserDenied ==
  /\ pre = "command" /\ conn = "open"
  /\ login_fails' = login_fails + 1 /\ user' = FALSE
  /\ LoginFailed
  /\ UNCHANGED <<parent, pend, session, socks, tunables>>

\* PASS: vsf_two_process_login() sends the request.  What is sent to a dead
\* parent is not answered; that the child ends in the write and not in the
\* read (PreEof, PostEof) is not told apart.
SendLogin ==
  /\ pre = "command" /\ conn = "open" /\ user
  /\ pre' = "login?"
  /\ up' = Append(up, "LOGIN")
  /\ UNCHANGED <<parent, pend, user, login_fails, session, down, conn, tunables>>

LoginRefusedUncounted ==  \* mutant: check_login_fails() is not called
  /\ pre = "login?" /\ down # <<>> /\ Head(down) = "BAD"
  /\ down' = Tail(down)
  /\ pre' = "command" /\ user' = FALSE
  /\ UNCHANGED <<parent, pend, login_fails, session, up, conn, tunables>>

LoginRefused ==
  /\ pre = "login?" /\ down # <<>> /\ Head(down) = "BAD"
  /\ down' = Tail(down)
  /\ login_fails' = login_fails + 1 /\ user' = FALSE
  /\ LoginFailed
  /\ UNCHANGED <<parent, pend, session, up, tunables>>

\* "Miracle": the child exits; the parent goes on.
LoginGranted ==
  /\ pre = "login?" /\ down # <<>> /\ Head(down) = "OK"
  /\ down' = Tail(down)
  /\ pre' = "exiting"
  /\ UNCHANGED <<parent, pend, user, login_fails, session, up, conn, tunables>>

PreEof == pre = "login?" /\ down = <<>> /\ ~ParentAlive /\ PreEnds

PreStep ==
  PreHangup \/ User \/ UserDenied \/ SendLogin \/ LoginRefused
  \/ LoginGranted \/ PreEof

-----------------------------------------------------------------------------
(***************************************************************************)
(* The privileged parent.  vsf_sysutil_check_pending_actions() runs after  *)
(* every read and write of the socket pair; the alarm makes sure that a    *)
(* blocked read is left when a signal is pending (see VsftpdListener).     *)
(***************************************************************************)
PState(from, to) == ppc = from /\ ppc' = to

ToHandle == "TERM" \in pend \/ ("CHLD" \in pend /\ on_chld = "exit")
Checks   == {"login", "auth", "grant", "wait", "serve", "work"}

HandleTermQuietly ==  \* mutant: exit without the shutdown()
  /\ ppc \in Checks \cup {"sigchld"} /\ "TERM" \in pend
  /\ ppc' = "termed" /\ pasv_listen' = FALSE /\ pend' = {}
  /\ UNCHANGED <<req, on_chld, attempts, granted, prelog, session, socks, conn, tunables>>

\* handle_sigterm(): shutdown() of the command connection, exit.
HandleTerm ==
  /\ ppc \in Checks \cup {"sigchld"} /\ "TERM" \in pend
  /\ conn' = "shut"
  /\ ppc' = "termed" /\ pasv_listen' = FALSE /\ pend' = {}
  /\ UNCHANGED <<req, on_chld, attempts, granted, prelog, session, socks, tunables>>

\* handle_sigchld(): wait() for a child, then exit.
HandleChld ==
  /\ ppc \in Checks /\ "CHLD" \in pend /\ on_chld = "exit" /\ "TERM" \notin pend
  /\ ppc' = "sigchld"
  /\ pend' = pend \ {"CHLD"}
  /\ UNCHANGED <<req, on_chld, pasv_listen, attempts, granted>>
  /\ UNCHANGED <<prelog, session, socks, conn, tunables>>

ChildWaited ==
  /\ ppc = "sigchld"
  /\ "zombie" \in {pre, post}
  /\ ParentEnds

\* priv_sock_get_cmd() meets the end of the socket pair: die().
ParentEof ==
  /\ \/ ppc = "login" /\ ~PreAlive
     \/ ppc = "serve" /\ ~PostAlive
  /\ up = <<>> /\ ~ToHandle
  /\ ParentEnds

\* process_login_req().
GetLogin ==
  /\ up # <<>> /\ ~ToHandle
  /\ ppc = "login"
  /\ ppc' = IF Head(up) = "LOGIN" THEN "auth" ELSE "oops"
  /\ up' = Tail(up)
  /\ UNCHANGED <<req, on_chld, pend, pasv_listen, attempts, granted>>
  /\ UNCHANGED <<prelog, session, down, conn, tunables>>

\* A reply goes to a child that is there; otherwise the write fails: die().
AuthRefuses ==
  /\ ppc = "auth" /\ ~ToHandle
  /\ attempts' = attempts + 1
  /\ IF PreAlive THEN ppc' = "login" /\ down' = Append(down, "BAD")
                 ELSE ppc' = "dead" /\ UNCHANGED down
  /\ UNCHANGED <<req, on_chld, pend, pasv_listen, granted>>
  /\ UNCHANGED <<prelog, session, up, conn, tunables>>

AuthAccepts ==
  /\ PState("auth", "null")
  /\ UNCHANGED <<req, on_chld, pend, pasv_listen, attempts, granted>>
  /\ UNCHANGED <<prelog, session, socks, conn, tunables>>

\* common_do_login(): the end of the pre-login child is no reason to exit.
InstallNullNot ==  \* mutant: the handler stays in place
  /\ PState("null", "grant")
  /\ UNCHANGED <<req, on_chld, pend, pasv_listen, attempts, granted>>
  /\ UNCHANGED <<prelog, session, socks, conn, tunables>>

InstallNull ==
  /\ PState("null", "grant")
  /\ on_chld' = "null"
  /\ UNCHANGED <<req, pend, pasv_listen, attempts, granted>>
  /\ UNCHANGED <<prelog, session, socks, conn, tunables>>

Grant ==
  /\ PState("grant", IF PreAlive THEN "wait" ELSE "dead")
  /\ granted' = PreAlive
  /\ down' = IF PreAlive THEN Append(down, "OK") ELSE down
  /\ UNCHANGED <<req, on_chld, pend, pasv_listen, attempts>>
  /\ UNCHANGED <<prelog, session, up, conn, tunables>>

\* vsf_sysutil_wait(), whatever the status.
WaitSkipped ==  \* mutant: the session is started beside the old child
  /\ PState("wait", "rewire")
  /\ ~ToHandle
  /\ UNCHANGED <<req, on_chld, pend, pasv_listen, attempts, granted>>
  /\ UNCHANGED <<prelog, session, socks, conn, tunables>>

Wait ==
  /\ PState("wait", "rewire")
  /\ ~ToHandle
  /\ pre = "zombie"
  /\ pre' = "reaped"
  /\ UNCHANGED <<req, on_chld, pend, pasv_listen, attempts, granted>>
  /\ UNCHANGED <<user, login_fails, session, socks, conn, tunables>>

\* priv_sock_close() and priv_sock_init(), then the handler is back.
Rewire ==
  /\ PState("rewire", "fork")
  /\ up' = <<>> /\ down' = <<>>
  /\ on_chld' = "exit"
  /\ UNCHANGED <<req, pend, pasv_listen, attempts, granted>>
  /\ UNCHANGED <<prelog, session, conn, tunables>>

Fork ==
  /\ PState("fork", "serve")
  /\ post' = "command"
  /\ UNCHANGED <<req, on_chld, pend, pasv_listen, attempts, granted>>
  /\ UNCHANGED <<prelog, port, data_fd, socks, conn, tunables>>

\* process_post_login_req(): a request that does not fit the state of the
\* parent makes it die().
Unfit(r) ==
  \/ r = "LISTEN" /\ pasv_listen               \* listed fd already active
  \/ r = "ACCEPT" /\ ~pasv_listen              \* listed fd not active
  \/ r = "DATA_SOCK" /\ pasv_listen            \* listed fd is active?
  \/ r = "CHOWN" /\ ~tunables.chown_uploads    \* bad request
  \/ r = "LOGIN"

GetRequest ==
  /\ up # <<>> /\ ~ToHandle
  /\ PState("serve", IF Unfit(Head(up)) THEN "oops" ELSE "work")
  /\ req' = Head(up)
  /\ up' = Tail(up)
  /\ UNCHANGED <<on_chld, pend, pasv_listen, attempts, granted>>
  /\ UNCHANGED <<prelog, session, down, conn, tunables>>

\* The work on a request ends with its reply, or on a write nobody reads.
ReplyWith(r, items, listening) ==
  /\ ppc = "work" /\ req = r /\ ~ToHandle
  /\ pasv_listen' = (listening /\ PostAlive)
  /\ req' = "none"
  /\ IF PostAlive THEN ppc' = "serve" /\ down' = down \o items
                  ELSE ppc' = "dead" /\ UNCHANGED down
  /\ UNCHANGED <<on_chld, pend, attempts, granted>>
  /\ UNCHANGED <<prelog, session, up, conn, tunables>>

ReplyCleanup == ReplyWith("CLEANUP", <<"OK">>, FALSE)
ReplyActive  == ReplyWith("ACTIVE", <<IF pasv_listen THEN "yes" ELSE "no">>, pasv_listen)
ReplyListen  == ReplyWith("LISTEN", <<"port">>, TRUE)

\* The accept fails or times out, the peer is not the client, or it works.
AcceptRepliesShort ==  \* mutant: the error number is not sent
  \/ ReplyWith("ACCEPT", <<"BAD">>, TRUE)
  \/ ReplyWith("ACCEPT", <<"OK", "fd">>, TRUE)

ReplyAccept ==
  \/ ReplyWith("ACCEPT", <<"BAD", "error">>, TRUE)
  \/ ReplyWith("ACCEPT", <<"OK", "fd">>, TRUE)

ReplyDataSock ==
  \/ ReplyWith("DATA_SOCK", <<"BAD">>, FALSE)
  \/ ReplyWith("DATA_SOCK", <<"OK", "fd">>, FALSE)

ReplyChown == ReplyWith("CHOWN", <<"OK">>, pasv_listen)

ParentStep ==
  \/ HandleTerm \/ HandleChld \/ ChildWaited \/ ParentEof
  \/ GetLogin \/ AuthRefuses \/ AuthAccepts \/ InstallNull \/ Grant \/ Wait
  \/ Rewire \/ Fork \/ GetRequest
  \/ ReplyCleanup \/ ReplyActive \/ ReplyListen \/ ReplyAccept
  \/ ReplyDataSock \/ ReplyChown

-----------------------------------------------------------------------------
(***************************************************************************)
(* The session child: the commands of process_post_login() that deal with  *)
(* the data connection.  A state with a question mark awaits a reply.      *)
(***************************************************************************)
Ask(r, to) == post' = to /\ up' = Append(up, r)

\* Read a reply.
Reads(state, items) ==
  /\ post = state
  /\ Len(items) <= Len(down) /\ SubSeq(down, 1, Len(items)) = items
  /\ down' = SubSeq(down, Len(items) + 1, Len(down))

Rest == UNCHANGED <<parent, pend, prelog, conn, tunables>>

PostHangup == post = "command" /\ conn = "shut" /\ PostEnds
PostEof    == post \in PostWaits /\ down = <<>> /\ ~ParentAlive /\ PostEnds

\* handle_pasv(): pasv_cleanup(), port_cleanup(), listen.
Pasv ==
  /\ post = "command" /\ conn = "open"
  /\ Ask("CLEANUP", "pasv-clean?")
  /\ Rest /\ UNCHANGED <<port, data_fd, down>>

PasvKeepsPort ==  \* mutant: port_cleanup() is not called
  /\ Reads("pasv-clean?", <<"OK">>)
  /\ Ask("LISTEN", "listen?")
  /\ Rest /\ UNCHANGED <<port, data_fd>>

PasvClean ==
  /\ Reads("pasv-clean?", <<"OK">>)
  /\ port' = FALSE
  /\ Ask("LISTEN", "listen?")
  /\ Rest /\ UNCHANGED data_fd

PasvListening ==
  /\ Reads("listen?", <<"port">>)
  /\ post' = "command"
  /\ Rest /\ UNCHANGED <<port, data_fd, up>>

\* handle_port() and handle_eprt(): pasv_cleanup() and port_cleanup(), in
\* either order, then an address that is accepted or not.
Port ==
  /\ post = "command" /\ conn = "open"
  /\ port' \in {port, FALSE}
  /\ Ask("CLEANUP", "port-clean?")
  /\ Rest /\ UNCHANGED <<data_fd, down>>

PortClean ==
  /\ Reads("port-clean?", <<"OK">>)
  /\ port' \in BOOLEAN
  /\ post' = "command"
  /\ Rest /\ UNCHANGED <<data_fd, up>>

\* RETR, STOR, LIST, ...: data_transfer_checks_ok().  pasv_active() asks the
\* parent; port_active() looks at the address, and if there is one asks the
\* parent again.  Both being active is a bug().
DataCommand ==
  /\ post = "command" /\ conn = "open"
  /\ Ask("ACTIVE", "check?")
  /\ Rest /\ UNCHANGED <<port, data_fd, down>>

Goes(to) == post' = to /\ UNCHANGED up

\* pasv_active() || port_active(): the first question, the second one if
\* there is an address, and what follows if one is active or none.
Active(first, second, one, none) ==
  /\ \E pasv \in {"yes", "no"} :
       \/ /\ Reads(first, <<pasv>>)
          /\ CASE pasv = "yes" /\ port  -> Goes("oops")
               [] pasv = "no"  /\ port  -> Ask("ACTIVE", second)
               [] pasv = "yes" /\ ~port -> one
               [] pasv = "no"  /\ ~port -> none
       \/ /\ Reads(second, <<pasv>>)
          /\ IF pasv = "yes" THEN Goes("oops") ELSE one
  /\ Rest /\ UNCHANGED <<port, data_fd>>

CheckTransfer == Active("check?", "check-port?", Goes("open"), Goes("command"))

\* The file is refused or cannot be opened: the mode stays chosen.
OpenFails ==
  /\ post = "open"
  /\ post' = "command"
  /\ Rest /\ UNCHANGED <<port, data_fd, socks>>

OpenSucceeds ==
  /\ post = "open"
  /\ post' = "get"
  /\ Rest /\ UNCHANGED <<port, data_fd, socks>>

\* An anonymous upload is given to chown_username.
OpenChown ==
  /\ post = "open" /\ tunables.chown_uploads
  /\ Ask("CHOWN", "chown?")
  /\ Rest /\ UNCHANGED <<port, data_fd, down>>

Chowned ==
  /\ Reads("chown?", <<"OK">>)
  /\ post' = "get"
  /\ Rest /\ UNCHANGED <<port, data_fd, up>>

\* get_remote_transfer_fd(): the same questions once more, then pasv_active()
\* to pick the way.  Neither being active is a bug().
GetTransferFd ==
  /\ post = "get"
  /\ Ask("ACTIVE", "get?")
  /\ Rest /\ UNCHANGED <<port, data_fd, down>>

CheckAgain == Active("get?", "get-port?", Ask("ACTIVE", "pick?"), Goes("oops"))

PickPasv ==
  /\ Reads("pick?", <<"yes">>)
  /\ IF port THEN Goes("oops") ELSE Ask("ACCEPT", "accept?")
  /\ Rest /\ UNCHANGED <<port, data_fd>>

PickPort ==
  /\ Reads("pick?", <<"no">>)
  /\ ~tunables.port_promiscuous
  /\ Ask("DATA_SOCK", "sock?")
  /\ Rest /\ UNCHANGED <<port, data_fd>>

\* init_data_sock_params(): a descriptor that is still there is a bug().
Connected == post' = (IF data_fd THEN "oops" ELSE "transfer") /\ data_fd' = TRUE

\* With port_promiscuous the child connects by itself; a reserved port
\* makes it die() (Kill).
PickOwnPort ==
  /\ Reads("pick?", <<"no">>)
  /\ tunables.port_promiscuous
  /\ \/ Connected
     \/ post' = "clean" /\ UNCHANGED data_fd
  /\ Rest /\ UNCHANGED <<port, up>>

GotFd ==
  /\ \/ Reads("accept?", <<"OK", "fd">>)
     \/ Reads("sock?", <<"OK", "fd">>)
  /\ Connected
  /\ Rest /\ UNCHANGED <<port, up>>

GotNoFd ==
  /\ \/ Reads("accept?", <<"BAD", "error">>)
     \/ Reads("sock?", <<"BAD">>)
  /\ post' = "clean"
  /\ Rest /\ UNCHANGED <<port, data_fd, up>>

\* The transfer ends, one way or the other, and its descriptor is disposed.
TransferKeepsFd ==  \* mutant: data_fd is not reset
  /\ post = "transfer"
  /\ post' = "clean"
  /\ Rest /\ UNCHANGED <<port, data_fd, socks>>

Transfer ==
  /\ post = "transfer"
  /\ data_fd' = FALSE
  /\ post' = "clean"
  /\ Rest /\ UNCHANGED <<port, socks>>

\* port_pasv_cleanup_out.
CleanNoWait ==  \* mutant: the result of the cleanup is not read
  /\ post = "clean"
  /\ port' = FALSE
  /\ Ask("CLEANUP", "command")
  /\ Rest /\ UNCHANGED <<data_fd, down>>

Clean ==
  /\ post = "clean"
  /\ port' = FALSE
  /\ Ask("CLEANUP", "clean?")
  /\ Rest /\ UNCHANGED <<data_fd, down>>

Cleaned ==
  /\ Reads("clean?", <<"OK">>)
  /\ post' = "command"
  /\ Rest /\ UNCHANGED <<port, data_fd, up>>

Command == Pasv \/ Port \/ DataCommand

PostStep ==
  \/ PostHangup \/ PostEof \/ PasvClean \/ PasvListening \/ PortClean
  \/ CheckTransfer \/ OpenFails \/ OpenSucceeds \/ OpenChown \/ Chowned
  \/ GetTransferFd \/ CheckAgain \/ PickPasv \/ PickPort \/ PickOwnPort
  \/ GotFd \/ GotNoFd \/ Transfer \/ Clean \/ Cleaned

Next == Kill \/ Exited \/ Disconnect \/ Term \/ PreStep \/ ParentStep \/ Command \/ PostStep

\* Processes that can run do; nobody has to send a command, to connect, to
\* leave or to be killed.
Fairness ==
  /\ WF_vars(Exited) /\ WF_vars(ParentStep)
  /\ WF_vars(PreHangup) /\ WF_vars(LoginRefused) /\ WF_vars(LoginGranted) /\ WF_vars(PreEof)
  /\ WF_vars(PostStep)

Spec == Init /\ [][Next]_vars /\ Fairness

-----------------------------------------------------------------------------
(***************************************************************************)
(* Properties.                                                             *)
(***************************************************************************)

\* None of the bug() calls and of the die() calls about the protocol itself
\* is reached, whoever dies when: no request that does not fit the state of
\* the parent, passive and active mode never both (or neither) in force
\* where the code relies on one, no descriptor left from an earlier
\* transfer.
NoOops == ppc # "oops" /\ post # "oops"

\* Requests and replies stay in step: a child that awaits no reply has none
\* to come, so no reply is ever taken for the answer to a later request.
InStep ==
  /\ post \in PostWork \ PostWaits => down = <<>> /\ (ParentAlive => up = <<>> /\ req = "none")
  /\ pre = "command" => down = <<>> /\ (ParentAlive => up = <<>>)

\* Only one process reads the command connection: the session child does
\* not exist before the pre-login child is gone.
OneReader == ~(PreAlive /\ PostAlive)

\* A granted login leads to a session: the exit of the pre-login child,
\* which is what the SIGCHLD handler of the parent exits upon, is not taken
\* for the end of the session, however late the signal comes.
GrantedServed == granted /\ ppc = "sigchld" => post # "none"

\* Every request of the session is answered, or the session is over.
Answered == \A w \in PostWaits : post = w ~> post # w

\* SIGTERM takes the whole session down, also a child that waits for the
\* next command of an idle client, unless the parent ends for another
\* reason before it comes to its handler.
TermEnds ==
  ("TERM" \in pend) ~> (ppc = "dead" \/ (ppc = "termed" /\ ~PreAlive /\ ~PostAlive))

\* The two processes together behave as one (FtpSession).
Phase ==
  IF ~granted THEN IF PreAlive THEN "login" ELSE "ended"
  ELSE IF PostAlive \/ (post = "none" /\ ParentAlive) THEN "session" ELSE "ended"
ChosenMode ==
  IF Phase # "session" THEN "none"
  ELSE IF pasv_listen THEN "pasv" ELSE IF port THEN "port" ELSE "none"
InFlight == \E i \in DOMAIN down : down[i] = "fd"
DataOpen == Phase = "session" /\ (data_fd \/ InFlight)
Abstract == INSTANCE FtpSession WITH phase <- Phase, mode <- ChosenMode, data <- DataOpen

\* Messages, crashes and signals included, the parent and the child
\* implement a session in which logins are limited, modes are exclusive and
\* dropped before they are chosen anew, and data flows only in a mode.
ImplementsSession == Abstract!Spec
===============================================================================
