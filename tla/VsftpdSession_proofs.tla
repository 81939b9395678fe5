------------------------- MODULE VsftpdSession_proofs -------------------------
(***************************************************************************)
(* Proofs about VsftpdSession, for every limit of failed logins: whoever   *)
(* is killed whenever, parent and child stay in step (InStep), none of     *)
(* their protocol checks fails (NoOops), one process at a time reads the   *)
(* command connection (OneReader), a granted login is served               *)
(* (GrantedServed), and the processes implement FtpSession                 *)
(* (ImplementsSession).                                                    *)
(***************************************************************************)
EXTENDS VsftpdSession, SequenceTheorems, TLAPS

(***************************************************************************)
(* Which replies a child waits for in which state.                         *)
(***************************************************************************)
CleanWaits  == {"pasv-clean?", "port-clean?", "clean?"}
ActiveWaits == {"check?", "check-port?", "get?", "get-port?", "pick?"}

\* r is the request that a child in state w has sent.
Awaits(r, w) ==
  \/ r = "CLEANUP" /\ w \in CleanWaits
  \/ r = "ACTIVE" /\ w \in ActiveWaits
  \/ r = "LISTEN" /\ w = "listen?"
  \/ r = "ACCEPT" /\ w = "accept?"
  \/ r = "DATA_SOCK" /\ w = "sock?"
  \/ r = "CHOWN" /\ w = "chown?"

\* d is a reply to the request of a child in state w.
Replies(d, w) ==
  \/ d = <<"OK">> /\ w \in CleanWaits \cup {"chown?"}
  \/ d \in {<<"yes">>, <<"no">>} /\ w \in ActiveWaits
  \/ d = <<"port">> /\ w = "listen?"
  \/ d \in {<<"OK", "fd">>, <<"BAD", "error">>} /\ w = "accept?"
  \/ d \in {<<"OK", "fd">>, <<"BAD">>} /\ w = "sock?"

Over == {"dead", "termed"}

-----------------------------------------------------------------------------
(***************************************************************************)
(* The inductive invariant.                                                *)
(***************************************************************************)

\* Who is there when the parent is where it is.
Order ==
  /\ ppc \in {"login", "auth", "null", "grant"} => ~granted /\ post = "none" /\ pre # "reaped"
  /\ ppc = "wait" => granted /\ post = "none" /\ pre \in {"login?", "exiting", "zombie"}
  /\ ppc \in {"rewire", "fork"} => granted /\ post = "none" /\ pre = "reaped"
  /\ ppc \in {"serve", "work"} => granted /\ post # "none" /\ pre = "reaped"
  /\ post # "none" => granted /\ pre = "reaped"
  /\ pre = "reaped" => granted
  /\ pre = "command" => ~granted

\* The parent is told of the end of a child only when that is the end of the
\* session as well.
ChldOfSession ==
  /\ ppc \in {"login", "auth", "null", "fork", "serve", "work"} => on_chld = "exit"
  /\ ppc \in {"grant", "wait", "rewire"} => on_chld = "null"
  /\ "CHLD" \in pend \/ ppc = "sigchld" => (pre = "zombie" /\ ~granted) \/ post = "zombie"

\* Before the session: a login is in the socket pair, with the parent, or its
\* result is on its way back.
LoginExchange ==
  PreAlive =>
    \/ pre = "command" /\ up = <<>> /\ down = <<>> /\ ppc \in Over \cup {"login"}
    \/ /\ pre = "login?"
       /\ \/ up = <<"LOGIN">> /\ down = <<>> /\ ~granted /\ ppc \in Over \cup {"login"}
          \/ up = <<>> /\ down = <<>> /\ ~granted /\ ppc \in Over \cup {"auth", "null", "grant"}
          \/ up = <<>> /\ down = <<"BAD">> /\ ~granted /\ ppc \in Over \cup {"login"}
          \/ up = <<>> /\ down = <<"OK">> /\ granted /\ ppc \in Over \cup {"wait"}

\* What is left for the parent of a pre-login child that is gone.
LoginSent ==
  /\ ppc = "login" => up \in {<<>>, <<"LOGIN">>}
  /\ ppc \in {"auth", "null", "grant"} => up = <<>>
  /\ post = "none" => down \in {<<>>, <<"BAD">>, <<"OK">>}
  /\ ppc = "fork" => up = <<>> /\ down = <<>>

\* The child has counted every refusal it knows of, and the parent is asked
\* only below the limit.
LoginsCounted ==
  /\ PreAlive => /\ login_fails < MaxLoginFails
                 /\ attempts <= login_fails + (IF down = <<"BAD">> THEN 1 ELSE 0)
  /\ ppc = "login" /\ up # <<>> => attempts < MaxLoginFails
  /\ ppc \in {"auth", "null", "grant"} => attempts < MaxLoginFails

\* In the session: the request of a child that waits is in the socket pair,
\* with the parent, or answered; of one that does not wait there is none.
SessionExchange ==
  PostAlive =>
    \/ /\ post \notin PostWaits /\ up = <<>> /\ down = <<>> /\ req = "none"
       /\ ppc \in Over \cup {"serve"}
    \/ /\ post \in PostWaits
       /\ \/ /\ \E r \in Requests : up = <<r>> /\ Awaits(r, post)
             /\ down = <<>> /\ req = "none" /\ ppc \in Over \cup {"serve"}
          \/ up = <<>> /\ down = <<>> /\ Awaits(req, post) /\ ppc \in Over \cup {"work"}
          \/ up = <<>> /\ Replies(down, post) /\ req = "none" /\ ppc \in Over \cup {"serve"}

\* A request fits the state of the parent even when its sender is gone.
RequestsFit ==
  /\ ppc = "serve" => up = <<>> \/ \E r \in Requests : up = <<r>> /\ ~Unfit(r)
  /\ ppc = "work" => up = <<>> /\ req \in Requests \ {"LOGIN"}

\* What parent and child know of the mode, put together.
ModeKnown ==
  /\ post = "none" => ~pasv_listen /\ ~port /\ ~data_fd /\ req = "none"
  /\ pasv_listen => ppc \in {"serve", "work", "sigchld"}
  /\ PostAlive /\ pasv_listen => ~port
  /\ PostAlive /\ data_fd => post = "transfer"
  /\ post \in CleanWaits /\ down = <<"OK">> => ~pasv_listen
  /\ post = "listen?" => ~port /\ (down = <<>> => ~pasv_listen)
  /\ post = "chown?" => tunables.chown_uploads

\* Once a transfer has been found possible there is a mode, and the child has
\* the right idea which.
ModeChosen ==
  /\ post \in {"open", "chown?", "get", "get?", "get-port?", "pick?"} =>
       port \/ pasv_listen \/ ppc \in Over
  /\ post \in ActiveWaits /\ down = <<"yes">> => ~port /\ (pasv_listen \/ ppc \in Over)
  /\ post \in ActiveWaits /\ down = <<"no">> => ~pasv_listen
  /\ post \in {"get?", "pick?"} /\ down = <<"no">> => port
  /\ post \in {"check-port?", "get-port?"} => port
  /\ post = "accept?" => ~port /\ (pasv_listen \/ ppc \in Over)
  /\ post = "sock?" => port /\ ~pasv_listen

IInv ==
  /\ TypeOK /\ NoOops
  /\ Order /\ ChldOfSession
  /\ LoginExchange /\ LoginSent /\ LoginsCounted
  /\ SessionExchange /\ RequestsFit /\ ModeKnown /\ ModeChosen

-----------------------------------------------------------------------------
(***************************************************************************)
(* Messages.                                                               *)
(***************************************************************************)

\* Sending to an empty socket, and reading its only message.
LEMMA OneMessage ==
  ASSUME NEW x
  PROVE  /\ <<x>> # <<>> /\ Append(<<>>, x) = <<x>> /\ <<>> \o <<x>> = <<x>>
         /\ Head(<<x>>) = x /\ Tail(<<x>>) = <<>>
OBVIOUS

\* Messages of different length or content are different.
LEMMA Distinct ==
  ASSUME NEW x, NEW y, NEW v, NEW w
  PROVE  /\ <<x>> = <<y>> <=> x = y
         /\ <<x, v>> = <<y, w>> <=> x = y /\ v = w
         /\ <<x, v>> # <<>> /\ <<x, v>> # <<y>> /\ <<>> \o <<x, v>> = <<x, v>>
OBVIOUS

\* Reading one item leaves nothing of a reply of one item.
LEMMA ReadsOne ==
  ASSUME NEW w, NEW x, NEW y, Reads(w, <<x>>), down = <<y>>
  PROVE  x = y /\ down' = <<>>
<1>1. down \in Seq({y}) /\ Len(down) = 1 /\ Len(<<x>>) = 1
  OBVIOUS
<1>2. SubSeq(down, 1, 1) = down
  BY <1>1, SubSeqFull
<1>3. SubSeq(down, 2, 1) = <<>>
  BY <1>1, SubSeqEmpty
<1> QED
  BY <1>1, <1>2, <1>3 DEF Reads

\* An item that is read is the first one.
LEMMA ReadsFirst ==
  ASSUME NEW w, NEW x, NEW y, NEW z, Reads(w, <<x>>), down = <<y, z>>
  PROVE  x = y
<1>1. Len(down) = 2 /\ Len(<<x>>) = 1 /\ down[1] = y /\ <<x>>[1] = x
  OBVIOUS
<1>2. SubSeq(down, 1, 1)[1] = down[1]
  <2>1. \A i \in 1 .. 1 : down[i] \in {y, z}
    OBVIOUS
  <2> QED
    BY <2>1, SubSeqProperties
<1>3. SubSeq(down, 1, 1) = <<x>>
  <2>1. SubSeq(down, 1, Len(<<x>>)) = <<x>>
    BY DEF Reads
  <2> QED
    BY <1>1, <2>1
<1> QED
  BY <1>1, <1>2, <1>3

\* Reading two items needs a reply of two items and leaves nothing of it.
LEMMA ReadsTwo ==
  ASSUME NEW w, NEW x, NEW y, NEW u, NEW v, Reads(w, <<x, y>>)
  PROVE  /\ down = <<u, v>> => x = u /\ y = v /\ down' = <<>>
         /\ down # <<u>> /\ down # <<>>
<1>1. ASSUME down = <<u, v>>
      PROVE  x = u /\ y = v /\ down' = <<>>
  <2>1. down \in Seq({u, v}) /\ Len(down) = 2 /\ Len(<<x, y>>) = 2
    BY <1>1
  <2>2. SubSeq(down, 1, 2) = down
    BY <2>1, SubSeqFull
  <2>3. SubSeq(down, 3, 2) = <<>>
    BY <2>1, SubSeqEmpty
  <2> QED
    BY <1>1, <2>1, <2>2, <2>3 DEF Reads
<1>2. down # <<u>> /\ down # <<>>
  <2>1. Len(<<x, y>>) = 2 /\ Len(<<u>>) = 1 /\ Len(<<>>) = 0
    OBVIOUS
  <2>2. Len(<<x, y>>) <= Len(down)
    BY DEF Reads
  <2> QED
    BY <2>1, <2>2
<1> QED
  BY <1>1, <1>2

\* A child that reads a reply finds the reply to its own request, and all of
\* it.
LEMMA OwnReply ==
  ASSUME SessionExchange, NEW w \in PostWaits, NEW items, Reads(w, items),
         \/ \E x : items = <<x>> /\ w # "accept?" /\ (w = "sock?" => x = "BAD")
         \/ \E x, y : items = <<x, y>>
  PROVE  /\ post = w /\ down = items /\ down' = <<>> /\ Replies(items, w)
         /\ up = <<>> /\ req = "none" /\ ppc \in Over \cup {"serve"}
<1>1. post = w /\ PostAlive
  BY DEF Reads, PostAlive, PostWork
<1>2. down # <<>>
  <2>1. Len(items) > 0
    OBVIOUS
  <2> QED
    BY <2>1 DEF Reads
<1>3. Replies(down, w) /\ up = <<>> /\ req = "none" /\ ppc \in Over \cup {"serve"}
  BY <1>1, <1>2 DEF SessionExchange
<1>4. CASE \E x : items = <<x>> /\ w # "accept?" /\ (w = "sock?" => x = "BAD")
  <2>1. PICK x : items = <<x>> /\ w # "accept?" /\ (w = "sock?" => x = "BAD")
    BY <1>4
  <2>2. CASE \E y : down = <<y>>
    BY <1>1, <1>3, <2>1, <2>2, ReadsOne
  <2>3. CASE \E y, z : down = <<y, z>>
    <3>1. w = "sock?" /\ down = <<"OK", "fd">>
      BY <1>3, <2>1, <2>3, Distinct DEF Replies
    <3> QED
      BY <2>1, <3>1, ReadsFirst
  <2> QED
    BY <1>3, <2>2, <2>3 DEF Replies
<1>5. CASE \E x, y : items = <<x, y>>
  <2>1. PICK x, y : items = <<x, y>>
    BY <1>5
  <2>2. PICK u, v : down = <<u, v>>
    BY <1>3, <2>1, ReadsTwo DEF Replies
  <2>3. x = u /\ y = v /\ down' = <<>>
    BY <2>1, <2>2, ReadsTwo
  <2> QED
    BY <1>1, <1>3, <2>1, <2>2, <2>3
<1> QED
  BY <1>4, <1>5

-----------------------------------------------------------------------------
(***************************************************************************)
(* Invariance: a child that works, a child before the login, the parent.   *)
(***************************************************************************)
\* Where the socket pair holds sequences of the right kind.
LEMMA Messages ==
  /\ <<>> \in Seq(Requests) /\ Len(<<>>) = 0 /\ <<>> \in Seq(Items)
  /\ \A r \in Requests : <<r>> \in Seq(Requests) /\ Len(<<r>>) = 1
  /\ \A i \in Items : <<i>> \in Seq(Items) /\ Len(<<i>>) = 1
  /\ \A i, j \in Items : <<i, j>> \in Seq(Items) /\ Len(<<i, j>>) = 2
OBVIOUS

\* No step changes a flag into something that is not one.
LEMMA BooleansKept ==
  ASSUME Booleans, [Next]_vars
  PROVE  Booleans'
<1> USE DEF Booleans, vars, parent, prelog, session, socks, Rest, PreEnds, PostEnds, ParentEnds,
            Reads, Ask, Goes, PState
<1>1. CASE Kill \/ Exited \/ Disconnect \/ Term
  BY <1>1 DEF Kill, Exited, Disconnect, Term
<1>2. CASE PreStep
  BY <1>2 DEF PreStep, PreHangup, User, UserDenied, SendLogin, LoginRefused, LoginGranted, PreEof
<1>3. CASE ParentStep
  <2>1. CASE HandleTerm \/ HandleChld \/ ChildWaited \/ ParentEof
    BY <2>1 DEF HandleTerm, HandleChld, ChildWaited, ParentEof
  <2>2. CASE GetLogin \/ AuthRefuses \/ AuthAccepts \/ InstallNull \/ Wait \/ Rewire \/ Fork \/ GetRequest
    BY <2>2 DEF GetLogin, AuthRefuses, AuthAccepts, InstallNull, Wait, Rewire, Fork, GetRequest
  <2>3. CASE Grant
    BY <2>3 DEF Grant, PreAlive, PreWork
  <2>4. ASSUME NEW r, NEW items, NEW listening \in BOOLEAN, ReplyWith(r, items, listening)
        PROVE  Booleans'
    BY <2>4 DEF ReplyWith, PostAlive
  <2> QED
    BY <1>3, <2>1, <2>2, <2>3, <2>4 DEF ParentStep, ReplyCleanup, ReplyActive, ReplyListen,
       ReplyAccept, ReplyDataSock, ReplyChown
<1>4. CASE Command
  BY <1>4 DEF Command, Pasv, Port, DataCommand
<1>5. CASE PostStep
  <2>1. CASE PostHangup \/ PostEof \/ PasvClean \/ PasvListening \/ PortClean \/ OpenFails
    BY <2>1 DEF PostHangup, PostEof, PasvClean, PasvListening, PortClean, OpenFails
  <2>2. CASE CheckTransfer \/ CheckAgain
    BY <2>2 DEF CheckTransfer, CheckAgain, Active
  <2>3. CASE OpenSucceeds \/ OpenChown \/ Chowned \/ GetTransferFd \/ PickPasv \/ PickPort
    BY <2>3 DEF OpenSucceeds, OpenChown, Chowned, GetTransferFd, PickPasv, PickPort
  <2>4. CASE PickOwnPort \/ GotFd \/ GotNoFd \/ Transfer \/ Clean \/ Cleaned
    BY <2>4 DEF PickOwnPort, GotFd, Connected, GotNoFd, Transfer, Clean, Cleaned
  <2> QED
    BY <1>5, <2>1, <2>2, <2>3, <2>4 DEF PostStep
<1> QED
  BY <1>1, <1>2, <1>3, <1>4, <1>5 DEF Next

\* What the work of the session child does not touch.
LEMMA ChildFrame ==
  ASSUME IInv, PostAlive, Rest, post' \in PostWork
  PROVE  /\ Order' /\ ChldOfSession' /\ LoginExchange' /\ LoginSent' /\ LoginsCounted'
         /\ ppc' = ppc /\ req' = req /\ pasv_listen' = pasv_listen /\ tunables' = tunables
         /\ ppc \in {"serve", "work", "sigchld"} \cup Over
         /\ pre = "reaped" /\ pre' = pre
<1> USE DEF Rest, parent, prelog, PostAlive, PreAlive, PostWork, PostWaits, PreWork
<1>1. /\ ppc' = ppc /\ req' = req /\ pasv_listen' = pasv_listen /\ tunables' = tunables
      /\ ppc \in {"serve", "work", "sigchld"} \cup Over
      /\ pre = "reaped" /\ pre' = pre /\ post # "none" /\ post' # "none"
  BY DEF IInv, TypeOK, NoOops, Order, Over, ParentWork
<1>2. Order'
  BY <1>1 DEF IInv, Order
<1>3. ChldOfSession'
  BY <1>1 DEF IInv, ChldOfSession
<1>4. LoginExchange' /\ LoginSent' /\ LoginsCounted'
  BY <1>1 DEF LoginExchange, LoginSent, LoginsCounted, Over
<1> QED
  BY <1>1, <1>2, <1>3, <1>4

\* What the pre-login child does not touch.
LEMMA PreFrame ==
  ASSUME IInv, PreAlive, UNCHANGED <<parent, pend, session, tunables>>,
         pre' \in PreWork \cup {"exiting"}, pre' = "command" => ~granted
  PROVE  /\ Order' /\ ChldOfSession' /\ SessionExchange' /\ RequestsFit' /\ ModeKnown' /\ ModeChosen'
         /\ NoOops'
<1> USE DEF parent, session, PostAlive, PreAlive, PostWork, PostWaits, PreWork
<1>1. post = "none" /\ ppc \notin {"serve", "work", "rewire", "fork"} /\ pre # "zombie"
  BY DEF IInv, Order
<1>2. Order'
  BY <1>1 DEF IInv, Order
<1>3. ChldOfSession'
  BY <1>1 DEF IInv, ChldOfSession
<1>4. SessionExchange' /\ RequestsFit' /\ NoOops'
  BY <1>1 DEF IInv, NoOops, SessionExchange, RequestsFit
<1>5. ModeKnown' /\ ModeChosen'
  BY <1>1 DEF IInv, ModeKnown, ModeChosen, CleanWaits, ActiveWaits
<1> QED
  BY <1>2, <1>3, <1>4, <1>5

\* The session child is left with nothing to wait for.
LEMMA ChildIdles ==
  ASSUME IInv, PostAlive, Rest, Booleans', post' \in PostWork \ PostWaits, up' = <<>>, down' = <<>>,
         req = "none", ppc \in Over \cup {"serve"}, ModeKnown', ModeChosen'
  PROVE  IInv'
<1>1. post' \in PostWork
  OBVIOUS
<1>2. /\ Order' /\ ChldOfSession' /\ LoginExchange' /\ LoginSent' /\ LoginsCounted'
      /\ ppc' = ppc /\ req' = req /\ pasv_listen' = pasv_listen /\ tunables' = tunables
  BY <1>1, ChildFrame
<1>3. TypeOK' /\ NoOops'
  BY <1>2, Messages DEF IInv, TypeOK, NoOops, Rest, parent, prelog, PostWork, PostWaits
<1>4. SessionExchange' /\ RequestsFit'
  BY <1>2 DEF SessionExchange, RequestsFit, Over
<1> QED
  BY <1>2, <1>3, <1>4 DEF IInv

\* It has sent a request that fits the state of the parent.
LEMMA ChildAsks ==
  ASSUME IInv, PostAlive, Rest, Booleans', NEW r \in Requests, Awaits(r, post'), up' = <<r>>, down' = <<>>,
         req = "none", ppc \in Over \cup {"serve"}, ppc = "serve" => ~Unfit(r), ModeKnown', ModeChosen'
  PROVE  IInv'
<1>1. post' \in PostWaits /\ post' \in PostWork
  BY DEF Awaits, CleanWaits, ActiveWaits, PostWork, PostWaits
<1>2. /\ Order' /\ ChldOfSession' /\ LoginExchange' /\ LoginSent' /\ LoginsCounted'
      /\ ppc' = ppc /\ req' = req /\ pasv_listen' = pasv_listen /\ tunables' = tunables
  BY <1>1, ChildFrame
<1>3. TypeOK' /\ NoOops'
  BY <1>1, <1>2, Messages DEF IInv, TypeOK, NoOops, Rest, parent, prelog, PostWork, PostWaits
<1>4. SessionExchange'
  BY <1>1, <1>2 DEF SessionExchange
<1>5. RequestsFit'
  BY <1>2 DEF RequestsFit, Unfit, Over
<1> QED
  BY <1>2, <1>3, <1>4, <1>5 DEF IInv

\* The steps of the session child that is not about to end.
LEMMA ChildKeeps ==
  ASSUME IInv, Booleans',
         \/ Command \/ PasvClean \/ PasvListening \/ PortClean \/ CheckTransfer \/ OpenFails
         \/ OpenSucceeds \/ OpenChown \/ Chowned \/ GetTransferFd \/ CheckAgain \/ PickPasv
         \/ PickPort \/ PickOwnPort \/ GotFd \/ GotNoFd \/ Transfer \/ Clean \/ Cleaned
  PROVE  IInv'
<1> DEFINE Free == up = <<>> /\ req = "none" /\ ppc \in Over \cup {"serve"}
           Mode == ModeKnown /\ ModeChosen
<1> USE DEF PostWork, PostWaits
<1>1. ASSUME post \in PostWork \ PostWaits
      PROVE  PostAlive /\ Free /\ down = <<>>
  BY <1>1 DEF PostAlive, IInv, SessionExchange
<1>2. ASSUME NEW w \in PostWaits, NEW items, Reads(w, items),
             \/ \E x : items = <<x>> /\ w # "accept?" /\ (w = "sock?" => x = "BAD")
             \/ \E x, y : items = <<x, y>>
      PROVE  PostAlive /\ Free /\ post = w /\ down = items /\ down' = <<>> /\ Replies(items, w)
  BY <1>2, OwnReply DEF IInv, PostAlive
<1>3. ASSUME Free, PostAlive, Rest, post' \in PostWork \ PostWaits, up' = <<>>, down' = <<>>, Mode'
      PROVE  IInv'
  BY <1>3, ChildIdles
<1>4. ASSUME Free, PostAlive, Rest, NEW r \in Requests, NEW to, Ask(r, to), Awaits(r, to), ppc = "serve" => ~Unfit(r),
             down' = <<>>, Mode'
      PROVE  IInv'
  <2>1. up' = <<r>> /\ post' = to
    BY <1>4, OneMessage DEF Ask
  <2> QED
    BY <1>4, <2>1, ChildAsks
<1>5. ASSUME Rest
      PROVE  ppc' = ppc /\ req' = req /\ pasv_listen' = pasv_listen /\ tunables' = tunables
  BY <1>5 DEF Rest, parent
<1> USE DEF CleanWaits, ActiveWaits, Awaits, Requests, Over, ModeKnown, ModeChosen, PostAlive
<1>6. Mode
  BY DEF IInv
<1>7. CASE Pasv
  <2>1. PostAlive /\ Free /\ down = <<>> /\ Rest
    BY <1>1, <1>7 DEF Pasv
  <2>2. Ask("CLEANUP", "pasv-clean?") /\ down' = <<>> /\ (ppc = "serve" => ~Unfit("CLEANUP"))
    BY <1>7, <2>1 DEF Pasv, Unfit
  <2>3. Mode'
    BY <1>5, <1>6, <1>7, <2>1, <2>2, OneMessage DEF Pasv, Ask
  <2> QED
    BY <1>4, <2>1, <2>2, <2>3
<1>8. CASE Port
  <2>1. PostAlive /\ Free /\ down = <<>> /\ Rest
    BY <1>1, <1>8 DEF Port
  <2>2. Ask("CLEANUP", "port-clean?") /\ down' = <<>> /\ (ppc = "serve" => ~Unfit("CLEANUP"))
    BY <1>8, <2>1 DEF Port, Unfit
  <2>3. Mode'
    <3>1. port' => port
      BY <1>8 DEF Port
    <3>2. UNCHANGED data_fd
      BY <1>8 DEF Port
    <3>3. post = "command" /\ post' = "port-clean?"
      BY <1>8 DEF Port, Ask
    <3> QED
      BY <1>5, <1>6, <2>1, <2>2, <3>1, <3>2, <3>3, OneMessage
  <2> QED
    BY <1>4, <2>1, <2>2, <2>3
<1>9. CASE DataCommand
  <2>1. PostAlive /\ Free /\ down = <<>> /\ Rest
    BY <1>1, <1>9 DEF DataCommand
  <2>2. Ask("ACTIVE", "check?") /\ down' = <<>> /\ (ppc = "serve" => ~Unfit("ACTIVE"))
    BY <1>9, <2>1 DEF DataCommand, Unfit
  <2>3. Mode'
    BY <1>5, <1>6, <1>9, <2>1, <2>2, OneMessage DEF DataCommand, Ask
  <2> QED
    BY <1>4, <2>1, <2>2, <2>3
<1>10. CASE OpenFails
  <2>1. PostAlive /\ Free /\ down = <<>> /\ Rest
    BY <1>1, <1>10 DEF OpenFails
  <2>2. Mode'
    BY <1>5, <1>6, <1>10, <2>1, OneMessage DEF OpenFails, socks
  <2> QED
    BY <1>3, <1>10, <2>1, <2>2 DEF OpenFails, socks
<1>11. CASE OpenSucceeds
  <2>1. PostAlive /\ Free /\ down = <<>> /\ Rest
    BY <1>1, <1>11 DEF OpenSucceeds
  <2>2. Mode'
    BY <1>5, <1>6, <1>11, <2>1, OneMessage DEF OpenSucceeds, socks
  <2> QED
    BY <1>3, <1>11, <2>1, <2>2 DEF OpenSucceeds, socks
<1>12. CASE OpenChown
  <2>1. PostAlive /\ Free /\ down = <<>> /\ Rest
    BY <1>1, <1>12 DEF OpenChown
  <2>2. Ask("CHOWN", "chown?") /\ down' = <<>> /\ (ppc = "serve" => ~Unfit("CHOWN"))
    BY <1>12, <2>1 DEF OpenChown, Unfit
  <2>3. Mode'
    BY <1>5, <1>6, <1>12, <2>1, <2>2, OneMessage DEF OpenChown, Ask
  <2> QED
    BY <1>4, <2>1, <2>2, <2>3
<1>13. CASE GetTransferFd
  <2>1. PostAlive /\ Free /\ down = <<>> /\ Rest
    BY <1>1, <1>13 DEF GetTransferFd
  <2>2. Ask("ACTIVE", "get?") /\ down' = <<>> /\ (ppc = "serve" => ~Unfit("ACTIVE"))
    BY <1>13, <2>1 DEF GetTransferFd, Unfit
  <2>3. Mode'
    BY <1>5, <1>6, <1>13, <2>1, <2>2, OneMessage DEF GetTransferFd, Ask
  <2> QED
    BY <1>4, <2>1, <2>2, <2>3
<1>14. CASE Transfer
  <2>1. PostAlive /\ Free /\ down = <<>> /\ Rest
    BY <1>1, <1>14 DEF Transfer
  <2>2. Mode'
    BY <1>5, <1>6, <1>14, <2>1, OneMessage DEF Transfer, socks
  <2> QED
    BY <1>3, <1>14, <2>1, <2>2 DEF Transfer, socks
<1>15. CASE Clean
  <2>1. PostAlive /\ Free /\ down = <<>> /\ Rest
    BY <1>1, <1>15 DEF Clean
  <2>2. Ask("CLEANUP", "clean?") /\ down' = <<>> /\ (ppc = "serve" => ~Unfit("CLEANUP"))
    BY <1>15, <2>1 DEF Clean, Unfit
  <2>3. Mode'
    BY <1>5, <1>6, <1>15, <2>1, <2>2, OneMessage DEF Clean, Ask
  <2> QED
    BY <1>4, <2>1, <2>2, <2>3
<1>16. CASE PasvClean
  <2>1. PostAlive /\ Free /\ post = "pasv-clean?" /\ down = <<"OK">> /\ down' = <<>> /\ Rest
    <3>1. Reads("pasv-clean?", <<"OK">>) /\ Rest
      BY <1>16 DEF PasvClean
    <3> QED
      BY <1>2, <3>1
  <2>2. Ask("LISTEN", "listen?") /\ (ppc = "serve" => ~Unfit("LISTEN"))
    BY <1>6, <1>16, <2>1, Distinct DEF PasvClean, Unfit
  <2>3. Mode'
    BY <1>5, <1>6, <1>16, <2>1, <2>2, OneMessage, Distinct DEF PasvClean, Ask
  <2> QED
    BY <1>4, <2>1, <2>2, <2>3
<1>17. CASE PasvListening
  <2>1. PostAlive /\ Free /\ post = "listen?" /\ down = <<"port">> /\ down' = <<>> /\ Rest
    <3>1. Reads("listen?", <<"port">>) /\ Rest
      BY <1>17 DEF PasvListening
    <3> QED
      BY <1>2, <3>1
  <2>2. up' = <<>> /\ post' \in PostWork \ PostWaits
    BY <1>6, <1>17, <2>1 DEF PasvListening, Connected
  <2>3. Mode'
    BY <1>5, <1>6, <1>17, <2>1, <2>2, OneMessage, Distinct DEF PasvListening, Connected
  <2> QED
    BY <1>3, <2>1, <2>2, <2>3
<1>18. CASE PortClean
  <2>1. PostAlive /\ Free /\ post = "port-clean?" /\ down = <<"OK">> /\ down' = <<>> /\ Rest
    <3>1. Reads("port-clean?", <<"OK">>) /\ Rest
      BY <1>18 DEF PortClean
    <3> QED
      BY <1>2, <3>1
  <2>2. up' = <<>> /\ post' \in PostWork \ PostWaits
    BY <1>6, <1>18, <2>1 DEF PortClean, Connected
  <2>3. Mode'
    BY <1>5, <1>6, <1>18, <2>1, <2>2, OneMessage, Distinct DEF PortClean, Connected
  <2> QED
    BY <1>3, <2>1, <2>2, <2>3
<1>19. CASE Chowned
  <2>1. PostAlive /\ Free /\ post = "chown?" /\ down = <<"OK">> /\ down' = <<>> /\ Rest
    <3>1. Reads("chown?", <<"OK">>) /\ Rest
      BY <1>19 DEF Chowned
    <3> QED
      BY <1>2, <3>1
  <2>2. up' = <<>> /\ post' \in PostWork \ PostWaits
    BY <1>6, <1>19, <2>1 DEF Chowned, Connected
  <2>3. Mode'
    BY <1>5, <1>6, <1>19, <2>1, <2>2, OneMessage, Distinct DEF Chowned, Connected
  <2> QED
    BY <1>3, <2>1, <2>2, <2>3
<1>20. CASE PickPasv
  <2>1. PostAlive /\ Free /\ post = "pick?" /\ down = <<"yes">> /\ down' = <<>> /\ Rest
    <3>1. Reads("pick?", <<"yes">>) /\ Rest
      BY <1>20 DEF PickPasv
    <3> QED
      BY <1>2, <3>1
  <2>2. Ask("ACCEPT", "accept?") /\ (ppc = "serve" => ~Unfit("ACCEPT"))
    BY <1>6, <1>20, <2>1, Distinct DEF PickPasv, Unfit
  <2>3. Mode'
    BY <1>5, <1>6, <1>20, <2>1, <2>2, OneMessage, Distinct DEF PickPasv, Ask
  <2> QED
    BY <1>4, <2>1, <2>2, <2>3
<1>21. CASE PickPort
  <2>1. PostAlive /\ Free /\ post = "pick?" /\ down = <<"no">> /\ down' = <<>> /\ Rest
    <3>1. Reads("pick?", <<"no">>) /\ Rest
      BY <1>21 DEF PickPort
    <3> QED
      BY <1>2, <3>1
  <2>2. Ask("DATA_SOCK", "sock?") /\ (ppc = "serve" => ~Unfit("DATA_SOCK"))
    BY <1>6, <1>21, <2>1, Distinct DEF PickPort, Unfit
  <2>3. Mode'
    BY <1>5, <1>6, <1>21, <2>1, <2>2, OneMessage, Distinct DEF PickPort, Ask
  <2> QED
    BY <1>4, <2>1, <2>2, <2>3
<1>22. CASE PickOwnPort
  <2>1. PostAlive /\ Free /\ post = "pick?" /\ down = <<"no">> /\ down' = <<>> /\ Rest
    <3>1. Reads("pick?", <<"no">>) /\ Rest
      BY <1>22 DEF PickOwnPort
    <3> QED
      BY <1>2, <3>1
  <2>2. up' = <<>> /\ post' \in PostWork \ PostWaits
    BY <1>6, <1>22, <2>1 DEF PickOwnPort, Connected
  <2>3. Mode'
    BY <1>5, <1>6, <1>22, <2>1, <2>2, OneMessage, Distinct DEF PickOwnPort, Connected
  <2> QED
    BY <1>3, <2>1, <2>2, <2>3
<1>23. CASE Cleaned
  <2>1. PostAlive /\ Free /\ post = "clean?" /\ down = <<"OK">> /\ down' = <<>> /\ Rest
    <3>1. Reads("clean?", <<"OK">>) /\ Rest
      BY <1>23 DEF Cleaned
    <3> QED
      BY <1>2, <3>1
  <2>2. up' = <<>> /\ post' \in PostWork \ PostWaits
    BY <1>6, <1>23, <2>1 DEF Cleaned, Connected
  <2>3. Mode'
    BY <1>5, <1>6, <1>23, <2>1, <2>2, OneMessage, Distinct DEF Cleaned, Connected
  <2> QED
    BY <1>3, <2>1, <2>2, <2>3
<1>24. CASE GotFd
  <2>1. PostAlive /\ Free /\ post \in {"accept?", "sock?"} /\ down' = <<>> /\ Rest
    <3>1. CASE Reads("accept?", <<"OK", "fd">>)
      BY <1>2, <1>24, <3>1 DEF GotFd
    <3>2. CASE Reads("sock?", <<"OK", "fd">>)
      BY <1>2, <1>24, <3>2 DEF GotFd
    <3> QED
      BY <1>24, <3>1, <3>2 DEF GotFd
  <2>2. up' = <<>> /\ post' \in PostWork \ PostWaits
    BY <1>6, <1>24, <2>1 DEF GotFd, Connected
  <2>3. Mode'
    BY <1>5, <1>6, <1>24, <2>1, <2>2, OneMessage DEF GotFd, Connected
  <2> QED
    BY <1>3, <2>1, <2>2, <2>3
<1>25. CASE GotNoFd
  <2>1. PostAlive /\ Free /\ post \in {"accept?", "sock?"} /\ down' = <<>> /\ Rest
    <3>1. CASE Reads("accept?", <<"BAD", "error">>)
      BY <1>2, <1>25, <3>1 DEF GotNoFd
    <3>2. CASE Reads("sock?", <<"BAD">>)
      BY <1>2, <1>25, <3>2 DEF GotNoFd
    <3> QED
      BY <1>25, <3>1, <3>2 DEF GotNoFd
  <2>2. up' = <<>> /\ post' \in PostWork \ PostWaits
    BY <1>6, <1>25, <2>1 DEF GotNoFd, Connected
  <2>3. Mode'
    BY <1>5, <1>6, <1>25, <2>1, <2>2, OneMessage DEF GotNoFd, Connected
  <2> QED
    BY <1>3, <2>1, <2>2, <2>3
<1>26. CASE CheckTransfer
  <2>1. PICK pasv \in {"yes", "no"} :
          \/ /\ Reads("check?", <<pasv>>)
             /\ CASE pasv = "yes" /\ port  -> Goes("oops")
                  [] pasv = "no"  /\ port  -> Ask("ACTIVE", "check-port?")
                  [] pasv = "yes" /\ ~port -> Goes("open")
                  [] pasv = "no"  /\ ~port -> Goes("command")
          \/ /\ Reads("check-port?", <<pasv>>)
             /\ IF pasv = "yes" THEN Goes("oops") ELSE Goes("open")
    BY <1>26 DEF CheckTransfer, Active
  <2>2. PostAlive /\ Free /\ post \in {"check?", "check-port?"} /\ down = <<pasv>> /\ down' = <<>>
    <3>1. CASE Reads("check?", <<pasv>>)
      BY <1>2, <3>1
    <3>2. CASE Reads("check-port?", <<pasv>>)
      BY <1>2, <3>2
    <3> QED
      BY <2>1, <3>1, <3>2
  <2>3. Rest /\ UNCHANGED <<port, data_fd>>
    BY <1>26 DEF CheckTransfer, Active
  <2>4. CASE post = "check?" /\ pasv = "yes"
    <3>1. ~port /\ Goes("open")
      BY <1>6, <2>1, <2>2, <2>4 DEF Reads
    <3>2. Mode'
      BY <1>5, <1>6, <2>2, <2>3, <2>4, <3>1, OneMessage, Distinct DEF Goes
    <3> QED
      BY <1>3, <2>2, <2>3, <3>1, <3>2 DEF Goes
  <2>5. CASE post = "check?" /\ pasv = "no" /\ port
    <3>1. Ask("ACTIVE", "check-port?")
      BY <2>1, <2>2, <2>5 DEF Reads
    <3>2. Mode'
      BY <1>5, <1>6, <2>2, <2>3, <2>5, <3>1, OneMessage, Distinct DEF Ask
    <3> QED
      BY <1>4, <2>2, <2>3, <3>1, <3>2 DEF Unfit
  <2>6. CASE post = "check?" /\ pasv = "no" /\ ~port
    <3>1. Goes("command")
      BY <2>1, <2>2, <2>6 DEF Reads
    <3>2. Mode'
      BY <1>5, <1>6, <2>2, <2>3, <2>6, <3>1, OneMessage, Distinct DEF Goes
    <3> QED
      BY <1>3, <2>2, <2>3, <3>1, <3>2 DEF Goes
  <2>7. CASE post = "check-port?"
    <3>1. port /\ pasv = "no" /\ Goes("open")
      BY <1>6, <2>1, <2>2, <2>7, Distinct DEF Reads
    <3>2. Mode'
      BY <1>5, <1>6, <2>2, <2>3, <2>7, <3>1, OneMessage, Distinct DEF Goes
    <3> QED
      BY <1>3, <2>2, <2>3, <3>1, <3>2 DEF Goes
  <2> QED
    BY <2>2, <2>4, <2>5, <2>6, <2>7
<1>27. CASE CheckAgain
  <2>1. PICK pasv \in {"yes", "no"} :
          \/ /\ Reads("get?", <<pasv>>)
             /\ CASE pasv = "yes" /\ port  -> Goes("oops")
                  [] pasv = "no"  /\ port  -> Ask("ACTIVE", "get-port?")
                  [] pasv = "yes" /\ ~port -> Ask("ACTIVE", "pick?")
                  [] pasv = "no"  /\ ~port -> Goes("oops")
          \/ /\ Reads("get-port?", <<pasv>>)
             /\ IF pasv = "yes" THEN Goes("oops") ELSE Ask("ACTIVE", "pick?")
    BY <1>27 DEF CheckAgain, Active
  <2>2. PostAlive /\ Free /\ post \in {"get?", "get-port?"} /\ down = <<pasv>> /\ down' = <<>>
    <3>1. CASE Reads("get?", <<pasv>>)
      BY <1>2, <3>1
    <3>2. CASE Reads("get-port?", <<pasv>>)
      BY <1>2, <3>2
    <3> QED
      BY <2>1, <3>1, <3>2
  <2>3. Rest /\ UNCHANGED <<port, data_fd>>
    BY <1>27 DEF CheckAgain, Active
  <2>4. CASE post = "get?" /\ pasv = "yes"
    <3>1. ~port /\ Ask("ACTIVE", "pick?")
      BY <1>6, <2>1, <2>2, <2>4 DEF Reads
    <3>2. Mode'
      BY <1>5, <1>6, <2>2, <2>3, <2>4, <3>1, OneMessage, Distinct DEF Ask
    <3> QED
      BY <1>4, <2>2, <2>3, <3>1, <3>2 DEF Unfit
  <2>5. CASE post = "get?" /\ pasv = "no" /\ port
    <3>1. Ask("ACTIVE", "get-port?")
      BY <2>1, <2>2, <2>5 DEF Reads
    <3>2. Mode'
      BY <1>5, <1>6, <2>2, <2>3, <2>5, <3>1, OneMessage, Distinct DEF Ask
    <3> QED
      BY <1>4, <2>2, <2>3, <3>1, <3>2 DEF Unfit
  <2>6. CASE post = "get?" /\ pasv = "no" /\ ~port
    BY <1>6, <2>2, <2>6, Distinct
  <2>7. CASE post = "get-port?"
    <3>1. port /\ pasv = "no" /\ Ask("ACTIVE", "pick?")
      BY <1>6, <2>1, <2>2, <2>7, Distinct DEF Reads
    <3>2. Mode'
      BY <1>5, <1>6, <2>2, <2>3, <2>7, <3>1, OneMessage, Distinct DEF Ask
    <3> QED
      BY <1>4, <2>2, <2>3, <3>1, <3>2 DEF Unfit
  <2> QED
    BY <2>2, <2>4, <2>5, <2>6, <2>7
<1> QED
  BY <1>7, <1>8, <1>9, <1>10, <1>11, <1>12, <1>13, <1>14, <1>15, <1>16, <1>17, <1>18, <1>19, <1>20,
      <1>21, <1>22, <1>23, <1>24, <1>25, <1>26, <1>27 DEF Command

\* The steps of the pre-login child, its end aside.
LEMMA PreKeeps ==
  ASSUME IInv, Booleans', User \/ UserDenied \/ SendLogin \/ LoginRefused \/ LoginGranted
  PROVE  IInv'
<1> USE MaxLoginFailsAssumption DEF PreAlive, PreWork
<1>1. PreAlive /\ UNCHANGED <<parent, pend, session, tunables>>
  BY DEF User, UserDenied, SendLogin, LoginRefused, LoginGranted
<1>2. ASSUME pre' \in PreWork \cup {"exiting"}, pre' = "command" => ~granted,
             login_fails' \in 0 .. MaxLoginFails, conn' \in {"open", "shut"},
             up' \in Seq(Requests), Len(up') <= 1, down' \in Seq(Items), Len(down') <= 2,
             LoginExchange', LoginSent', LoginsCounted'
      PROVE  IInv'
  <2>1. TypeOK'
    BY <1>1, <1>2 DEF IInv, TypeOK, parent, session, Gone
  <2> QED
    BY <1>1, <1>2, <2>1, PreFrame DEF IInv
<1>3. login_fails < MaxLoginFails /\ login_fails + 1 \in 0 .. MaxLoginFails
  BY <1>1 DEF IInv, TypeOK, LoginsCounted
<1> USE DEF LoginExchange, LoginSent, LoginsCounted, IInv, TypeOK, Order, Over, parent
<1>4. CASE User
  BY <1>2, <1>4 DEF User, socks, session
<1>5. CASE UserDenied
  <2>1. up = <<>> /\ down = <<>> /\ ~granted /\ UNCHANGED socks
    BY <1>5 DEF UserDenied
  <2> QED
    BY <1>1, <1>2, <1>3, <1>5, <2>1, OneMessage DEF UserDenied, LoginFailed, socks, session
<1>6. CASE SendLogin
  <2>1. up = <<>> /\ down = <<>> /\ ~granted /\ up' = <<"LOGIN">> /\ down' = <<>> /\ pre' = "login?"
    BY <1>6, OneMessage DEF SendLogin
  <2>2. LoginExchange' /\ LoginSent' /\ LoginsCounted'
    BY <1>1, <1>6, <2>1, OneMessage DEF SendLogin, session
  <2> QED
    BY <1>2, <1>6, <2>1, <2>2, Messages DEF SendLogin, Requests
<1>7. CASE LoginRefused
  <2>1. up = <<>> /\ down = <<"BAD">> /\ ~granted /\ up' = <<>> /\ down' = <<>> /\ ppc \in Over \cup {"login"}
    BY <1>7, OneMessage DEF LoginRefused
  <2>2. pre' \in {"command", "exiting"} /\ login_fails' = login_fails + 1 /\ conn' \in {"open", "shut"}
    BY <1>7 DEF LoginRefused, LoginFailed
  <2>3. LoginExchange' /\ LoginSent' /\ LoginsCounted'
    BY <1>1, <1>3, <1>7, <2>1, <2>2, OneMessage DEF LoginRefused, LoginFailed, session
  <2> QED
    BY <1>2, <1>3, <2>1, <2>2, <2>3, Messages
<1>8. CASE LoginGranted
  <2>1. up = <<>> /\ down = <<"OK">> /\ granted /\ up' = <<>> /\ down' = <<>> /\ pre' = "exiting"
    BY <1>8, OneMessage DEF LoginGranted
  <2>2. LoginExchange' /\ LoginSent' /\ LoginsCounted'
    BY <1>1, <1>8, <2>1, OneMessage DEF LoginGranted, session
  <2> QED
    BY <1>2, <1>8, <2>1, <2>2, Messages DEF LoginGranted
<1> QED
  BY <1>4, <1>5, <1>6, <1>7, <1>8

\* A child ends, and later its exit is noted.
LEMMA ChildEnds ==
  ASSUME IInv, Booleans', (PreAlive /\ PreEnds) \/ (PostAlive /\ PostEnds) \/ Exited
  PROVE  IInv'
<1> USE DEF PreAlive, PostAlive, PreWork, PostWork, PostWaits, parent, prelog, session, socks, Gone
<1>1. CASE PreAlive /\ PreEnds
  <2>1. TypeOK' /\ LoginExchange' /\ LoginSent' /\ LoginsCounted'
    BY <1>1 DEF IInv, TypeOK, PreEnds, LoginExchange, LoginSent, LoginsCounted
  <2>2. UNCHANGED <<parent, pend, session, tunables>> /\ pre' = "exiting"
    BY <1>1 DEF PreEnds
  <2> QED
    BY <1>1, <2>1, <2>2, PreFrame DEF IInv
<1>2. CASE PostAlive /\ PostEnds
  <2>1. TypeOK' /\ NoOops' /\ Order' /\ ChldOfSession'
    BY <1>2 DEF IInv, TypeOK, NoOops, Order, ChldOfSession, PostEnds
  <2>2. LoginExchange' /\ LoginSent' /\ LoginsCounted'
    BY <1>2 DEF IInv, LoginExchange, LoginSent, LoginsCounted, PostEnds
  <2>3. SessionExchange' /\ RequestsFit'
    BY <1>2 DEF IInv, SessionExchange, RequestsFit, Unfit, PostEnds
  <2>4. ModeKnown' /\ ModeChosen'
    BY <1>2 DEF IInv, ModeKnown, ModeChosen, CleanWaits, ActiveWaits, PostEnds
  <2> QED
    BY <2>1, <2>2, <2>3, <2>4 DEF IInv
<1>3. CASE Exited
  <2>1. TypeOK' /\ NoOops'
    BY <1>3 DEF IInv, TypeOK, NoOops, Exited, NoteChld
  <2>2. Order'
    BY <1>3 DEF IInv, TypeOK, Order, Exited
  <2>3. ChldOfSession'
    BY <1>3 DEF IInv, TypeOK, Order, ChldOfSession, Exited, NoteChld, ParentAlive, ParentWork
  <2>4. LoginExchange' /\ LoginSent' /\ LoginsCounted'
    BY <1>3 DEF IInv, LoginExchange, LoginSent, LoginsCounted, Exited
  <2>5. SessionExchange' /\ RequestsFit'
    BY <1>3 DEF IInv, SessionExchange, RequestsFit, Unfit, Exited
  <2>6. ModeKnown' /\ ModeChosen'
    BY <1>3 DEF IInv, ModeKnown, ModeChosen, CleanWaits, ActiveWaits, Exited
  <2> QED
    BY <2>1, <2>2, <2>3, <2>4, <2>5, <2>6 DEF IInv
<1> QED
  BY <1>1, <1>2, <1>3

\* The end of the parent, whatever it was doing.
LEMMA ParentGone ==
  ASSUME IInv, Booleans', ppc' \in Over, pasv_listen' = FALSE, pend' = {}, conn' \in {conn, "shut"},
         UNCHANGED <<req, on_chld, attempts, granted, prelog, session, socks, tunables>>
  PROVE  IInv'
<1> USE DEF PreAlive, PostAlive, PreWork, PostWork, PostWaits, prelog, session, socks, Over, IInv
<1>1. TypeOK' /\ NoOops'
  BY DEF TypeOK, NoOops
<1>2. Order' /\ ChldOfSession'
  BY DEF Order, ChldOfSession
<1>3. LoginExchange' /\ LoginSent' /\ LoginsCounted'
  BY DEF LoginExchange, LoginSent, LoginsCounted
<1>4. SessionExchange' /\ RequestsFit'
  BY DEF SessionExchange, RequestsFit
<1>5. ModeKnown' /\ ModeChosen'
  BY DEF ModeKnown, ModeChosen, CleanWaits, ActiveWaits
<1> QED
  BY <1>1, <1>2, <1>3, <1>4, <1>5

\* The parent before the session.
LEMMA LoginKeeps ==
  ASSUME IInv, Booleans',
         \/ HandleChld \/ GetLogin \/ AuthRefuses \/ AuthAccepts \/ InstallNull \/ Grant \/ Wait
         \/ Rewire \/ Fork
  PROVE  IInv'
<1> USE MaxLoginFailsAssumption
    DEF PreAlive, PostAlive, PreWork, PostWork, PostWaits, prelog, session, socks, Over, Gone,
    PState
<1> DEFINE Login == LoginExchange /\ LoginSent /\ LoginsCounted
           Session == SessionExchange /\ RequestsFit /\ ModeKnown /\ ModeChosen
<1>1. ASSUME TypeOK', NoOops', Order', ChldOfSession', Login', Session'
      PROVE  IInv'
  BY <1>1 DEF IInv
<1>2. CASE HandleChld
  <2>2. TypeOK' /\ NoOops'
    BY <1>2, Messages DEF IInv, TypeOK, NoOops, ParentWork, Items, HandleChld
  <2>3. Order'
    BY <1>2 DEF IInv, TypeOK, Order, ChldOfSession, HandleChld
  <2>4. ChldOfSession'
    BY <1>2 DEF IInv, TypeOK, Order, ChldOfSession, HandleChld
  <2>5. Login'
    BY <1>2, OneMessage, Distinct DEF IInv, TypeOK, Order, ChldOfSession, LoginExchange, LoginSent,
        LoginsCounted, HandleChld
  <2>6. SessionExchange' /\ RequestsFit'
    BY <1>2 DEF IInv, TypeOK, Order, ChldOfSession, LoginSent, ModeKnown, SessionExchange,
        RequestsFit, Unfit, HandleChld
  <2>7. ModeKnown' /\ ModeChosen'
    BY <1>2 DEF IInv, TypeOK, Order, ChldOfSession, ModeKnown, ModeChosen, CleanWaits, ActiveWaits,
        HandleChld
  <2> QED
    BY <1>1, <2>2, <2>3, <2>4, <2>5, <2>6, <2>7
<1>3. CASE GetLogin
  <2>1. /\ up = <<"LOGIN">> /\ (PreAlive => down = <<>>) /\ ~granted /\ up' = <<>> /\ ppc' = "auth"
        /\ down' = down /\ (PreAlive => pre = "login?")
    BY <1>3, OneMessage, Distinct DEF GetLogin, IInv, LoginSent, LoginExchange, Order
  <2>2. TypeOK' /\ NoOops'
    BY <1>3, <2>1, Messages DEF IInv, TypeOK, NoOops, ParentWork, Items, GetLogin
  <2>3. Order'
    BY <1>3, <2>1 DEF IInv, TypeOK, Order, ChldOfSession, GetLogin
  <2>4. ChldOfSession'
    BY <1>3, <2>1 DEF IInv, TypeOK, Order, ChldOfSession, GetLogin
  <2>5. Login'
    BY <1>3, <2>1, OneMessage, Distinct DEF IInv, TypeOK, Order, ChldOfSession, LoginExchange,
        LoginSent, LoginsCounted, GetLogin
  <2>6. SessionExchange' /\ RequestsFit'
    BY <1>3, <2>1 DEF IInv, TypeOK, Order, ChldOfSession, LoginSent, ModeKnown, SessionExchange,
        RequestsFit, Unfit, GetLogin
  <2>7. ModeKnown' /\ ModeChosen'
    BY <1>3, <2>1 DEF IInv, TypeOK, Order, ChldOfSession, ModeKnown, ModeChosen, CleanWaits,
        ActiveWaits, GetLogin
  <2> QED
    BY <1>1, <2>2, <2>3, <2>4, <2>5, <2>6, <2>7
<1>4. CASE AuthRefuses
  <2>1. /\ up = <<>> /\ ~granted /\ attempts < MaxLoginFails /\ ppc' \in {"login", "dead"}
        /\ (PreAlive => pre = "login?" /\ down = <<>> /\ down' = <<"BAD">> /\ ppc' = "login")
        /\ (~PreAlive => ppc' = "dead" /\ down' = down)
    <3>1. up = <<>> /\ ~granted /\ (PreAlive => pre = "login?" /\ down = <<>>)
      BY <1>4, OneMessage DEF AuthRefuses, IInv, LoginSent, LoginExchange, Order
    <3>2. CASE PreAlive
      BY <1>4, <3>1, <3>2, OneMessage DEF AuthRefuses, IInv, LoginsCounted
    <3>3. CASE ~PreAlive
      BY <1>4, <3>1, <3>3 DEF AuthRefuses, IInv, LoginsCounted
    <3> QED
      BY <3>1, <3>2, <3>3
  <2>2. TypeOK' /\ NoOops'
    BY <1>4, <2>1, Messages DEF IInv, TypeOK, NoOops, ParentWork, Items, AuthRefuses
  <2>3. Order'
    BY <1>4, <2>1 DEF IInv, TypeOK, Order, ChldOfSession, AuthRefuses
  <2>4. ChldOfSession'
    BY <1>4, <2>1 DEF IInv, TypeOK, Order, ChldOfSession, AuthRefuses
  <2>5. Login'
    BY <1>4, <2>1, OneMessage, Distinct DEF IInv, TypeOK, Order, ChldOfSession, LoginExchange,
        LoginSent, LoginsCounted, AuthRefuses
  <2>6. SessionExchange' /\ RequestsFit'
    BY <1>4, <2>1 DEF IInv, TypeOK, Order, ChldOfSession, LoginSent, ModeKnown, SessionExchange,
        RequestsFit, Unfit, AuthRefuses
  <2>7. ModeKnown' /\ ModeChosen'
    BY <1>4, <2>1 DEF IInv, TypeOK, Order, ChldOfSession, ModeKnown, ModeChosen, CleanWaits,
        ActiveWaits, AuthRefuses
  <2> QED
    BY <1>1, <2>2, <2>3, <2>4, <2>5, <2>6, <2>7
<1>5. CASE AuthAccepts
  <2>2. TypeOK' /\ NoOops'
    BY <1>5, Messages DEF IInv, TypeOK, NoOops, ParentWork, Items, AuthAccepts
  <2>3. Order'
    BY <1>5 DEF IInv, TypeOK, Order, ChldOfSession, AuthAccepts
  <2>4. ChldOfSession'
    BY <1>5 DEF IInv, TypeOK, Order, ChldOfSession, AuthAccepts
  <2>5. Login'
    BY <1>5, OneMessage, Distinct DEF IInv, TypeOK, Order, ChldOfSession, LoginExchange, LoginSent,
        LoginsCounted, AuthAccepts
  <2>6. SessionExchange' /\ RequestsFit'
    BY <1>5 DEF IInv, TypeOK, Order, ChldOfSession, LoginSent, ModeKnown, SessionExchange,
        RequestsFit, Unfit, AuthAccepts
  <2>7. ModeKnown' /\ ModeChosen'
    BY <1>5 DEF IInv, TypeOK, Order, ChldOfSession, ModeKnown, ModeChosen, CleanWaits, ActiveWaits,
        AuthAccepts
  <2> QED
    BY <1>1, <2>2, <2>3, <2>4, <2>5, <2>6, <2>7
<1>6. CASE InstallNull
  <2>2. TypeOK' /\ NoOops'
    BY <1>6, Messages DEF IInv, TypeOK, NoOops, ParentWork, Items, InstallNull
  <2>3. Order'
    BY <1>6 DEF IInv, TypeOK, Order, ChldOfSession, InstallNull
  <2>4. ChldOfSession'
    BY <1>6 DEF IInv, TypeOK, Order, ChldOfSession, InstallNull
  <2>5. Login'
    BY <1>6, OneMessage, Distinct DEF IInv, TypeOK, Order, ChldOfSession, LoginExchange, LoginSent,
        LoginsCounted, InstallNull
  <2>6. SessionExchange' /\ RequestsFit'
    BY <1>6 DEF IInv, TypeOK, Order, ChldOfSession, LoginSent, ModeKnown, SessionExchange,
        RequestsFit, Unfit, InstallNull
  <2>7. ModeKnown' /\ ModeChosen'
    BY <1>6 DEF IInv, TypeOK, Order, ChldOfSession, ModeKnown, ModeChosen, CleanWaits, ActiveWaits,
        InstallNull
  <2> QED
    BY <1>1, <2>2, <2>3, <2>4, <2>5, <2>6, <2>7
<1>7. CASE Grant
  <2>1. /\ up = <<>> /\ ~granted /\ ppc' \in {"wait", "dead"}
        /\ (PreAlive => pre = "login?" /\ down = <<>> /\ down' = <<"OK">> /\ ppc' = "wait" /\ granted')
        /\ (~PreAlive => ppc' = "dead" /\ down' = down /\ ~granted')
    <3>1. up = <<>> /\ ~granted /\ (PreAlive => pre = "login?" /\ down = <<>>)
      BY <1>7, OneMessage DEF Grant, IInv, LoginSent, LoginExchange, Order
    <3>2. CASE PreAlive
      BY <1>7, <3>1, <3>2, OneMessage DEF Grant, IInv, LoginsCounted
    <3>3. CASE ~PreAlive
      BY <1>7, <3>1, <3>3 DEF Grant, IInv, LoginsCounted
    <3> QED
      BY <3>1, <3>2, <3>3
  <2>2. TypeOK' /\ NoOops'
    BY <1>7, <2>1, Messages DEF IInv, TypeOK, NoOops, ParentWork, Items, Grant
  <2>3. Order'
    BY <1>7, <2>1 DEF IInv, TypeOK, Order, ChldOfSession, Grant
  <2>4. ChldOfSession'
    BY <1>7, <2>1 DEF IInv, TypeOK, Order, ChldOfSession, Grant
  <2>5. Login'
    BY <1>7, <2>1, OneMessage, Distinct DEF IInv, TypeOK, Order, ChldOfSession, LoginExchange,
        LoginSent, LoginsCounted, Grant
  <2>6. SessionExchange' /\ RequestsFit'
    BY <1>7, <2>1 DEF IInv, TypeOK, Order, ChldOfSession, LoginSent, ModeKnown, SessionExchange,
        RequestsFit, Unfit, Grant
  <2>7. ModeKnown' /\ ModeChosen'
    BY <1>7, <2>1 DEF IInv, TypeOK, Order, ChldOfSession, ModeKnown, ModeChosen, CleanWaits,
        ActiveWaits, Grant
  <2> QED
    BY <1>1, <2>2, <2>3, <2>4, <2>5, <2>6, <2>7
<1>8. CASE Wait
  <2>2. TypeOK' /\ NoOops'
    BY <1>8, Messages DEF IInv, TypeOK, NoOops, ParentWork, Items, Wait
  <2>3. Order'
    BY <1>8 DEF IInv, TypeOK, Order, ChldOfSession, Wait
  <2>4. ChldOfSession'
    BY <1>8 DEF IInv, TypeOK, Order, ChldOfSession, Wait
  <2>5. Login'
    BY <1>8, OneMessage, Distinct DEF IInv, TypeOK, Order, ChldOfSession, LoginExchange, LoginSent,
        LoginsCounted, Wait
  <2>6. SessionExchange' /\ RequestsFit'
    BY <1>8 DEF IInv, TypeOK, Order, ChldOfSession, LoginSent, ModeKnown, SessionExchange,
        RequestsFit, Unfit, Wait
  <2>7. ModeKnown' /\ ModeChosen'
    BY <1>8 DEF IInv, TypeOK, Order, ChldOfSession, ModeKnown, ModeChosen, CleanWaits, ActiveWaits,
        Wait
  <2> QED
    BY <1>1, <2>2, <2>3, <2>4, <2>5, <2>6, <2>7
<1>9. CASE Rewire
  <2>2. TypeOK' /\ NoOops'
    BY <1>9, Messages DEF IInv, TypeOK, NoOops, ParentWork, Items, Rewire
  <2>3. Order'
    BY <1>9 DEF IInv, TypeOK, Order, ChldOfSession, Rewire
  <2>4. ChldOfSession'
    BY <1>9 DEF IInv, TypeOK, Order, ChldOfSession, Rewire
  <2>5. Login'
    BY <1>9, OneMessage, Distinct DEF IInv, TypeOK, Order, ChldOfSession, LoginExchange, LoginSent,
        LoginsCounted, Rewire
  <2>6. SessionExchange' /\ RequestsFit'
    BY <1>9 DEF IInv, TypeOK, Order, ChldOfSession, LoginSent, ModeKnown, SessionExchange,
        RequestsFit, Unfit, Rewire
  <2>7. ModeKnown' /\ ModeChosen'
    BY <1>9 DEF IInv, TypeOK, Order, ChldOfSession, ModeKnown, ModeChosen, CleanWaits, ActiveWaits,
        Rewire
  <2> QED
    BY <1>1, <2>2, <2>3, <2>4, <2>5, <2>6, <2>7
<1>10. CASE Fork
  <2>2. TypeOK' /\ NoOops'
    BY <1>10, Messages DEF IInv, TypeOK, NoOops, ParentWork, Items, Fork
  <2>3. Order'
    BY <1>10 DEF IInv, TypeOK, Order, ChldOfSession, Fork
  <2>4. ChldOfSession'
    BY <1>10 DEF IInv, TypeOK, Order, ChldOfSession, Fork
  <2>5. Login'
    BY <1>10, OneMessage, Distinct DEF IInv, TypeOK, Order, ChldOfSession, LoginExchange,
        LoginSent, LoginsCounted, Fork
  <2>6. SessionExchange' /\ RequestsFit'
    BY <1>10 DEF IInv, TypeOK, Order, ChldOfSession, LoginSent, ModeKnown, SessionExchange,
        RequestsFit, Unfit, Fork
  <2>7. ModeKnown' /\ ModeChosen'
    BY <1>10 DEF IInv, TypeOK, Order, ChldOfSession, ModeKnown, ModeChosen, CleanWaits,
        ActiveWaits, Fork
  <2> QED
    BY <1>1, <2>2, <2>3, <2>4, <2>5, <2>6, <2>7
<1> QED
  BY <1>2, <1>3, <1>4, <1>5, <1>6, <1>7, <1>8, <1>9, <1>10

\* The parent takes a request of the session child.
LEMMA RequestKeeps ==
  ASSUME IInv, Booleans', GetRequest
  PROVE  IInv'
<1> USE DEF PreAlive, PostAlive, PreWork, PostWork, PostWaits, prelog, session, socks, Over, PState
<1>1. PICK r \in Requests : up = <<r>> /\ ~Unfit(r)
  BY DEF GetRequest, IInv, RequestsFit
<1>2. /\ ppc = "serve" /\ ppc' = "work" /\ req' = r /\ up' = <<>> /\ r # "LOGIN"
      /\ pasv_listen' = pasv_listen /\ down' = down /\ granted' = granted /\ on_chld' = on_chld
      /\ UNCHANGED <<prelog, session>>
  BY <1>1, OneMessage DEF GetRequest, Unfit
<1>3. TypeOK' /\ NoOops'
  BY <1>1, <1>2, Messages DEF GetRequest, IInv, TypeOK, NoOops, ParentWork
<1>4. Order' /\ ChldOfSession'
  BY <1>2 DEF GetRequest, IInv, Order, ChldOfSession
<1>5. LoginExchange' /\ LoginSent' /\ LoginsCounted'
  BY <1>2 DEF IInv, Order, LoginExchange, LoginSent, LoginsCounted
<1>6. SessionExchange'
  BY <1>1, <1>2, OneMessage, Distinct DEF IInv, SessionExchange
<1>7. RequestsFit'
  BY <1>1, <1>2 DEF RequestsFit
<1>8. ModeKnown' /\ ModeChosen'
  BY <1>2 DEF GetRequest, IInv, Order, ModeKnown, ModeChosen, CleanWaits, ActiveWaits
<1> QED
  BY <1>3, <1>4, <1>5, <1>6, <1>7, <1>8 DEF IInv

\* The parent replies.  What the reply says of the mode is what the mode is.
LEMMA ReplyKeeps ==
  ASSUME IInv, Booleans', NEW r \in Requests, NEW items, NEW listening \in BOOLEAN,
         ReplyWith(r, items, listening),
         \/ r = "CLEANUP" /\ items = <<"OK">> /\ ~listening
         \/ r = "ACTIVE" /\ items = <<IF pasv_listen THEN "yes" ELSE "no">> /\ (listening <=> pasv_listen)
         \/ r = "LISTEN" /\ items = <<"port">> /\ listening
         \/ r = "ACCEPT" /\ items \in {<<"OK", "fd">>, <<"BAD", "error">>} /\ listening
         \/ r = "DATA_SOCK" /\ items \in {<<"OK", "fd">>, <<"BAD">>} /\ ~listening
         \/ r = "CHOWN" /\ items = <<"OK">> /\ (listening <=> pasv_listen)
  PROVE  IInv'
<1> USE DEF PreAlive, PostAlive, PreWork, PostWork, PostWaits, prelog, session, socks, Over
<1>1. /\ ppc = "work" /\ req = r /\ up = <<>> /\ req' = "none" /\ ppc' \in {"serve", "dead"}
      /\ up' = <<>> /\ granted' = granted /\ on_chld' = on_chld /\ attempts' = attempts
      /\ pend' = pend /\ tunables' = tunables /\ conn' = conn
      /\ UNCHANGED <<prelog, session>> /\ (pasv_listen' <=> listening /\ PostAlive)
  BY DEF ReplyWith, IInv, RequestsFit
<1>2. granted /\ post # "none" /\ pre = "reaped"
  BY <1>1 DEF IInv, Order
<1>3. CASE ~PostAlive
  <2>1. ppc' = "dead" /\ down' = down /\ ~pasv_listen'
    BY <1>1, <1>3 DEF ReplyWith
  <2>2. TypeOK' /\ NoOops'
    BY <1>1, <1>3, <2>1, Messages DEF IInv, TypeOK, NoOops
  <2>3. Order' /\ ChldOfSession'
    BY <1>1, <1>2, <2>1 DEF IInv, Order, ChldOfSession
  <2>4. LoginExchange' /\ LoginSent' /\ LoginsCounted'
    BY <1>1, <1>2, <2>1 DEF LoginExchange, LoginSent, LoginsCounted
  <2>5. SessionExchange' /\ RequestsFit'
    BY <1>1, <1>3, <2>1 DEF SessionExchange, RequestsFit
  <2>6. ModeKnown' /\ ModeChosen'
    BY <1>1, <1>2, <1>3, <2>1 DEF ModeKnown, ModeChosen, CleanWaits, ActiveWaits
  <2> QED
    BY <2>2, <2>3, <2>4, <2>5, <2>6 DEF IInv
<1>4. CASE PostAlive
  <2>1. down = <<>> /\ Awaits(r, post)
    <3>1. Awaits(req, post) /\ down = <<>>
      BY <1>1, <1>4 DEF IInv, SessionExchange
    <3> QED
      BY <1>1, <3>1
  <2>2. ppc' = "serve" /\ down' = items /\ (pasv_listen' <=> listening)
    BY <1>1, <1>4, <2>1, OneMessage, Distinct DEF ReplyWith
  <2>3. Replies(items, post)
    BY <2>1 DEF Awaits, Replies, CleanWaits, ActiveWaits
  <2>4. items \in Seq(Items) /\ Len(items) <= 2 /\ items # <<>>
    <3>1. CASE \E i \in Items : items = <<i>>
      BY <3>1, Messages
    <3>2. CASE \E i, j \in Items : items = <<i, j>>
      BY <3>2, Messages
    <3> QED
      BY <3>1, <3>2 DEF Items
  <2>5. TypeOK' /\ NoOops'
    BY <1>1, <1>4, <2>2, <2>4, Messages DEF IInv, TypeOK, NoOops, ParentWork
  <2>6. Order' /\ ChldOfSession'
    BY <1>1, <1>2, <1>4, <2>2 DEF IInv, Order, ChldOfSession
  <2>7. LoginExchange' /\ LoginSent' /\ LoginsCounted'
    BY <1>1, <1>2, <2>2 DEF LoginExchange, LoginSent, LoginsCounted
  <2>8. SessionExchange' /\ RequestsFit'
    <3>1. post \in PostWaits /\ post' = post
      BY <1>1, <2>1 DEF Awaits, CleanWaits, ActiveWaits
    <3> QED
      BY <1>1, <2>2, <2>3, <3>1 DEF SessionExchange, RequestsFit
  <2>9. ModeKnown'
    BY <1>1, <1>4, <2>1, <2>2, <2>4, OneMessage, Distinct
       DEF IInv, ModeKnown, ModeChosen, Awaits, CleanWaits, ActiveWaits
  <2>10. ModeChosen'
    BY <1>1, <1>4, <2>1, <2>2, <2>4, OneMessage, Distinct
       DEF IInv, ModeKnown, ModeChosen, Awaits, CleanWaits, ActiveWaits
  <2> QED
    BY <2>5, <2>6, <2>7, <2>8, <2>9, <2>10 DEF IInv
<1> QED
  BY <1>3, <1>4

\* Every step keeps the invariant.
LEMMA StepKeeps ==
  ASSUME IInv, [Next]_vars
  PROVE  IInv'
<1>1. Booleans'
  BY BooleansKept DEF IInv, TypeOK
<1>2. CASE UNCHANGED vars
  <2> USE <1>2 DEF vars, parent, prelog, session, socks, IInv
  <2>1. TypeOK' /\ NoOops' /\ Order' /\ ChldOfSession'
    BY <1>1 DEF TypeOK, NoOops, Order, ChldOfSession
  <2>2. LoginExchange' /\ LoginSent' /\ LoginsCounted'
    BY DEF LoginExchange, LoginSent, LoginsCounted, PreAlive
  <2>3. SessionExchange' /\ RequestsFit' /\ ModeKnown' /\ ModeChosen'
    BY DEF SessionExchange, RequestsFit, Unfit, ModeKnown, ModeChosen, PostAlive
  <2> QED
    BY <2>1, <2>2, <2>3
<1>3. CASE Disconnect \/ Term
  <2> USE <1>3 DEF Disconnect, Term, parent, prelog, session, socks, IInv
  <2>1. TypeOK' /\ NoOops' /\ Order' /\ ChldOfSession'
    <3>1. pend' \subseteq {"TERM", "CHLD"} /\ ("CHLD" \in pend' <=> "CHLD" \in pend)
      BY DEF TypeOK
    <3>2. TypeOK' /\ NoOops'
      BY <1>1, <3>1 DEF TypeOK, NoOops
    <3> QED
      BY <3>1, <3>2 DEF Order, ChldOfSession
  <2>2. LoginExchange' /\ LoginSent' /\ LoginsCounted'
    BY DEF LoginExchange, LoginSent, LoginsCounted, PreAlive
  <2>3. SessionExchange' /\ RequestsFit' /\ ModeKnown' /\ ModeChosen'
    BY DEF SessionExchange, RequestsFit, Unfit, ModeKnown, ModeChosen, PostAlive
  <2> QED
    BY <2>1, <2>2, <2>3
<1>4. CASE (PreAlive /\ PreEnds) \/ (PostAlive /\ PostEnds) \/ Exited
  BY <1>1, <1>4, ChildEnds
<1>5. CASE ParentEnds \/ HandleTerm
  BY <1>1, <1>5, ParentGone DEF ParentEnds, HandleTerm, Over
<1>6. CASE Kill
  BY <1>4, <1>5, <1>6 DEF Kill
<1>7. CASE PreStep
  <2>1. CASE PreHangup \/ PreEof
    BY <1>4, <2>1 DEF PreHangup, PreEof, PreAlive, PreWork
  <2> QED
    BY <1>1, <1>7, <2>1, PreKeeps DEF PreStep
<1>8. CASE ParentStep
  <2>1. CASE ChildWaited \/ ParentEof
    BY <1>5, <2>1 DEF ChildWaited, ParentEof
  <2>2. CASE ReplyCleanup
    BY <1>1, <2>2, ReplyKeeps DEF ReplyCleanup, Requests
  <2>3. CASE ReplyActive
    BY <1>1, <2>3, ReplyKeeps DEF ReplyActive, Requests, IInv, TypeOK, Booleans
  <2>4. CASE ReplyListen
    BY <1>1, <2>4, ReplyKeeps DEF ReplyListen, Requests
  <2>5. CASE ReplyAccept
    BY <1>1, <2>5, ReplyKeeps DEF ReplyAccept, Requests
  <2>6. CASE ReplyDataSock
    BY <1>1, <2>6, ReplyKeeps DEF ReplyDataSock, Requests
  <2>7. CASE ReplyChown
    BY <1>1, <2>7, ReplyKeeps DEF ReplyChown, Requests, IInv, TypeOK, Booleans
  <2> QED
    BY <1>1, <1>5, <1>8, <2>1, <2>2, <2>3, <2>4, <2>5, <2>6, <2>7, LoginKeeps, RequestKeeps
       DEF ParentStep
<1>9. CASE Command \/ PostStep
  <2>1. CASE PostHangup \/ PostEof
    BY <1>4, <2>1 DEF PostHangup, PostEof, PostAlive, PostWork
  <2> QED
    BY <1>1, <1>9, <2>1, ChildKeeps DEF PostStep
<1> QED
  BY <1>2, <1>3, <1>4, <1>6, <1>7, <1>8, <1>9 DEF Next

\* A session that has just begun.
LEMMA InitHolds == Init => IInv
<1> SUFFICES ASSUME Init
             PROVE  IInv
  OBVIOUS
<1> USE DEF Init, PreAlive, PostAlive, PreWork, PostWork, PostWaits
<1>1. Booleans
  BY DEF Booleans
<1>2. TypeOK /\ NoOops
  BY <1>1, Messages, MaxLoginFailsAssumption DEF TypeOK, NoOops, ParentWork, Gone
<1>3. Order /\ ChldOfSession /\ LoginExchange /\ LoginSent /\ LoginsCounted
  BY MaxLoginFailsAssumption, OneMessage
     DEF Order, ChldOfSession, LoginExchange, LoginSent, LoginsCounted, Over
<1>4. SessionExchange /\ RequestsFit /\ ModeKnown /\ ModeChosen
  BY DEF SessionExchange, RequestsFit, ModeKnown, ModeChosen, CleanWaits, ActiveWaits
<1> QED
  BY <1>2, <1>3, <1>4 DEF IInv

\* The inductive invariant holds throughout.
LEMMA Invariance == Spec => []IInv
  BY InitHolds, StepKeeps, PTL DEF Spec

-----------------------------------------------------------------------------
(***************************************************************************)
(* What parent and child can rely on.                                      *)
(***************************************************************************)

\* The variables keep their types: in particular neither direction of the
\* socket pair ever holds more than one message, and the failed logins stay
\* within the limit.
THEOREM TypeCorrect == Spec => []TypeOK
  BY Invariance, PTL DEF IInv

\* No bug() and no die() about the protocol itself is reached, for any limit
\* of failed logins and any kills and signals.
THEOREM NoOopsReached == Spec => []NoOops
  BY Invariance, PTL DEF IInv

\* No reply is left over for a later request, neither of the pre-login child
\* nor of the session child.
THEOREM StaysInStep == Spec => []InStep
<1>1. IInv => InStep
  BY DEF IInv, InStep, SessionExchange, LoginExchange, PostAlive, PreAlive, PostWork, PostWaits,
      PreWork,
         ParentAlive, ParentWork, Over
<1> QED
  BY <1>1, Invariance, PTL

\* The command connection is read by one process at a time.
THEOREM ReadByOne == Spec => []OneReader
<1>1. IInv => OneReader
  BY DEF IInv, OneReader, Order, PreAlive, PostAlive, PreWork, PostWork, PostWaits
<1> QED
  BY <1>1, Invariance, PTL

\* The exit of the pre-login child of a granted login never ends the parent.
THEOREM GrantIsServed == Spec => []GrantedServed
<1>1. IInv => GrantedServed
  BY DEF IInv, GrantedServed, ChldOfSession
<1> QED
  BY <1>1, Invariance, PTL

-----------------------------------------------------------------------------
(***************************************************************************)
(* Refinement: every step of the processes is a step of FtpSession or      *)
(* changes nothing that FtpSession knows of.                               *)
(***************************************************************************)
AbstractStep == [Abstract!Next]_(Abstract!vars)

\* A step that leaves the abstract state alone.
LEMMA Stutters ==
  ASSUME Phase' = Phase, attempts' = attempts, ChosenMode' = ChosenMode, DataOpen' = DataOpen
  PROVE  AbstractStep
BY DEF AbstractStep, Abstract!vars

\* Which sequences of reply items hold a descriptor.
LEMMA Descriptors ==
  /\ ~\E i \in DOMAIN <<>> : <<>>[i] = "fd"
  /\ \A x : (\E i \in DOMAIN <<x>> : <<x>>[i] = "fd") <=> x = "fd"
  /\ \A x, y : (\E i \in DOMAIN <<x, y>> : <<x, y>>[i] = "fd") <=> x = "fd" \/ y = "fd"
<1>1. ASSUME NEW x
      PROVE  (\E i \in DOMAIN <<x>> : <<x>>[i] = "fd") <=> x = "fd"
  <2>1. DOMAIN <<x>> = {1} /\ <<x>>[1] = x
    OBVIOUS
  <2> QED
    BY <2>1
<1>2. ASSUME NEW x, NEW y
      PROVE  (\E i \in DOMAIN <<x, y>> : <<x, y>>[i] = "fd") <=> x = "fd" \/ y = "fd"
  <2>1. DOMAIN <<x, y>> = {1, 2} /\ <<x, y>>[1] = x /\ <<x, y>>[2] = y
    OBVIOUS
  <2> QED
    BY <2>1
<1> QED
  BY <1>1, <1>2

\* No data connection before the session, and none while a reply of one item
\* or no reply is on its way.
LEMMA NothingInFlight ==
  ASSUME NEW d, d = <<>> \/ \E x : d = <<x>> /\ x # "fd"
  PROVE  ~\E i \in DOMAIN d : d[i] = "fd"
BY Descriptors

\* What the abstract state is before the session, and after it.
Outside == IInv /\ ~(granted /\ PostAlive) => ChosenMode = "none" /\ DataOpen = FALSE

\* Where there is no session child, there is no mode and no data.
LEMMA OutsideSession == Outside
<1> SUFFICES ASSUME IInv, ~(granted /\ PostAlive)
             PROVE  ChosenMode = "none" /\ DataOpen = FALSE
  BY DEF Outside
<1>1. CASE Phase = "session"
  <2>1. post = "none" /\ granted
    BY <1>1 DEF Phase
  <2>2. ~pasv_listen /\ ~port /\ ~data_fd
    BY <2>1 DEF IInv, ModeKnown
  <2>3. ~InFlight
    <3>1. down \in {<<>>, <<"BAD">>, <<"OK">>}
      BY <2>1 DEF IInv, LoginSent
    <3> QED
      BY <3>1, NothingInFlight DEF InFlight
  <2> QED
    BY <2>2, <2>3 DEF ChosenMode, DataOpen
<1>2. CASE Phase # "session"
  BY <1>2 DEF ChosenMode, DataOpen
<1> QED
  BY <1>1, <1>2

\* The same of the next state.
LEMMA OutsideSessionNext == Outside'
  BY OutsideSession, PTL

\* The end of a child.
LEMMA ChildEndMaps ==
  ASSUME IInv, IInv', (PreAlive /\ PreEnds) \/ (PostAlive /\ PostEnds) \/ Exited
  PROVE  AbstractStep
<1> USE DEF PreAlive, PostAlive, PreWork, PostWork, PostWaits, parent, prelog, session, socks
<1>1. CASE PreAlive /\ PreEnds
  <2>1. post = "none" /\ post' = "none" /\ UNCHANGED parent /\ pre' = "exiting"
    BY <1>1 DEF PreEnds, IInv, Order
  <2>2. ChosenMode = "none" /\ DataOpen = FALSE
    BY <2>1, OutsideSession DEF Outside
  <2>3. ChosenMode' = "none" /\ DataOpen' = FALSE
    BY <2>1, OutsideSessionNext DEF Outside
  <2>4. CASE granted
    BY <2>1, <2>2, <2>3, <2>4, Stutters DEF Phase, ParentAlive
  <2>5. CASE ~granted
    BY <1>1, <2>1, <2>2, <2>3, <2>5 DEF Phase, AbstractStep, Abstract!Next, Abstract!End
  <2> QED
    BY <2>4, <2>5
<1>2. CASE PostAlive /\ PostEnds
  <2>1. granted /\ granted' /\ attempts' = attempts /\ post' = "exiting"
    BY <1>2 DEF PostEnds, IInv, Order
  <2>2. Phase = "session" /\ Phase' = "ended"
    BY <1>2, <2>1 DEF Phase
  <2>3. ChosenMode' = "none" /\ DataOpen' = FALSE
    BY <2>2 DEF ChosenMode, DataOpen
  <2> QED
    BY <2>1, <2>2, <2>3 DEF AbstractStep, Abstract!Next, Abstract!End
<1>3. CASE Exited
  <2>1. /\ PreAlive' = PreAlive /\ PostAlive' = PostAlive /\ (post = "none") = (post' = "none")
        /\ UNCHANGED <<parent, port, data_fd, socks>>
    BY <1>3 DEF Exited
  <2>2. Phase' = Phase
    BY <2>1 DEF Phase, ParentAlive
  <2> QED
    BY <2>1, <2>2, Stutters DEF ChosenMode, DataOpen, InFlight
<1> QED
  BY <1>1, <1>2, <1>3

\* The end of the parent: the listening socket goes with it.
LEMMA ParentEndMaps ==
  ASSUME IInv, IInv', ParentEnds \/ HandleTerm, ParentAlive
  PROVE  AbstractStep
<1> USE DEF PreAlive, PostAlive, prelog, session, socks
<1>1. /\ UNCHANGED <<attempts, granted, prelog, session, socks>> /\ ~ParentAlive' /\ ~pasv_listen'
  BY DEF ParentEnds, HandleTerm, ParentAlive, ParentWork
<1>2. CASE granted /\ post = "none"
  <2>1. Phase = "session" /\ Phase' = "ended"
    BY <1>1, <1>2 DEF Phase, PostWork, PostWaits
  <2>2. ChosenMode' = "none" /\ DataOpen' = FALSE
    BY <2>1 DEF ChosenMode, DataOpen
  <2> QED
    BY <1>1, <2>1, <2>2 DEF AbstractStep, Abstract!Next, Abstract!End
<1>3. CASE ~(granted /\ post = "none")
  <2>1. Phase' = Phase
    BY <1>1, <1>3 DEF Phase
  <2>2. DataOpen' = DataOpen
    BY <1>1, <2>1 DEF DataOpen, InFlight
  <2>3. CASE ChosenMode' = ChosenMode
    BY <1>1, <2>1, <2>2, <2>3, Stutters
  <2>4. CASE ChosenMode' # ChosenMode
    <3>1. Phase = "session" /\ pasv_listen /\ PostAlive
      BY <1>1, <1>3, <2>1, <2>4 DEF ChosenMode, Phase
    <3>2. ~port
      BY <3>1 DEF IInv, ModeKnown
    <3>3. ChosenMode = "pasv" /\ ChosenMode' = "none"
      BY <1>1, <2>1, <3>1, <3>2 DEF ChosenMode
    <3> QED
      BY <1>1, <2>1, <2>2, <3>1, <3>3 DEF AbstractStep, Abstract!Next, Abstract!DropMode
  <2> QED
    BY <2>3, <2>4
<1> QED
  BY <1>2, <1>3

\* The login.
LEMMA LoginMaps ==
  ASSUME IInv, IInv',
         \/ User \/ UserDenied \/ SendLogin \/ LoginRefused \/ LoginGranted
         \/ HandleChld \/ GetLogin \/ AuthRefuses \/ AuthAccepts \/ InstallNull \/ Grant \/ Wait
         \/ Rewire \/ Fork
  PROVE  AbstractStep
<1> USE DEF PreAlive, PostAlive, PreWork, PostWork, PostWaits, parent, prelog, session, socks,
    PState
<1>1. CASE User \/ UserDenied \/ SendLogin \/ LoginRefused
  <2>1. ~granted /\ ~granted' /\ PreAlive /\ UNCHANGED parent
    BY <1>1, OneMessage, Distinct DEF User, UserDenied, SendLogin, LoginRefused, IInv, Order,
        LoginExchange
  <2>2. ChosenMode = "none" /\ DataOpen = FALSE /\ Phase = "login"
    BY <2>1, OutsideSession DEF Outside, Phase
  <2>3. ChosenMode' = "none" /\ DataOpen' = FALSE /\ Phase' \in {"login", "ended"}
    BY <2>1, OutsideSessionNext DEF Outside, Phase
  <2> QED
    BY <2>1, <2>2, <2>3, Stutters DEF AbstractStep, Abstract!Next, Abstract!End
<1>2. CASE LoginGranted
  <2>1. granted /\ granted' /\ UNCHANGED parent /\ post = "none" /\ post' = "none"
    BY <1>2, OneMessage, Distinct DEF LoginGranted, IInv, Order, LoginExchange
  <2>2. ChosenMode = "none" /\ DataOpen = FALSE
    BY <2>1, OutsideSession DEF Outside
  <2>3. ChosenMode' = "none" /\ DataOpen' = FALSE
    BY <2>1, OutsideSessionNext DEF Outside
  <2> QED
    BY <2>1, <2>2, <2>3, Stutters DEF Phase, ParentAlive
<1>3. CASE HandleChld
  <2>1. /\ UNCHANGED <<attempts, granted, pasv_listen, pre, post, port, data_fd, down>>
        /\ ParentAlive /\ ParentAlive'
    BY <1>3 DEF HandleChld, Checks, ParentAlive, ParentWork
  <2>2. Phase' = Phase
    BY <2>1 DEF Phase
  <2> QED
    BY <2>1, <2>2, Stutters DEF ChosenMode, DataOpen, InFlight
<1>4. CASE GetLogin \/ AuthAccepts \/ InstallNull
  <2>1. ~granted /\ ~granted' /\ attempts' = attempts /\ pre' = pre
    BY <1>4 DEF GetLogin, AuthAccepts, InstallNull, IInv, Order
  <2>2. ChosenMode = "none" /\ DataOpen = FALSE
    BY <2>1, OutsideSession DEF Outside
  <2>3. ChosenMode' = "none" /\ DataOpen' = FALSE
    BY <2>1, OutsideSessionNext DEF Outside
  <2> QED
    BY <2>1, <2>2, <2>3, Stutters DEF Phase
<1>5. CASE AuthRefuses
  <2>1. ~granted /\ ~granted' /\ attempts' = attempts + 1 /\ pre' = pre /\ attempts < MaxLoginFails
    BY <1>5 DEF AuthRefuses, IInv, Order, LoginsCounted
  <2>2. ChosenMode = "none" /\ DataOpen = FALSE
    BY <2>1, OutsideSession DEF Outside
  <2>3. ChosenMode' = "none" /\ DataOpen' = FALSE
    BY <2>1, OutsideSessionNext DEF Outside
  <2>4. Phase \in {"login", "ended"} /\ Phase' = Phase
    BY <2>1 DEF Phase
  <2> QED
    BY <2>1, <2>2, <2>3, <2>4 DEF AbstractStep, Abstract!Next, Abstract!LoginFails
<1>6. CASE Grant
  <2>1. ~granted /\ attempts' = attempts /\ pre' = pre /\ post = "none" /\ post' = "none"
        /\ attempts < MaxLoginFails
    BY <1>6 DEF Grant, IInv, Order, LoginsCounted
  <2>2. ChosenMode = "none" /\ DataOpen = FALSE
    BY <2>1, OutsideSession DEF Outside
  <2>3. ChosenMode' = "none" /\ DataOpen' = FALSE
    BY <2>1, OutsideSessionNext DEF Outside
  <2>4. CASE PreAlive
    <3>1. Phase = "login" /\ Phase' = "session"
      BY <1>6, <2>1, <2>4 DEF Phase, Grant, ParentAlive, ParentWork
    <3> QED
      BY <2>1, <2>2, <2>3, <3>1 DEF AbstractStep, Abstract!Next, Abstract!LoginSucceeds
  <2>5. CASE ~PreAlive
    <3>1. Phase = "ended" /\ Phase' = "ended"
      BY <1>6, <2>1, <2>5 DEF Phase, Grant
    <3> QED
      BY <2>1, <2>2, <2>3, <3>1, Stutters
  <2> QED
    BY <2>4, <2>5
<1>7. CASE Wait \/ Rewire \/ Fork
  <2>1. granted /\ granted' /\ attempts' = attempts /\ post = "none" /\ ParentAlive
        /\ ((post' = "none" /\ ParentAlive') \/ Fork)
    BY <1>7 DEF Wait, Rewire, Fork, IInv, Order, ParentAlive, ParentWork
  <2>2. ChosenMode = "none" /\ DataOpen = FALSE /\ Phase = "session"
    BY <2>1, OutsideSession DEF Outside, Phase
  <2>3. Phase' = "session"
    BY <2>1 DEF Phase, Fork
  <2>4. ChosenMode' = "none" /\ DataOpen' = FALSE
    <3>1. CASE post' = "none"
      BY <2>1, <3>1, OutsideSessionNext DEF Outside
    <3>2. CASE Fork
      <4>1. ~pasv_listen' /\ ~port' /\ ~data_fd' /\ down' = <<>>
        BY <2>1, <3>2 DEF Fork, IInv, ModeKnown, LoginSent
      <4>2. ~InFlight'
        BY <4>1, NothingInFlight DEF InFlight
      <4> QED
        BY <4>1, <4>2 DEF ChosenMode, DataOpen
    <3> QED
      BY <2>1, <3>1, <3>2
  <2> QED
    BY <2>1, <2>2, <2>3, <2>4, Stutters
<1> QED
  BY <1>1, <1>2, <1>3, <1>4, <1>5, <1>6, <1>7

\* The requests of the session.
LEMMA RequestMaps ==
  ASSUME IInv, IInv', GetRequest
  PROVE  AbstractStep
<1>1. /\ UNCHANGED <<attempts, granted, pasv_listen, pre, post, port, data_fd, down>>
      /\ ParentAlive /\ ParentAlive'
  BY DEF GetRequest, PState, ParentAlive, ParentWork, IInv, NoOops, prelog, session
<1>2. Phase' = Phase
  BY <1>1 DEF Phase, PreAlive, PostAlive
<1> QED
  BY <1>1, <1>2, Stutters DEF ChosenMode, DataOpen, InFlight

\* The replies: a cleanup drops the mode, a listen chooses it, a descriptor
\* opens the data connection.
LEMMA ReplyMaps ==
  ASSUME IInv, IInv', NEW r, NEW items, NEW listening \in BOOLEAN, ReplyWith(r, items, listening),
         \/ r = "CLEANUP" /\ items = <<"OK">> /\ ~listening
         \/ r = "ACTIVE" /\ items = <<IF pasv_listen THEN "yes" ELSE "no">> /\ (listening <=> pasv_listen)
         \/ r = "LISTEN" /\ items = <<"port">> /\ listening
         \/ r = "ACCEPT" /\ items \in {<<"OK", "fd">>, <<"BAD", "error">>} /\ listening
         \/ r = "DATA_SOCK" /\ items \in {<<"OK", "fd">>, <<"BAD">>} /\ ~listening
         \/ r = "CHOWN" /\ items = <<"OK">> /\ (listening <=> pasv_listen)
  PROVE  AbstractStep
<1>1. /\ ppc = "work" /\ req = r /\ attempts' = attempts /\ granted' = granted
      /\ UNCHANGED <<pre, post, port, data_fd>> /\ (pasv_listen' <=> listening /\ PostAlive)
  BY DEF ReplyWith, prelog, session
<1>2. granted /\ post # "none"
  BY <1>1 DEF IInv, Order
<1>3. CASE ~PostAlive
  <2>1. ~PostAlive' /\ granted'
    BY <1>1, <1>2, <1>3 DEF PostAlive
  <2>2. Phase = "ended" /\ Phase' = "ended"
    BY <1>1, <1>2, <1>3, <2>1 DEF Phase
  <2> QED
    BY <1>1, <2>2, Stutters DEF ChosenMode, DataOpen
<1>4. CASE PostAlive
  <2>1. down = <<>> /\ Awaits(r, post)
    <3>1. Awaits(req, post) /\ down = <<>>
      BY <1>1, <1>4 DEF IInv, SessionExchange, Over
    <3> QED
      BY <1>1, <3>1
  <2>2. down' = items /\ (pasv_listen' <=> listening)
    BY <1>1, <1>4, <2>1, OneMessage, Distinct DEF ReplyWith
  <2>3. Phase = "session" /\ Phase' = "session"
    BY <1>1, <1>2, <1>4 DEF Phase, PostAlive
  <2>4. ~InFlight
    BY <2>1, NothingInFlight DEF InFlight
  <2>5. InFlight' <=> items = <<"OK", "fd">>
    <3>1. CASE \E x : items = <<x>> /\ x # "fd"
      BY <2>2, <3>1, NothingInFlight, Distinct DEF InFlight
    <3>2. CASE items = <<"OK", "fd">>
      BY <2>2, <3>2, Descriptors DEF InFlight
    <3>3. CASE items = <<"BAD", "error">>
      BY <2>2, <3>3, Descriptors, Distinct DEF InFlight
    <3> QED
      BY <3>1, <3>2, <3>3
  <2>6. ~data_fd
    BY <1>4, <2>1 DEF IInv, ModeKnown, Awaits, CleanWaits, ActiveWaits
  <2>7. DataOpen = FALSE /\ (DataOpen' <=> items = <<"OK", "fd">>)
    BY <1>1, <2>3, <2>4, <2>5, <2>6 DEF DataOpen
  <2>8. pasv_listen => ~port
    BY <1>4 DEF IInv, ModeKnown
  <2>9. CASE items = <<"OK", "fd">>
    <3>1. r \in {"ACCEPT", "DATA_SOCK"}
      BY <2>9, Distinct
    <3>2. ChosenMode # "none" /\ ChosenMode' = ChosenMode
      <4>1. CASE r = "ACCEPT"
        BY <1>1, <2>1, <2>2, <2>3, <4>1 DEF ChosenMode, Awaits, IInv, ModeChosen, Over
      <4>2. CASE r = "DATA_SOCK"
        BY <1>1, <2>1, <2>2, <2>3, <4>2 DEF ChosenMode, Awaits, IInv, ModeChosen
      <4> QED
        BY <3>1, <4>1, <4>2
    <3>3. DataOpen' = TRUE
      BY <2>7, <2>9 DEF DataOpen
    <3> QED
      BY <1>1, <2>3, <2>7, <3>2, <3>3 DEF AbstractStep, Abstract!Next, Abstract!OpenData
  <2>10. CASE items # <<"OK", "fd">>
    <3>1. DataOpen' = FALSE
      BY <2>7, <2>10 DEF DataOpen
    <3>2. CASE r = "LISTEN"
      <4>1. ChosenMode = "none" /\ ChosenMode' = "pasv"
        BY <1>1, <2>1, <2>2, <2>3, <3>2 DEF ChosenMode, Awaits, IInv, ModeKnown
      <4> QED
        BY <1>1, <2>3, <2>7, <3>1, <4>1 DEF AbstractStep, Abstract!Next, Abstract!ChooseMode
    <3>3. CASE r = "CLEANUP" /\ pasv_listen
      <4>1. ChosenMode = "pasv" /\ ChosenMode' = "none"
        BY <1>1, <2>2, <2>3, <2>8, <3>3 DEF ChosenMode
      <4> QED
        BY <1>1, <2>3, <2>7, <3>1, <4>1 DEF AbstractStep, Abstract!Next, Abstract!DropMode
    <3>4. CASE r # "LISTEN" /\ ~(r = "CLEANUP" /\ pasv_listen)
      <4>1. pasv_listen' <=> pasv_listen
        BY <1>1, <2>1, <2>2, <3>4 DEF Awaits, IInv, ModeChosen, Over
      <4>2. ChosenMode' = ChosenMode
        BY <1>1, <2>3, <4>1 DEF ChosenMode
      <4> QED
        BY <1>1, <2>3, <2>7, <3>1, <4>2, Stutters
    <3> QED
      BY <3>2, <3>3, <3>4
  <2> QED
    BY <2>9, <2>10
<1> QED
  BY <1>3, <1>4

\* The session child.
LEMMA ChildMaps ==
  ASSUME IInv, IInv',
         \/ Command \/ PasvClean \/ PasvListening \/ PortClean \/ CheckTransfer \/ OpenFails
         \/ OpenSucceeds \/ OpenChown \/ Chowned \/ GetTransferFd \/ CheckAgain \/ PickPasv
         \/ PickPort \/ PickOwnPort \/ GotFd \/ GotNoFd \/ Transfer \/ Clean \/ Cleaned
  PROVE  AbstractStep
<1> DEFINE Data == data_fd \/ InFlight
<1> USE DEF PostWork, PostWaits, PostAlive
<1>1. ASSUME PostAlive, post' \in PostWork \cup {"oops"}, Rest
      PROVE  /\ Phase = "session" /\ Phase' = "session" /\ attempts' = attempts /\ pasv_listen' = pasv_listen
             /\ (pasv_listen => ~port)
  <2>1. granted /\ granted' /\ attempts' = attempts /\ pasv_listen' = pasv_listen /\ (pasv_listen => ~port)
    BY <1>1 DEF IInv, Order, ModeKnown, Rest, parent
  <2>2. PostAlive'
    BY <1>1, <2>1 DEF IInv, NoOops
  <2> QED
    BY <1>1, <2>1, <2>2 DEF Phase
<1>2. ASSUME PostAlive, post' \in PostWork \cup {"oops"}, Rest, port' = port, Data' <=> Data
      PROVE  AbstractStep
  <2>1. /\ Phase = "session" /\ Phase' = "session" /\ attempts' = attempts /\ pasv_listen' = pasv_listen
    BY <1>1, <1>2
  <2> QED
    BY <1>2, <2>1, Stutters DEF ChosenMode, DataOpen
<1>3. ASSUME PostAlive, post' \in PostWork \cup {"oops"}, Rest, ~port', Data' <=> Data
      PROVE  AbstractStep
  <2>1. /\ Phase = "session" /\ Phase' = "session" /\ attempts' = attempts /\ pasv_listen' = pasv_listen
        /\ (pasv_listen => ~port)
    BY <1>1, <1>3
  <2>2. DataOpen' = DataOpen
    BY <1>3, <2>1 DEF DataOpen
  <2>3. CASE port
    <3>1. ChosenMode = "port" /\ ChosenMode' = "none"
      BY <1>3, <2>1, <2>3 DEF ChosenMode
    <3> QED
      BY <2>1, <2>2, <3>1 DEF AbstractStep, Abstract!Next, Abstract!DropMode
  <2>4. CASE ~port
    <3>1. ChosenMode' = ChosenMode
      BY <1>3, <2>1, <2>4 DEF ChosenMode
    <3> QED
      BY <2>1, <2>2, <3>1, Stutters
  <2> QED
    BY <2>3, <2>4
<1>4. ASSUME post \in PostWork \ PostWaits
      PROVE  PostAlive /\ down = <<>> /\ ~InFlight
  <2>1. PostAlive /\ down = <<>>
    BY <1>4 DEF IInv, SessionExchange
  <2> QED
    BY <2>1, NothingInFlight DEF InFlight
<1>5. ASSUME NEW w \in PostWaits, NEW items, Reads(w, items),
             \/ \E x : items = <<x>> /\ w # "accept?" /\ (w = "sock?" => x = "BAD")
             \/ \E x, y : items = <<x, y>>
      PROVE  PostAlive /\ post = w /\ down = items /\ ~InFlight'
  <2>1. post = w /\ down = items /\ down' = <<>>
    BY <1>5, OwnReply DEF IInv
  <2> QED
    BY <1>5, <2>1, NothingInFlight DEF InFlight
<1>6. ASSUME NEW w \in PostWaits \ {"accept?", "sock?"}, NEW x, x # "fd", Reads(w, <<x>>)
      PROVE  PostAlive /\ post = w /\ down = <<x>> /\ ~InFlight /\ ~InFlight'
  <2>1. PostAlive /\ post = w /\ down = <<x>> /\ ~InFlight'
    BY <1>5, <1>6
  <2> QED
    BY <1>6, <2>1, NothingInFlight DEF InFlight
<1>7. CASE Pasv \/ DataCommand \/ OpenFails \/ OpenSucceeds \/ OpenChown \/ GetTransferFd
  <2>1. /\ post \in PostWork \ PostWaits /\ post' \in PostWork /\ Rest /\ UNCHANGED <<port, data_fd, down>>
    BY <1>7 DEF Pasv, DataCommand, OpenFails, OpenSucceeds, OpenChown, GetTransferFd, Ask, socks
  <2> QED
    BY <1>2, <2>1 DEF InFlight
<1>8. CASE Port
  <2>1. post = "command" /\ post' = "port-clean?" /\ Rest /\ UNCHANGED <<data_fd, down>>
    BY <1>8 DEF Port, Ask
  <2>2. port' = port \/ ~port'
    BY <1>8 DEF Port
  <2>3. Data' <=> Data
    BY <2>1 DEF InFlight
  <2> QED
    BY <1>2, <1>3, <2>1, <2>2, <2>3
<1>9. CASE Clean
  <2>1. post = "clean" /\ post' = "clean?" /\ Rest /\ UNCHANGED <<data_fd, down>> /\ ~port'
    BY <1>9 DEF Clean, Ask
  <2>2. Data' <=> Data
    BY <2>1 DEF InFlight
  <2> QED
    BY <1>3, <2>1, <2>2
<1>10. CASE Transfer
  <2>1. post = "transfer" /\ post' = "clean" /\ Rest /\ UNCHANGED <<port, down>> /\ ~data_fd'
    BY <1>10 DEF Transfer, socks
  <2>2. ~InFlight /\ ~InFlight'
    BY <1>4, <2>1 DEF InFlight
  <2>3. CASE ~data_fd
    BY <1>2, <2>1, <2>2, <2>3
  <2>4. CASE data_fd
    <3>1. Phase = "session" /\ Phase' = "session" /\ attempts' = attempts /\ pasv_listen' = pasv_listen
      BY <1>1, <2>1
    <3>2. DataOpen /\ DataOpen' = FALSE /\ ChosenMode' = ChosenMode
      BY <2>1, <2>2, <2>4, <3>1 DEF DataOpen, ChosenMode
    <3> QED
      BY <3>1, <3>2 DEF AbstractStep, Abstract!Next, Abstract!CloseData
  <2> QED
    BY <2>3, <2>4
<1>11. CASE PasvClean
  <2>1. Reads("pasv-clean?", <<"OK">>) /\ post' = "listen?" /\ Rest /\ data_fd' = data_fd /\ ~port'
    BY <1>11 DEF PasvClean, Ask
  <2>2. PostAlive /\ ~InFlight /\ ~InFlight'
    BY <1>6, <2>1
  <2> QED
    BY <1>3, <2>1, <2>2
<1>12. CASE PortClean
  <2>1. Reads("port-clean?", <<"OK">>) /\ post' = "command" /\ Rest /\ data_fd' = data_fd
    BY <1>12 DEF PortClean
  <2>2. PostAlive /\ post = "port-clean?" /\ down = <<"OK">> /\ ~InFlight /\ ~InFlight'
    BY <1>6, <2>1
  <2>3. CASE ~port' \/ port' = port
    BY <1>2, <1>3, <2>1, <2>2, <2>3
  <2>4. CASE port' /\ ~port
    <3>1. ~pasv_listen /\ ~data_fd
      BY <2>2 DEF IInv, ModeKnown, CleanWaits
    <3>2. Phase = "session" /\ Phase' = "session" /\ attempts' = attempts /\ pasv_listen' = pasv_listen
      BY <1>1, <2>1, <2>2
    <3>3. ChosenMode = "none" /\ ChosenMode' = "port" /\ DataOpen = FALSE /\ DataOpen' = FALSE
      BY <2>1, <2>2, <2>4, <3>1, <3>2 DEF ChosenMode, DataOpen
    <3> QED
      BY <3>2, <3>3 DEF AbstractStep, Abstract!Next, Abstract!ChooseMode
  <2>5. port \in BOOLEAN /\ port' \in BOOLEAN
    BY DEF IInv, TypeOK, Booleans
  <2> QED
    BY <2>3, <2>4, <2>5
<1>13. CASE PasvListening \/ Chowned \/ Cleaned
  <2>1. /\ Reads("listen?", <<"port">>) \/ Reads("chown?", <<"OK">>) \/ Reads("clean?", <<"OK">>)
        /\ post' \in PostWork /\ Rest /\ UNCHANGED <<port, data_fd>>
    BY <1>13 DEF PasvListening, Chowned, Cleaned
  <2>2. PostAlive /\ ~InFlight /\ ~InFlight'
    BY <1>6, <2>1
  <2> QED
    BY <1>2, <2>1, <2>2
<1>14. CASE CheckTransfer \/ CheckAgain
  <2>1. \E pasv \in {"yes", "no"}, w \in {"check?", "check-port?", "get?", "get-port?"} : Reads(w, <<pasv>>)
    BY <1>14 DEF CheckTransfer, CheckAgain, Active
  <2>2. PostAlive /\ ~InFlight /\ ~InFlight'
    BY <1>6, <2>1
  <2>3. post' \in PostWork \cup {"oops"} /\ Rest /\ UNCHANGED <<port, data_fd>>
    BY <1>14 DEF CheckTransfer, CheckAgain, Active, Ask, Goes, IInv, TypeOK, Booleans
  <2> QED
    BY <1>2, <2>2, <2>3
<1>15. CASE PickPasv \/ PickPort
  <2>1. /\ Reads("pick?", <<"yes">>) \/ Reads("pick?", <<"no">>)
        /\ post' \in PostWork \cup {"oops"} /\ Rest /\ UNCHANGED <<port, data_fd>>
    BY <1>15 DEF PickPasv, PickPort, Ask, Goes
  <2>2. PostAlive /\ ~InFlight /\ ~InFlight'
    BY <1>6, <2>1
  <2> QED
    BY <1>2, <2>1, <2>2
<1>16. CASE PickOwnPort
  <2>1. /\ Reads("pick?", <<"no">>) /\ post' \in PostWork \cup {"oops"} /\ Rest /\ port' = port
        /\ data_fd' = data_fd \/ data_fd'
    BY <1>16 DEF PickOwnPort, Connected
  <2>2. PostAlive /\ post = "pick?" /\ down = <<"no">> /\ ~InFlight /\ ~InFlight'
    BY <1>6, <2>1
  <2>3. CASE data_fd' = data_fd
    BY <1>2, <2>1, <2>2, <2>3
  <2>4. CASE data_fd'
    <3>1. port /\ ~pasv_listen /\ ~data_fd
      BY <2>2 DEF IInv, ModeKnown, ModeChosen, ActiveWaits
    <3>2. Phase = "session" /\ Phase' = "session" /\ attempts' = attempts /\ pasv_listen' = pasv_listen
      BY <1>1, <2>1, <2>2
    <3>3. ChosenMode = "port" /\ ChosenMode' = "port" /\ DataOpen = FALSE /\ DataOpen' = TRUE
      BY <2>1, <2>2, <2>4, <3>1, <3>2 DEF ChosenMode, DataOpen
    <3> QED
      BY <3>2, <3>3 DEF AbstractStep, Abstract!Next, Abstract!OpenData
  <2> QED
    BY <2>1, <2>3, <2>4
<1>17. CASE GotFd
  <2>1. /\ Reads("accept?", <<"OK", "fd">>) \/ Reads("sock?", <<"OK", "fd">>)
        /\ post' \in PostWork \cup {"oops"} /\ Rest /\ port' = port /\ data_fd'
    BY <1>17 DEF GotFd, Connected
  <2>2. PostAlive /\ down = <<"OK", "fd">>
    BY <1>5, <2>1
  <2>3. InFlight
    BY <2>2, Descriptors DEF InFlight
  <2> QED
    BY <1>2, <2>1, <2>2, <2>3
<1>18. CASE GotNoFd
  <2>1. /\ Reads("accept?", <<"BAD", "error">>) \/ Reads("sock?", <<"BAD">>)
        /\ post' = "clean" /\ Rest /\ UNCHANGED <<port, data_fd>>
    BY <1>18 DEF GotNoFd
  <2>2. PostAlive /\ down \in {<<"BAD", "error">>, <<"BAD">>} /\ ~InFlight'
    BY <1>5, <2>1
  <2>3. ~InFlight
    BY <2>2, Descriptors DEF InFlight
  <2> QED
    BY <1>2, <2>1, <2>2, <2>3
<1> QED
  BY <1>7, <1>8, <1>9, <1>10, <1>11, <1>12, <1>13, <1>14, <1>15, <1>16, <1>17, <1>18 DEF Command

\* Every step.
LEMMA StepMaps ==
  ASSUME IInv, IInv', [Next]_vars
  PROVE  AbstractStep
<1>1. CASE UNCHANGED vars \/ Disconnect \/ Term
  <2>1. UNCHANGED <<ppc, pasv_listen, attempts, granted, pre, post, port, data_fd, down>>
    BY <1>1 DEF Disconnect, Term, vars, parent, prelog, session, socks
  <2>2. Phase' = Phase
    BY <2>1 DEF Phase, PreAlive, PostAlive, ParentAlive
  <2> QED
    BY <2>1, <2>2, Stutters DEF ChosenMode, DataOpen, InFlight
<1>2. CASE (PreAlive /\ PreEnds) \/ (PostAlive /\ PostEnds) \/ Exited
  BY <1>2, ChildEndMaps
<1>3. CASE (ParentAlive /\ ParentEnds) \/ HandleTerm
  BY <1>3, ParentEndMaps DEF HandleTerm, Checks, ParentAlive, ParentWork
<1>4. CASE PreHangup \/ PreEof \/ PostHangup \/ PostEof
  BY <1>2, <1>4 DEF PreHangup, PreEof, PostHangup, PostEof, PreAlive, PreWork, PostAlive, PostWork
<1>5. CASE ChildWaited \/ ParentEof
  BY <1>3, <1>5 DEF ChildWaited, ParentEof, ParentAlive, ParentWork
<1>6. CASE ReplyCleanup
  BY <1>6, ReplyMaps DEF ReplyCleanup
<1>7. CASE ReplyActive
  BY <1>7, ReplyMaps DEF ReplyActive, IInv, TypeOK, Booleans
<1>8. CASE ReplyListen
  BY <1>8, ReplyMaps DEF ReplyListen
<1>9. CASE ReplyAccept
  BY <1>9, ReplyMaps DEF ReplyAccept
<1>10. CASE ReplyDataSock
  BY <1>10, ReplyMaps DEF ReplyDataSock
<1>11. CASE ReplyChown
  BY <1>11, ReplyMaps DEF ReplyChown, IInv, TypeOK, Booleans
<1>12. CASE ParentStep
  BY <1>3, <1>5, <1>6, <1>7, <1>8, <1>9, <1>10, <1>11, <1>12, LoginMaps, RequestMaps DEF ParentStep
<1>13. CASE PreStep
  BY <1>4, <1>13, LoginMaps DEF PreStep
<1>14. CASE Command \/ PostStep
  BY <1>4, <1>14, ChildMaps DEF PostStep
<1> QED
  BY <1>1, <1>2, <1>3, <1>12, <1>13, <1>14 DEF Next, Kill

\* The parent, the children and the socket pair between them implement the
\* session that FtpSession describes, for every limit of failed logins.
THEOREM Refinement == Spec => ImplementsSession
<1>1. Init => Abstract!Init
  <2> SUFFICES ASSUME Init
               PROVE  Abstract!Init
    OBVIOUS
  <2>1. Phase = "login"
    BY DEF Init, Phase, PreAlive, PreWork
  <2> QED
    BY <2>1 DEF Init, Abstract!Init, ChosenMode, DataOpen
<1>2. IInv /\ IInv' /\ [Next]_vars => [Abstract!Next]_(Abstract!vars)
  BY StepMaps DEF AbstractStep
<1> QED
  BY <1>1, <1>2, Invariance, PTL DEF Spec, ImplementsSession, Abstract!Spec

===============================================================================
