------------------------------ MODULE FtpSession ------------------------------
(***************************************************************************)
(* What a vsftpd session promises its client, as if one process served it: *)
(* a bounded number of failed logins, then a session in which at most one  *)
(* of passive and active mode is chosen, a new choice always comes after   *)
(* the old one is dropped, and a data connection is opened only in a mode. *)
(* The two-process implementation is VsftpdSession.                        *)
(***************************************************************************)
EXTENDS Naturals

CONSTANT MaxLoginFails  \* tunable_max_login_fails

VARIABLES
  phase,     \* "login", "session" or "ended"
  attempts,  \* logins refused by the authentication
  mode,      \* how the next data connection is made: "none", "pasv", "port"
  data       \* a data connection is open

vars == <<phase, attempts, mode, data>>

TypeOK ==
  /\ phase \in {"login", "session", "ended"}
  /\ attempts \in 0 .. MaxLoginFails
  /\ mode \in {"none", "pasv", "port"}
  /\ data \in BOOLEAN

Init == phase = "login" /\ attempts = 0 /\ mode = "none" /\ data = FALSE

\* A login that is being checked when the client leaves is still counted.
LoginFails ==
  /\ phase \in {"login", "ended"}
  /\ attempts < MaxLoginFails
  /\ attempts' = attempts + 1
  /\ UNCHANGED <<phase, mode, data>>

LoginSucceeds ==
  /\ phase = "login"
  /\ attempts < MaxLoginFails
  /\ phase' = "session"
  /\ UNCHANGED <<attempts, mode, data>>

ChooseMode ==
  /\ phase = "session" /\ mode = "none" /\ ~data
  /\ mode' \in {"pasv", "port"}
  /\ UNCHANGED <<phase, attempts, data>>

DropMode ==
  /\ phase = "session" /\ mode # "none"
  /\ mode' = "none"
  /\ UNCHANGED <<phase, attempts, data>>

OpenData ==
  /\ phase = "session" /\ mode # "none" /\ ~data
  /\ data' = TRUE
  /\ UNCHANGED <<phase, attempts, mode>>

CloseData ==
  /\ data
  /\ data' = FALSE
  /\ UNCHANGED <<phase, attempts, mode>>

End ==
  /\ phase # "ended"
  /\ phase' = "ended"
  /\ mode' = "none" /\ data' = FALSE
  /\ UNCHANGED attempts

Next ==
  \/ LoginFails \/ LoginSucceeds \/ ChooseMode \/ DropMode
  \/ OpenData \/ CloseData \/ End

Spec == Init /\ [][Next]_vars
===============================================================================
