------------------------ MODULE VsftpdTransfer_proofs ------------------------
(***************************************************************************)
(* Proofs about VsftpdTransfer: wherever the alarm and the urgent data     *)
(* strike, the descriptor and the i/o handler of a transfer are there      *)
(* exactly during it (NoBug), a transfer that was cut off is not reported  *)
(* complete (CutNotComplete) and each line of the client has its one final *)
(* reply (OneReply).                                                       *)
(***************************************************************************)
EXTENDS VsftpdTransfer, TLAPS

\* From init_data_sock_params() to the end of the transfer, and to close().
Transferring == {"mark", "xfer", "dispose"}
Connection   == Transferring \cup {"close"}

\* The command under way has not had its final reply, and has had it.
Unanswered == {"work", "init", "log", "status"} \cup Connection
Answered   == {"abor", "cleanup", "end"}

-----------------------------------------------------------------------------
(***************************************************************************)
(* The inductive invariant.                                                *)
(***************************************************************************)

\* The descriptor and the i/o handler belong to the transfer under way.
Descriptor ==
  Alive => /\ data_fd <=> pc \in Connection
           /\ io <=> pc \in Transferring

\* The flags are looked at by a process that lives, and the handler of SIGURG
\* reads a command only during a transfer.
UrgOfTransfer ==
  /\ chk # "no" => Alive
  /\ chk = "line" => data_fd

\* A connection that was shut down has left its mark in one of the flags as
\* long as the result can be corrected, and in the result after that.
CutKnown ==
  /\ pc \in Connection /\ shut => abor_received \/ data_timeout
  /\ pc \in {"log", "status"} /\ result = "ok" => ~shut
  /\ complete => ~shut /\ pc \in Answered \cup Exits

\* The final reply is sent at the end of the command, at most once; only the
\* data timeout makes the session go without it.
ReplyDue ==
  /\ pc \in {"arm", "read"} => due = 0
  /\ pc = "got" => due = IF job \in {"empty", "eof"} THEN 0 ELSE 1
  /\ pc \in Unanswered => due = 1
  /\ pc \in Answered => due = 0 \/ data_timeout

\* The flag stands for exactly the reply that is due for an ABOR, and is not
\* set before the descriptor of the transfer or left behind by it.
AborDue ==
  Alive => /\ due_abor = IF abor_received THEN 1 ELSE 0
           /\ abor_received => pc \in Connection \cup {"log", "status", "abor"}

IInv ==
  /\ TypeOK
  /\ NoBug
  /\ Descriptor
  /\ UrgOfTransfer
  /\ CutKnown
  /\ ReplyDue
  /\ AborDue

-----------------------------------------------------------------------------
(***************************************************************************)
(* The steps.                                                              *)
(***************************************************************************)

\* The truth values stay truth values.
LEMMA BooleansKept ==
  ASSUME Booleans, [Next]_vars
  PROVE  Booleans'
<1> USE DEF Booleans, flow, alarms, pending, dataio, flags, client, history
<1>1. CASE AlarmFires
  BY <1>1 DEF AlarmFires
<1>2. CASE Send
  BY <1>2 DEF Send
<1>3. CASE SendUrgent
  BY <1>3 DEF SendUrgent
<1>4. CASE Stall
  BY <1>4 DEF Stall
<1>5. CASE Leave
  BY <1>5 DEF Leave
<1>6. CASE HandleAlrm
  <2>1. CASE DataStalled
    BY <1>6, <2>1 DEF HandleAlrm, DataStalled
  <2>2. CASE DataProgressed
    BY <1>6, <2>2 DEF HandleAlrm, DataProgressed
  <2>3. CASE IdleExpired
    BY <1>6, <2>3, ZenonT(40) DEF HandleAlrm, IdleExpired
  <2> QED
    BY <1>6, <2>1, <2>2, <2>3 DEF HandleAlrm
<1>7. CASE NoAlrm
  BY <1>7 DEF NoAlrm
<1>8. CASE HandleUrg
  BY <1>8, ZenonT(40) DEF HandleUrg
<1>9. CASE UrgExits
  BY <1>9 DEF UrgExits
<1>10. CASE UrgAbor
  BY <1>10 DEF UrgAbor, UrgLine
<1>11. CASE UrgOther
  BY <1>11 DEF UrgOther, UrgLine
<1>12. CASE UrgSaid
  BY <1>12 DEF UrgSaid
<1>13. CASE Arm
  BY <1>13 DEF Arm
<1>14. CASE Interrupted
  BY <1>14 DEF Interrupted, InterruptedBy, Blocking
<1>15. CASE InterruptedByUrg
  BY <1>15 DEF InterruptedByUrg, InterruptedBy, Blocking
<1>16. CASE ReadLine
  BY <1>16 DEF ReadLine
<1>17. CASE ReadEof
  BY <1>17 DEF ReadEof
<1>18. CASE GotNothing
  BY <1>18 DEF GotNothing
<1>19. CASE GotOther
  BY <1>19 DEF GotOther, Reply
<1>20. CASE GotQuit
  BY <1>20 DEF GotQuit
<1>21. CASE GotEmpty
  BY <1>21 DEF GotEmpty
<1>22. CASE GotTransfer
  BY <1>22 DEF GotTransfer
<1>23. CASE Refused
  BY <1>23 DEF Refused, Reply
<1>24. CASE NoConnection
  BY <1>24, ZenonT(40) DEF NoConnection, Reply
<1>25. CASE Connected
  BY <1>25, ZenonT(40) DEF Connected
<1>26. CASE InitData
  BY <1>26 DEF InitData, StartDataAlarm
<1>27. CASE Mark
  BY <1>27 DEF Mark
<1>28. CASE Progress
  BY <1>28 DEF Progress
<1>29. CASE XferDone
  BY <1>29 DEF XferDone, XferEnds
<1>30. CASE XferCut
  BY <1>30 DEF XferCut, XferEnds
<1>31. CASE XferFails
  BY <1>31 DEF XferFails, XferEnds
<1>32. CASE Dispose
  BY <1>32, ZenonT(40) DEF Dispose, StartDataAlarm
<1>33. CASE Close
  BY <1>33 DEF Close
<1>34. CASE Log
  BY <1>34 DEF Log
<1>35. CASE Status
  BY <1>35, ZenonT(40) DEF Status
<1>36. CASE CheckAbor
  BY <1>36 DEF CheckAbor
<1>37. CASE Cleanup
  BY <1>37 DEF Cleanup
<1>38. CASE End
  BY <1>38 DEF End
<1>39. CASE WriteFails
  BY <1>39 DEF WriteFails
<1>40. CASE UNCHANGED vars
  BY <1>40 DEF vars
<1> QED
  BY <1>1, <1>2, <1>3, <1>4, <1>5, <1>6, <1>7, <1>8, <1>9, <1>10, <1>11, <1>12, <1>13,
     <1>14, <1>15, <1>16, <1>17, <1>18, <1>19, <1>20, <1>21, <1>22, <1>23, <1>24,
     <1>25, <1>26, <1>27, <1>28, <1>29, <1>30, <1>31, <1>32, <1>33, <1>34, <1>35,
     <1>36, <1>37, <1>38, <1>39, <1>40
  DEF Next, Checking, Serving

\* Every step keeps the invariant.
LEMMA StepKeeps ==
  ASSUME IInv, Booleans', [Next]_vars
  PROVE  IInv'
<1> USE DEF IInv, Booleans, TypeOK, NoBug, Descriptor, UrgOfTransfer, CutKnown, ReplyDue,
            AborDue, Alive, At, Call, Step, flow, alarms, pending, dataio, flags, client, history,
            Transferring, Connection, Unanswered, Answered, Steps, Exits, Lines, Commands
<1>1. CASE AlarmFires
  BY <1>1 DEF AlarmFires
<1>2. CASE Send
  BY <1>2 DEF Send
<1>3. CASE SendUrgent
  BY <1>3 DEF SendUrgent
<1>4. CASE Stall
  BY <1>4 DEF Stall
<1>5. CASE Leave
  BY <1>5 DEF Leave
<1>6. CASE HandleAlrm
  <2>1. CASE DataStalled
    BY <1>6, <2>1 DEF HandleAlrm, DataStalled
  <2>2. CASE DataProgressed
    BY <1>6, <2>2 DEF HandleAlrm, DataProgressed, StartDataAlarm
  <2>3. CASE IdleExpired
    BY <1>6, <2>3 DEF HandleAlrm, IdleExpired
  <2> QED
    BY <1>6, <2>1, <2>2, <2>3 DEF HandleAlrm
<1>7. CASE NoAlrm
  BY <1>7 DEF NoAlrm
<1>8. CASE HandleUrg
  BY <1>8 DEF HandleUrg
<1>9. CASE UrgExits
  BY <1>9 DEF UrgExits
<1>10. CASE UrgAbor
  BY <1>10 DEF UrgAbor, UrgLine
<1>11. CASE UrgOther
  BY <1>11 DEF UrgOther, UrgLine
<1>12. CASE UrgSaid
  BY <1>12 DEF UrgSaid
<1>13. CASE Arm
  BY <1>13 DEF Arm
<1>14. CASE Interrupted
  BY <1>14 DEF Interrupted, InterruptedBy, Blocking
<1>15. CASE InterruptedByUrg
  BY <1>15 DEF InterruptedByUrg, InterruptedBy, Blocking
<1>16. CASE ReadLine
  BY <1>16 DEF ReadLine
<1>17. CASE ReadEof
  BY <1>17 DEF ReadEof
<1>18. CASE GotNothing
  BY <1>18 DEF GotNothing
<1>19. CASE GotOther
  BY <1>19 DEF GotOther, Reply
<1>20. CASE GotQuit
  BY <1>20 DEF GotQuit
<1>21. CASE GotEmpty
  BY <1>21 DEF GotEmpty
<1>22. CASE GotTransfer
  BY <1>22 DEF GotTransfer
<1>23. CASE Refused
  BY <1>23 DEF Refused, Reply
<1>24. CASE NoConnection
  BY <1>24 DEF NoConnection, Reply
<1>25. CASE Connected
  BY <1>25 DEF Connected
<1>26. CASE InitData
  BY <1>26 DEF InitData, StartDataAlarm
<1>27. CASE Mark
  BY <1>27 DEF Mark
<1>28. CASE Progress
  BY <1>28 DEF Progress
<1>29. CASE XferDone
  BY <1>29 DEF XferDone, XferEnds
<1>30. CASE XferCut
  BY <1>30 DEF XferCut, XferEnds
<1>31. CASE XferFails
  BY <1>31 DEF XferFails, XferEnds
<1>32. CASE Dispose
  BY <1>32 DEF Dispose, StartDataAlarm
<1>33. CASE Close
  BY <1>33 DEF Close
<1>34. CASE Log
  BY <1>34 DEF Log
<1>35. CASE Status
  BY <1>35 DEF Status
<1>36. CASE CheckAbor
  BY <1>36 DEF CheckAbor
<1>37. CASE Cleanup
  BY <1>37 DEF Cleanup
<1>38. CASE End
  BY <1>38 DEF End
<1>39. CASE WriteFails
  BY <1>39 DEF WriteFails
<1>40. CASE UNCHANGED vars
  BY <1>40 DEF vars
<1> QED
  BY <1>1, <1>2, <1>3, <1>4, <1>5, <1>6, <1>7, <1>8, <1>9, <1>10, <1>11, <1>12, <1>13,
     <1>14, <1>15, <1>16, <1>17, <1>18, <1>19, <1>20, <1>21, <1>22, <1>23, <1>24,
     <1>25, <1>26, <1>27, <1>28, <1>29, <1>30, <1>31, <1>32, <1>33, <1>34, <1>35,
     <1>36, <1>37, <1>38, <1>39, <1>40
  DEF Next, Checking, Serving

-----------------------------------------------------------------------------
(***************************************************************************)
(* The theorems.                                                           *)
(***************************************************************************)

\* IInv is inductive.
LEMMA Invariance == Spec => []IInv
<1>1. Init => IInv
  <2>1. Init => Booleans
    BY DEF Init, Booleans
  <2> QED
    BY <2>1 DEF Init, IInv, Booleans, TypeOK, NoBug, Descriptor, UrgOfTransfer, CutKnown, ReplyDue,
                AborDue, Alive, Transferring, Connection, Unanswered, Answered, Steps, Exits,
                Lines, Commands
<1>2. IInv /\ [Next]_vars => IInv'
  BY BooleansKept, StepKeeps DEF IInv, TypeOK
<1> QED
  BY <1>1, <1>2, PTL DEF Spec

\* The state of a session around its data transfers is typed.
THEOREM TypeCorrect == Spec => []TypeOK
<1>1. IInv => TypeOK
  BY DEF IInv
<1> QED
  BY <1>1, Invariance, PTL

\* None of the bug() calls around the data descriptor is reached: a transfer
\* finds nothing of an earlier one and is disposed of once.
THEOREM NoBugReached == Spec => []NoBug
<1>1. IInv => NoBug
  BY DEF IInv
<1> QED
  BY <1>1, Invariance, PTL

\* A transfer that one of the handlers cut off is not reported complete,
\* although a receiver takes the shutdown for the end of the file.
THEOREM CutIsReported == Spec => []CutNotComplete
<1>1. IInv => CutNotComplete
  BY DEF IInv, CutKnown, CutNotComplete
<1> QED
  BY <1>1, Invariance, PTL

\* Wherever the handler of SIGURG takes lines out of the command connection,
\* each line that is to be answered has had exactly one final reply when the
\* command ends, unless the data timeout struck, which ends the session.
THEOREM RepliedOnce == Spec => []OneReply
<1>1. IInv => OneReply
  BY DEF IInv, ReplyDue, AborDue, OneReply, At, Alive, Answered, Steps, Connection, Transferring
<1> QED
  BY <1>1, Invariance, PTL
==============================================================================
