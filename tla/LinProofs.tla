------------------------------ MODULE LinProofs ------------------------------
(***************************************************************************)
(* The mode changes and the two locks of a LIN peripheral, for any number  *)
(* of identifiers, writes, filters and queue entries.                      *)
(***************************************************************************)
EXTENDS Lin, TLAPS

\* msg_lock is down exactly while tx_msgs or filters is half written, and then
\* only the entry that the running function writes is.
LockInv ==
    /\ msg_lock = IF pc \in {"filter", "write"} THEN 0 ELSE 1
    /\ pc \in {"filter", "write", "sending", "receiving"} => id \in Ids
    /\ \A x \in Ids : active[x] => msg[x] = written[x] \/ (pc = "write" /\ id = x)
    /\ \A x \in Ids : filters[x].type = filters[x].len \/ (pc = "filter" /\ id = x)
    /\ mode = COMMANDER => \A x \in Ids : ~active[x]
    /\ pc = "write" => mode = RESPONDER /\ next <= MaxWrites

\* Who owes a completion: nobody, or the one transfer of the running function.
ModeInv ==
    /\ driver_mode = IF pc = "switch" THEN target ELSE mode
    /\ pc \in {"sending", "receiving"} => mode = COMMANDER

Idle == cmd_lock = 0 /\ rx_msgs = <<>> /\ transfer = NoTransfer

CommandInv ==
    ~raced =>
      /\ mode = COMMANDER /\ pc \notin {"sending", "receiving", "switch"} => Idle
      /\ mode = COMMANDER /\ pc = "switch" =>
            /\ cmd_lock = 0
            /\ rx_msgs = <<>>
            /\ target = COMMANDER => transfer = NoTransfer
      /\ mode = RESPONDER => cmd_lock = 0
      /\ mode = RESPONDER /\ pc = "switch" /\ target = COMMANDER => transfer = NoTransfer
      /\ pc = "sending" =>
            /\ rx_msgs = <<>>
            /\ \/ cmd_lock = 0 /\ transfer = <<"send", id>>
               \/ cmd_lock = 1 /\ transfer = NoTransfer
      /\ pc = "receiving" =>
            \/ cmd_lock = 0 /\ transfer = <<"receive", id>> /\ rx_msgs = <<>>
            \/ /\ cmd_lock = 1
               /\ transfer = NoTransfer
               /\ rx_msgs = IF status.retcode = 0 THEN <<id>> ELSE <<>>

IInv == TypeOK /\ LockInv /\ ModeInv /\ CommandInv

LEMMA InitIInv == Init => IInv
<1> SUFFICES ASSUME Init PROVE IInv
  OBVIOUS
<1> USE LinAssumption DEF Init, COMMANDER, RESPONDER
<1>1. TypeOK
  <2>1. rx_msgs \in Seq(Ids) /\ Len(rx_msgs) <= LIN_BUFFER_SIZE
    OBVIOUS
  <2>2. raced \in BOOLEAN /\ sent_since \in BOOLEAN /\ active \in [Ids -> BOOLEAN]
    OBVIOUS
  <2>. QED
    BY <2>1, <2>2 DEF TypeOK
<1>2. LockInv
  BY DEF LockInv
<1>3. ModeInv
  BY DEF ModeInv
<1>4. CommandInv
  BY DEF CommandInv, Idle
<1>. QED
  BY <1>1, <1>2, <1>3, <1>4 DEF IInv

LEMMA StepType == TypeOK /\ LockInv /\ [Next]_vars => TypeOK'
<1> SUFFICES ASSUME TypeOK, LockInv, [Next]_vars PROVE TypeOK'
  OBVIOUS
<1> USE LinAssumption DEF TypeOK, LockInv, Transfer, COMMANDER, RESPONDER, Return, driver, tx, ghosts
<1>1. ASSUME NEW x \in Ids, HeaderSend(x) PROVE TypeOK'
  BY <1>1 DEF Header, HeaderSend
<1>2. ASSUME NEW x \in Ids, HeaderReceive(x) PROVE TypeOK'
  BY <1>2 DEF Header, HeaderReceive
<1>3. CASE Sent
  BY <1>3 DEF Sent, Completed, InProgress
<1>4. CASE ReceiveFailed
  BY <1>4 DEF ReceiveFailed, Completed, InProgress
<1>5. CASE Received
  <2>1. PICK x \in Ids : transfer = <<"receive", x>>
    BY <1>5 DEF Received, InProgress
  <2>2. transfer[2] \in Ids
    BY <2>1
  <2>3. rx_msgs' \in Seq(Ids) /\ Len(rx_msgs') <= LIN_BUFFER_SIZE
    BY <2>2, <1>5 DEF Received
  <2>. QED
    BY <2>3, <1>5 DEF Received, Completed
<1>6. CASE Refuse
  BY <1>6 DEF Refuse
<1>7. CASE SetRateOrMode
  BY <1>7 DEF SetRateOrMode
<1>8. CASE SwitchDriver
  BY <1>8 DEF SwitchDriver
<1>9. CASE Switch
  BY <1>9 DEF Switch
<1>10. CASE FilterType
  <2>1. PICK f \in FilterArgs : filters' = [filters EXCEPT ![id'].type = f]
    BY <1>10 DEF FilterType
  <2>2. filters' \in [Ids -> [type : FilterArgs, len : FilterArgs]]
    BY <2>1, <1>10 DEF FilterType
  <2>. QED
    BY <2>2, <1>10 DEF FilterType
<1>11. CASE FilterLen
  BY <1>11 DEF FilterLen
<1>12. CASE WriteSend
  BY <1>12 DEF WriteSend, Command
<1>13. CASE WriteSent
  BY <1>13 DEF WriteSent
<1>14. CASE WriteActive
  BY <1>14 DEF WriteActive
<1>15. CASE WriteMsg
  <2>1. id \in Ids /\ pc = "write" /\ next \in 1..MaxWrites
    BY <1>15 DEF WriteMsg
  <2>2. msg' \in [Ids -> 0..MaxWrites] /\ written' \in [Ids -> 1..MaxWrites \cup {NoFrame}]
    BY <2>1, <1>15 DEF WriteMsg
  <2>3. next' \in 1..MaxWrites + 1
    BY <2>1, <1>15 DEF WriteMsg
  <2>. QED
    BY <2>2, <2>3, <1>15 DEF WriteMsg
<1>16. CASE ReadSend
  BY <1>16 DEF ReadSend, Command
<1>17. CASE ReadTimeout
  BY <1>17 DEF ReadTimeout
<1>18. CASE ReadReceived
  BY <1>18 DEF ReadReceived
<1>19. CASE ReadNothing
  BY <1>19 DEF ReadNothing
<1>20. CASE ReadQueued
  BY <1>20 DEF ReadQueued
<1>21. CASE ReadEmpty
  BY <1>21 DEF ReadEmpty
<1>22. CASE Status
  BY <1>22 DEF Status
<1>23. CASE UNCHANGED vars
  BY <1>23 DEF vars
<1>. QED
  BY <1>1, <1>2, <1>3, <1>4, <1>5, <1>6, <1>7, <1>8, <1>9, <1>10, <1>11, <1>12, <1>13, <1>14, <1>15, <1>16, <1>17, <1>18, <1>19, <1>20, <1>21, <1>22, <1>23
     DEF Next, Isr, Thread

LEMMA StepLock == TypeOK /\ LockInv /\ [Next]_vars => LockInv'
<1> SUFFICES ASSUME TypeOK, LockInv, [Next]_vars PROVE LockInv'
  OBVIOUS
<1> USE LinAssumption DEF TypeOK, LockInv, COMMANDER, RESPONDER, Return, driver, tx, ghosts
<1>1. ASSUME NEW x \in Ids, HeaderSend(x) PROVE LockInv'
  BY <1>1 DEF Header, HeaderSend
<1>2. ASSUME NEW x \in Ids, HeaderReceive(x) PROVE LockInv'
  BY <1>2 DEF Header, HeaderReceive
<1>3. CASE Sent
  BY <1>3 DEF Sent, Completed, InProgress
<1>4. CASE ReceiveFailed
  BY <1>4 DEF ReceiveFailed, Completed, InProgress
<1>5. CASE Received
  BY <1>5 DEF Received, Completed, InProgress
<1>6. CASE Refuse
  BY <1>6 DEF Refuse
<1>7. CASE SetRateOrMode
  BY <1>7 DEF SetRateOrMode
<1>8. CASE SwitchDriver
  BY <1>8 DEF SwitchDriver
<1>9. CASE Switch
  BY <1>9 DEF Switch
<1>10. CASE FilterType
  BY <1>10 DEF FilterType
<1>11. CASE FilterLen
  BY <1>11 DEF FilterLen
<1>12. CASE WriteSend
  BY <1>12 DEF WriteSend, Command
<1>13. CASE WriteSent
  BY <1>13 DEF WriteSent
<1>14. CASE WriteActive
  BY <1>14 DEF WriteActive
<1>15. CASE WriteMsg
  BY <1>15 DEF WriteMsg
<1>16. CASE ReadSend
  BY <1>16 DEF ReadSend, Command
<1>17. CASE ReadTimeout
  BY <1>17 DEF ReadTimeout
<1>18. CASE ReadReceived
  BY <1>18 DEF ReadReceived
<1>19. CASE ReadNothing
  BY <1>19 DEF ReadNothing
<1>20. CASE ReadQueued
  BY <1>20 DEF ReadQueued
<1>21. CASE ReadEmpty
  BY <1>21 DEF ReadEmpty
<1>22. CASE Status
  BY <1>22 DEF Status
<1>23. CASE UNCHANGED vars
  BY <1>23 DEF vars
<1>. QED
  BY <1>1, <1>2, <1>3, <1>4, <1>5, <1>6, <1>7, <1>8, <1>9, <1>10, <1>11, <1>12, <1>13, <1>14, <1>15, <1>16, <1>17, <1>18, <1>19, <1>20, <1>21, <1>22, <1>23
     DEF Next, Isr, Thread

LEMMA StepMode == TypeOK /\ ModeInv /\ [Next]_vars => ModeInv'
<1> SUFFICES ASSUME TypeOK, ModeInv, [Next]_vars PROVE ModeInv'
  OBVIOUS
<1> USE LinAssumption DEF ModeInv, COMMANDER, RESPONDER, Return, driver, tx, ghosts
<1>1. ASSUME NEW x \in Ids, HeaderSend(x) PROVE ModeInv'
  BY <1>1 DEF Header, HeaderSend
<1>2. ASSUME NEW x \in Ids, HeaderReceive(x) PROVE ModeInv'
  BY <1>2 DEF Header, HeaderReceive
<1>3. CASE Sent
  BY <1>3 DEF Sent, Completed, InProgress
<1>4. CASE ReceiveFailed
  BY <1>4 DEF ReceiveFailed, Completed, InProgress
<1>5. CASE Received
  BY <1>5 DEF Received, Completed, InProgress
<1>6. CASE Refuse
  BY <1>6 DEF Refuse
<1>7. CASE SetRateOrMode
  BY <1>7 DEF SetRateOrMode
<1>8. CASE SwitchDriver
  BY <1>8 DEF SwitchDriver
<1>9. CASE Switch
  BY <1>9 DEF Switch
<1>10. CASE FilterType
  BY <1>10 DEF FilterType
<1>11. CASE FilterLen
  BY <1>11 DEF FilterLen
<1>12. CASE WriteSend
  BY <1>12 DEF WriteSend, Command
<1>13. CASE WriteSent
  BY <1>13 DEF WriteSent
<1>14. CASE WriteActive
  BY <1>14 DEF WriteActive
<1>15. CASE WriteMsg
  BY <1>15 DEF WriteMsg
<1>16. CASE ReadSend
  BY <1>16 DEF ReadSend, Command
<1>17. CASE ReadTimeout
  BY <1>17 DEF ReadTimeout
<1>18. CASE ReadReceived
  BY <1>18 DEF ReadReceived
<1>19. CASE ReadNothing
  BY <1>19 DEF ReadNothing
<1>20. CASE ReadQueued
  BY <1>20 DEF ReadQueued
<1>21. CASE ReadEmpty
  BY <1>21 DEF ReadEmpty
<1>22. CASE Status
  BY <1>22 DEF Status
<1>23. CASE UNCHANGED vars
  BY <1>23 DEF vars
<1>. QED
  BY <1>1, <1>2, <1>3, <1>4, <1>5, <1>6, <1>7, <1>8, <1>9, <1>10, <1>11, <1>12, <1>13, <1>14, <1>15, <1>16, <1>17, <1>18, <1>19, <1>20, <1>21, <1>22, <1>23
     DEF Next, Isr, Thread

LEMMA StepCommand == TypeOK /\ LockInv /\ ModeInv /\ CommandInv /\ [Next]_vars => CommandInv'
<1> SUFFICES ASSUME TypeOK, LockInv, ModeInv, CommandInv, [Next]_vars PROVE CommandInv'
  OBVIOUS
<1> USE LinAssumption DEF TypeOK, LockInv, ModeInv, CommandInv, Idle, COMMANDER, RESPONDER, Return, driver, tx, ghosts
<1>1. ASSUME NEW x \in Ids, HeaderSend(x) PROVE CommandInv'
  BY <1>1 DEF Header, HeaderSend
<1>2. ASSUME NEW x \in Ids, HeaderReceive(x) PROVE CommandInv'
  BY <1>2 DEF Header, HeaderReceive
<1>3. CASE Sent
  <2>1. PICK x \in Ids : transfer = <<"send", x>>
    BY <1>3 DEF Sent, InProgress
  <2>2. transfer # NoTransfer /\ transfer # <<"receive", id>>
    BY <2>1
  <2>3. ~raced' => ~raced /\ pc # "switch"
    BY <1>3 DEF Sent, Completed
  <2>4. /\ transfer' = NoTransfer
        /\ cmd_lock' = IF mode = COMMANDER THEN 1 ELSE cmd_lock
        /\ UNCHANGED <<pc, id, mode, target>>
    BY <1>3 DEF Sent, Completed
  <2>5. rx_msgs' = rx_msgs
    BY <2>1, <1>3 DEF Sent, Completed
  <2>. QED
    BY <2>2, <2>3, <2>4, <2>5
<1>4. CASE ReceiveFailed
  <2>1. PICK x \in Ids : transfer = <<"receive", x>>
    BY <1>4 DEF ReceiveFailed, InProgress
  <2>2. transfer # NoTransfer /\ transfer # <<"send", id>>
    BY <2>1
  <2>3. ~raced' => ~raced /\ pc # "switch"
    BY <1>4 DEF ReceiveFailed, Completed
  <2>4. /\ transfer' = NoTransfer
        /\ cmd_lock' = IF mode = COMMANDER THEN 1 ELSE cmd_lock
        /\ UNCHANGED <<pc, id, mode, target>>
    BY <1>4 DEF ReceiveFailed, Completed
  <2>5. rx_msgs' = rx_msgs /\ status'.retcode = -1
    BY <2>1, <1>4 DEF ReceiveFailed, Completed
  <2>. QED
    BY <2>2, <2>3, <2>4, <2>5
<1>5. CASE Received
  <2>1. PICK x \in Ids : transfer = <<"receive", x>>
    BY <1>5 DEF Received, InProgress
  <2>2. transfer # NoTransfer /\ transfer # <<"send", id>>
    BY <2>1
  <2>3. ~raced' => ~raced /\ pc # "switch"
    BY <1>5 DEF Received, Completed
  <2>4. /\ transfer' = NoTransfer
        /\ cmd_lock' = IF mode = COMMANDER THEN 1 ELSE cmd_lock
        /\ UNCHANGED <<pc, id, mode, target>>
    BY <1>5 DEF Received, Completed
  <2>5. status'.retcode = 0
    BY <1>5 DEF Received, Completed
  <2>6. ASSUME rx_msgs = <<>>, transfer = <<"receive", id>> PROVE rx_msgs' = <<id>>
    <3>1. Len(rx_msgs) < LIN_BUFFER_SIZE /\ transfer[2] = id
      BY <2>6
    <3>2. rx_msgs' = Append(<<>>, id)
      BY <3>1, <2>6, <1>5 DEF Received
    <3>. QED
      BY <3>2
  <2>. QED
    BY <2>2, <2>3, <2>4, <2>5, <2>6
<1>6. CASE Refuse
  BY <1>6 DEF Refuse
<1>7. CASE SetRateOrMode
  BY <1>7 DEF SetRateOrMode
<1>8. CASE SwitchDriver
  BY <1>8 DEF SwitchDriver
<1>9. CASE Switch
  BY <1>9 DEF Switch
<1>10. CASE FilterType
  BY <1>10 DEF FilterType
<1>11. CASE FilterLen
  BY <1>11 DEF FilterLen
<1>12. CASE WriteSend
  BY <1>12 DEF WriteSend, Command
<1>13. CASE WriteSent
  BY <1>13 DEF WriteSent
<1>14. CASE WriteActive
  BY <1>14 DEF WriteActive
<1>15. CASE WriteMsg
  BY <1>15 DEF WriteMsg
<1>16. CASE ReadSend
  BY <1>16 DEF ReadSend, Command
<1>17. CASE ReadTimeout
  BY <1>17 DEF ReadTimeout
<1>18. CASE ReadReceived
  BY <1>18 DEF ReadReceived
<1>19. CASE ReadNothing
  BY <1>19 DEF ReadNothing
<1>20. CASE ReadQueued
  BY <1>20 DEF ReadQueued
<1>21. CASE ReadEmpty
  BY <1>21 DEF ReadEmpty
<1>22. CASE Status
  BY <1>22 DEF Status
<1>23. CASE UNCHANGED vars
  BY <1>23 DEF vars
<1>. QED
  BY <1>1, <1>2, <1>3, <1>4, <1>5, <1>6, <1>7, <1>8, <1>9, <1>10, <1>11, <1>12, <1>13, <1>14, <1>15, <1>16, <1>17, <1>18, <1>19, <1>20, <1>21, <1>22, <1>23
     DEF Next, Isr, Thread

THEOREM Invariance == Spec => []IInv
<1>1. IInv /\ [Next]_vars => IInv'
  BY StepType, StepLock, StepMode, StepCommand DEF IInv
<1>. QED
  BY InitIInv, <1>1, PTL DEF Spec

(***************************************************************************)
(* Type correctness, with the bounds of the queue and of both semaphores.  *)
(***************************************************************************)
THEOREM TypeCorrect == Spec => []TypeOK
BY Invariance, PTL DEF IInv

(***************************************************************************)
(* Nothing of responder mode, and no earlier command, is left over when a  *)
(* commander is asked for its next transfer.                               *)
(***************************************************************************)
THEOREM CleanCommander == Spec => []CommanderStartsClean
<1>1. IInv => CommanderStartsClean
  BY DEF IInv, CommandInv, CommanderStartsClean, Idle
<1>. QED
  BY <1>1, Invariance, PTL

(***************************************************************************)
(* A command that waits without a time-out has something to wait for, even *)
(* after the race that CommanderStartsClean excludes.                      *)
(***************************************************************************)
THEOREM CompletionComes == Spec => []WaitHasCompletion
<1>1. Init => WaitHasCompletion
  BY DEF Init, WaitHasCompletion
<1>2. IInv /\ WaitHasCompletion /\ [Next]_vars => WaitHasCompletion'
  <2> SUFFICES ASSUME IInv, WaitHasCompletion, [Next]_vars,
                      pc' \in {"sending", "receiving"}
               PROVE  transfer' # NoTransfer \/ cmd_lock' = 1
    BY DEF WaitHasCompletion
  <2> USE LinAssumption DEF WaitHasCompletion, driver, Return
  <2>1. CASE Isr
    <3>1. pc' = pc
      BY <2>1 DEF Isr, HeaderSend, HeaderReceive, Header, Sent, ReceiveFailed, Received, Completed
    <3>2. mode = COMMANDER /\ driver_mode = COMMANDER
      BY <3>1 DEF IInv, ModeInv
    <3>3. CASE Sent \/ ReceiveFailed \/ Received
      BY <3>2, <3>3 DEF Sent, ReceiveFailed, Received, Completed
    <3>4. ASSUME NEW x \in Ids, HeaderSend(x) \/ HeaderReceive(x) PROVE FALSE
      BY <3>2, <3>4 DEF HeaderSend, HeaderReceive, Header, COMMANDER, RESPONDER
    <3>. QED
      BY <2>1, <3>3, <3>4 DEF Isr
  <2>2. CASE WriteSend \/ ReadSend
    BY <2>2 DEF WriteSend, ReadSend, Command
  <2>3. CASE UNCHANGED vars
    BY <2>3 DEF vars
  <2>4. CASE Thread /\ ~WriteSend /\ ~ReadSend
    BY <2>4 DEF Thread, Refuse, SetRateOrMode, SwitchDriver, Switch, FilterType, FilterLen,
       WriteSent, WriteActive, WriteMsg, ReadTimeout, ReadReceived, ReadNothing, ReadQueued,
       ReadEmpty, Status
  <2>. QED
    BY <2>1, <2>2, <2>3, <2>4 DEF Next
<1>. QED
  BY <1>1, <1>2, Invariance, PTL DEF Spec

(***************************************************************************)
(* lin_read as commander returns the frame it asked the bus for.           *)
(***************************************************************************)
THEOREM OwnFrame == Spec => ReadsOwnFrame
<1>1. ASSUME IInv, [Next]_vars
      PROVE [/\ ReadReceived => result'.id = id \/ raced
             /\ ReadNothing => raced]_vars
  <2>1. ASSUME ReadReceived, ~raced PROVE result'.id = id
    <3>1. pc = "receiving" /\ cmd_lock = 1 /\ status.retcode = 0
      BY <2>1 DEF ReadReceived
    <3>2. rx_msgs = <<id>>
      BY <2>1, <3>1, <1>1 DEF IInv, CommandInv
    <3>3. result' = [retcode |-> NoErr, id |-> Head(rx_msgs)]
      BY <2>1 DEF ReadReceived, Return
    <3>. QED
      BY <3>2, <3>3
  <2>2. ASSUME ReadNothing PROVE raced
    <3>1. pc = "receiving" /\ cmd_lock = 1 /\ status.retcode = 0 /\ rx_msgs = <<>>
      BY <2>2 DEF ReadNothing
    <3>2. ~raced => rx_msgs = <<id>>
      BY <3>1, <1>1 DEF IInv, CommandInv
    <3>3. raced \in BOOLEAN /\ <<id>> # <<>>
      BY <1>1 DEF IInv, TypeOK
    <3>. QED
      BY <3>1, <3>2, <3>3
  <2>. QED
    BY <2>1, <2>2
<1>. QED
  BY <1>1, Invariance, PTL DEF Spec, ReadsOwnFrame

(***************************************************************************)
(* A responder sends whole frames, once, and only those of its present     *)
(* stay in responder mode.                                                 *)
(***************************************************************************)
THEOREM SendsWritten == Spec => SendsWhatWasWritten
<1>1. ASSUME IInv, NEW x \in Ids, HeaderSend(x) PROVE msg[x] = written[x]
  BY <1>1 DEF IInv, LockInv, HeaderSend, Header
<1>2. IInv => [\A x \in Ids : HeaderSend(x) => msg[x] = written[x]]_vars
  BY <1>1
<1>. QED
  BY <1>2, Invariance, PTL DEF Spec, SendsWhatWasWritten

(***************************************************************************)
(* A responder never receives with half of one filter and half of another. *)
(***************************************************************************)
THEOREM WholeFilters == Spec => ReceivesWithOneFilter
<1>1. ASSUME IInv, NEW x \in Ids, HeaderReceive(x) PROVE filters[x].type = filters[x].len
  BY <1>1 DEF IInv, LockInv, HeaderReceive, Header
<1>2. IInv => [\A x \in Ids : HeaderReceive(x) => filters[x].type = filters[x].len]_vars
  BY <1>1
<1>. QED
  BY <1>2, Invariance, PTL DEF Spec, ReceivesWithOneFilter
=============================================================================
