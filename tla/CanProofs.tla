------------------------------ MODULE CanProofs ------------------------------
(***************************************************************************)
(* The transmit protocol and the filter bookkeeping of a CAN peripheral,   *)
(* for any number of frames, mailboxes, filters and buffers.               *)
(***************************************************************************)
EXTENDS Can, TLAPS

\* Which frames have been sent, which one may be in the controller, and where
\* its completion is, in each phase of can_write.
TxInv ==
    /\ next = frame + 1
    /\ sent <= frame
    /\ pending \subseteq {frame}
    /\ pending # {} => sent < frame /\ tx_lock = 0
    /\ pc = "send" => pending = {} /\ tx_lock = 0 /\ sent < frame
    /\ pc = "wait" => \/ tx_lock = 0 /\ pending = {frame}
                      \/ tx_lock = 1 /\ pending = {} /\ sent = frame
    /\ pc \notin {"send", "wait"} /\ ~tx_was_busy => pending = {} /\ tx_lock = 0

FilterInv ==
    /\ NoFilterLeak
    /\ pc = "add_std" => installed = {}
    /\ pc = "add_ext" => \A g \in installed : g.id = filter_std_id

IInv == TypeOK /\ TxInv /\ FilterInv

LEMMA InitIInv == Init => IInv
<1> SUFFICES ASSUME Init PROVE IInv
  OBVIOUS
<1> USE CanAssumption DEF Init
<1>1. TypeOK
  <2>1. AnyRange \in Ranges /\ filter_std_id \in FilterIds /\ filter_ext_id \in FilterIds
    OBVIOUS
  <2>2. installed \subseteq Filter
    BY <2>1 DEF Filter
  <2>3. /\ next \in 1..MaxFrames + 1 /\ frame \in 0..MaxFrames /\ sent \in 0..MaxFrames
        /\ tx_lock \in 0..1 /\ msgq \in 0..CAN_BUFFER_SIZE /\ num_left \in 0..CAN_BUFFER_SIZE
    OBVIOUS
  <2>4. started \in BOOLEAN /\ tx_was_busy \in BOOLEAN
    OBVIOUS
  <2>. QED
    BY <2>1, <2>2, <2>3, <2>4 DEF TypeOK
<1>2. TxInv
  BY DEF TxInv
<1>3. FilterInv
  BY DEF FilterInv, NoFilterLeak
<1>. QED
  BY <1>1, <1>2, <1>3 DEF IInv

LEMMA StepType == TypeOK /\ TxInv /\ [Next]_vars => TypeOK'
<1> SUFFICES ASSUME TypeOK, TxInv, [Next]_vars PROVE TypeOK'
  OBVIOUS
<1> USE CanAssumption DEF TypeOK, tx, filters, rx, Return
<1>1. ASSUME NEW f \in pending, Transmit(f) PROVE TypeOK'
  BY <1>1 DEF Transmit
<1>2. CASE Receive
  BY <1>2 DEF Receive
<1>3. CASE RefuseArgs
  BY <1>3 DEF RefuseArgs
<1>4. CASE WriteBusy
  BY <1>4 DEF WriteBusy
<1>5. CASE State \/ StopFails
  BY <1>5 DEF State, StopFails
<1>6. CASE WriteBegin
  BY <1>6 DEF WriteBegin, TxInv
<1>7. CASE SendOk
  BY <1>7 DEF SendOk, TxInv
<1>8. CASE SendFails
  BY <1>8 DEF SendFails
<1>9. CASE WriteDone
  <2>1. tx_was_busy' \in BOOLEAN
    BY <1>9 DEF WriteDone
  <2>2. tx_lock' \in 0..1
    BY <1>9 DEF WriteDone
  <2>. QED
    BY <1>9, <2>1, <2>2 DEF WriteDone
<1>10. CASE WriteTimeout
  BY <1>10 DEF WriteTimeout
<1>11. CASE Stop
  <2>1. started' \in BOOLEAN
    BY <1>11 DEF Stop
  <2>2. tx_lock' \in 0..1 /\ pending' \subseteq 1..MaxFrames
    BY <1>11 DEF Stop
  <2>. QED
    BY <1>11, <2>1, <2>2 DEF Stop
<1>12. CASE Reconfigure
  BY <1>12 DEF Reconfigure
<1>13. CASE Start
  BY <1>13 DEF Start
<1>14. CASE RemoveFilters
  BY <1>14 DEF RemoveFilters
<1>15. CASE AddStd
  <2>1. filter_std_id' \in FilterIds => [id |-> filter_std_id', ide |-> FALSE, range |-> range] \in Filter
    BY DEF Filter
  <2>2. installed' \subseteq Filter
    BY <1>15, <2>1 DEF AddStd, AddFilter
  <2>. QED
    BY <1>15, <2>2 DEF AddStd
<1>16. CASE AddExt
  <2>1. filter_ext_id' \in FilterIds => [id |-> filter_ext_id', ide |-> TRUE, range |-> range] \in Filter
    BY DEF Filter
  <2>2. installed' \subseteq Filter
    BY <1>16, <2>1 DEF AddExt, AddFilter
  <2>. QED
    BY <1>16, <2>2 DEF AddExt
<1>17. CASE ReadEmpty
  BY <1>17 DEF ReadEmpty
<1>18. CASE ReadGet
  BY <1>18 DEF ReadGet
<1>19. CASE ReadCount
  BY <1>19 DEF ReadCount
<1>20. CASE UNCHANGED vars
  BY <1>20 DEF vars
<1>. QED
  BY <1>1, <1>2, <1>3, <1>4, <1>5, <1>6, <1>7, <1>8, <1>9, <1>10, <1>11, <1>12, <1>13, <1>14, <1>15, <1>16, <1>17, <1>18, <1>19, <1>20
     DEF Next

LEMMA StepTx == TypeOK /\ TxInv /\ [Next]_vars => TxInv'
<1> SUFFICES ASSUME TypeOK, TxInv, [Next]_vars PROVE TxInv'
  OBVIOUS
<1> USE CanAssumption DEF TypeOK, TxInv, tx, filters, rx, Return
<1>1. ASSUME NEW f \in pending, Transmit(f) PROVE TxInv'
  <2>1. f = frame /\ pending' = {} /\ sent' = frame /\ tx_lock' = 1
    BY <1>1 DEF Transmit
  <2>2. pc # "send" /\ (pc \in {"wait"} \/ tx_was_busy)
    BY <1>1
  <2>3. UNCHANGED <<pc, next, frame, tx_was_busy>>
    BY <1>1 DEF Transmit
  <2>. QED
    BY <2>1, <2>2, <2>3
<1>2. CASE Receive
  BY <1>2 DEF Receive
<1>3. CASE RefuseArgs \/ WriteBusy \/ State \/ StopFails
  BY <1>3 DEF RefuseArgs, WriteBusy, State, StopFails
<1>4. CASE WriteBegin
  <2>1. pending = {}
    BY <1>4 DEF WriteBegin
  <2>2. tx_lock' = 0
    BY <1>4 DEF WriteBegin
  <2>. QED
    BY <1>4, <2>1, <2>2 DEF WriteBegin
<1>5. CASE SendOk
  BY <1>5 DEF SendOk
<1>6. CASE SendFails
  BY <1>6 DEF SendFails
<1>7. CASE WriteDone \/ WriteTimeout
  BY <1>7 DEF WriteDone, WriteTimeout
<1>8. CASE Stop
  BY <1>8 DEF Stop
<1>9. CASE Reconfigure \/ Start
  BY <1>9 DEF Reconfigure, Start
<1>10. CASE RemoveFilters \/ AddStd \/ AddExt
  BY <1>10 DEF RemoveFilters, AddStd, AddExt
<1>11. CASE ReadEmpty \/ ReadGet \/ ReadCount
  BY <1>11 DEF ReadEmpty, ReadGet, ReadCount
<1>12. CASE UNCHANGED vars
  BY <1>12 DEF vars
<1>. QED
  BY <1>1, <1>2, <1>3, <1>4, <1>5, <1>6, <1>7, <1>8, <1>9, <1>10, <1>11, <1>12 DEF Next

LEMMA StepFilter == TypeOK /\ FilterInv /\ [Next]_vars => FilterInv'
<1> SUFFICES ASSUME TypeOK, FilterInv, [Next]_vars PROVE FilterInv'
  OBVIOUS
<1> USE CanAssumption DEF FilterInv, NoFilterLeak, filters, Return
<1>1. ASSUME NEW f \in pending, Transmit(f) PROVE FilterInv'
  BY <1>1 DEF Transmit
<1>2. CASE Receive \/ RefuseArgs \/ WriteBusy \/ State
  BY <1>2 DEF Receive, RefuseArgs, WriteBusy, State
<1>3. CASE WriteBegin \/ SendOk \/ SendFails \/ WriteDone \/ WriteTimeout
  BY <1>3 DEF WriteBegin, SendOk, SendFails, WriteDone, WriteTimeout
<1>4. CASE Stop \/ StopFails \/ Reconfigure \/ Start
  BY <1>4 DEF Stop, StopFails, Reconfigure, Start
<1>5. CASE RemoveFilters
  BY <1>5 DEF RemoveFilters
<1>6. CASE AddStd
  BY <1>6 DEF AddStd, AddFilter
<1>7. CASE AddExt
  BY <1>7 DEF AddExt, AddFilter
<1>8. CASE ReadEmpty \/ ReadGet \/ ReadCount
  BY <1>8 DEF ReadEmpty, ReadGet, ReadCount
<1>9. CASE UNCHANGED vars
  BY <1>9 DEF vars
<1>. QED
  BY <1>1, <1>2, <1>3, <1>4, <1>5, <1>6, <1>7, <1>8, <1>9 DEF Next

THEOREM Invariance == Spec => []IInv
<1>1. IInv /\ [Next]_vars => IInv'
  BY StepType, StepTx, StepFilter DEF IInv
<1>. QED
  BY InitIInv, <1>1, PTL DEF Spec

(***************************************************************************)
(* Type correctness: the bounds of the mailboxes, of the receive queue and *)
(* of the semaphore of a CAN peripheral.                                   *)
(***************************************************************************)
THEOREM TypeCorrect == Spec => []TypeOK
BY Invariance, PTL DEF IInv

(***************************************************************************)
(* At most one frame or completion is outstanding at any time.             *)
(***************************************************************************)
THEOREM OneFrame == Spec => []OneOutstanding
<1>1. IInv => OneOutstanding
  <2> SUFFICES ASSUME IInv PROVE OneOutstanding
    OBVIOUS
  <2> USE DEF IInv, TxInv
  <2>1. pending = {} \/ (tx_lock = 0 /\ pending = {frame})
    OBVIOUS
  <2>. QED
    BY <2>1 DEF OneOutstanding
<1>. QED
  BY <1>1, Invariance, PTL

(***************************************************************************)
(* Frames reach the bus in the order of the writes.                        *)
(***************************************************************************)
THEOREM Fifo == Spec => [][sent' >= sent]_vars
<1>1. IInv /\ [Next]_vars => [sent' >= sent]_vars
  <2> SUFFICES ASSUME IInv, Next PROVE sent' >= sent
    OBVIOUS
  <2> USE DEF IInv, TypeOK, TxInv, tx
  <2>1. ASSUME NEW f \in pending, Transmit(f) PROVE sent' >= sent
    BY <2>1 DEF Transmit
  <2>2. CASE ~\E f \in pending : Transmit(f)
    <3>1. sent' = sent
      BY <2>2 DEF Next, Receive, RefuseArgs, WriteBusy, WriteBegin, SendOk, SendFails, WriteDone,
         WriteTimeout, Stop, StopFails, Reconfigure, Start, RemoveFilters, AddStd, AddExt, ReadEmpty,
         ReadGet, ReadCount, State
    <3>. QED
      BY <3>1
  <2>. QED
    BY <2>1, <2>2
<1>. QED
  BY <1>1, Invariance, PTL DEF Spec

(***************************************************************************)
(* A write that reports success has put its own frame on the bus.          *)
(***************************************************************************)
THEOREM Success == Spec => [][WriteDone => sent = frame]_vars
<1>1. IInv /\ [Next]_vars => [WriteDone => sent = frame]_vars
  BY DEF IInv, TxInv, WriteDone
<1>. QED
  BY <1>1, Invariance, PTL DEF Spec

(***************************************************************************)
(* A can_set_rate or can_set_style that reports success leaves the         *)
(* controller started.                                                     *)
(***************************************************************************)
THEOREM Started == Spec => SuccessMeansStarted
<1>1. [Next]_vars => [(pc \in {"config", "start"} /\ pc' = "idle" /\ retcode' = NoErr) => started']_vars
  <2> SUFFICES ASSUME Next, pc \in {"config", "start"}, pc' = "idle", retcode' = NoErr
               PROVE  started'
    OBVIOUS
  <2>1. CASE Reconfigure
    BY <2>1, CanAssumption DEF Reconfigure, Return
  <2>2. CASE Start
    BY <2>2, CanAssumption DEF Start, Return
  <2>3. CASE ~Reconfigure /\ ~Start
    BY <2>3 DEF Next, Transmit, Receive, RefuseArgs, WriteBusy, WriteBegin, SendOk, SendFails,
       WriteDone, WriteTimeout, Stop, StopFails, RemoveFilters, AddStd, AddExt, ReadEmpty, ReadGet,
       ReadCount, State
  <2>. QED
    BY <2>1, <2>2, <2>3
<1>. QED
  BY <1>1, PTL DEF Spec, SuccessMeansStarted

(***************************************************************************)
(* A step of the peripheral is a step of WriteService or none.  A frame is *)
(* handed over when can_send takes it, not when can_write begins, so that  *)
(* a write that fails there is none of the service's.                      *)
(***************************************************************************)
LEMMA StepWrites == IInv /\ [Next]_vars => [Writes!Next]_(Writes!vars)
<1> SUFFICES ASSUME IInv, [Next]_vars PROVE [Writes!Next]_(Writes!vars)
  OBVIOUS
<1> DEFINE written == IF pending = {} THEN sent ELSE frame
<1>1. ASSUME pc # "wait", pc' # "wait", UNCHANGED <<pending, sent, frame>>
      PROVE  Writes!Next
  BY <1>1 DEF Writes!Next, Writes!Other
<1> USE DEF IInv, TypeOK, TxInv, tx, Return
<1>2. ASSUME NEW f \in pending, Transmit(f) PROVE Writes!Next
  <2>1. /\ f = frame /\ pending' = {} /\ sent' = frame /\ sent < frame /\ written = frame
        /\ UNCHANGED <<pc, retcode>>
    BY <1>2 DEF Transmit
  <2>. QED
    BY <2>1 DEF Writes!Next, Writes!Leave
<1>3. CASE WriteBegin
  <2>1. pending = {} /\ pending' = {} /\ pc = "idle" /\ pc' = "send" /\ UNCHANGED <<sent, retcode>>
    BY <1>3 DEF WriteBegin
  <2>. QED
    BY <2>1 DEF Writes!Next, Writes!Other
<1>4. CASE SendOk
  <2>1. /\ pending = {} /\ pending' # {} /\ sent < frame /\ pc = "send" /\ pc' = "wait"
        /\ UNCHANGED <<sent, frame, retcode>>
    BY <1>4 DEF SendOk
  <2>. QED
    BY <2>1 DEF Writes!Next, Writes!HandOver
<1>5. CASE WriteDone
  <2>1. /\ pc = "wait" /\ pc' = "idle" /\ retcode' = NoErr /\ pending = {}
        /\ UNCHANGED <<pending, sent, frame>>
    BY <1>5 DEF WriteDone
  <2>. QED
    BY <2>1 DEF Writes!Next, Writes!Succeed
<1>6. CASE WriteTimeout
  <2>1. pc = "wait" /\ pc' = "idle" /\ retcode' = BusyErr /\ UNCHANGED <<pending, sent, frame>>
    BY <1>6 DEF WriteTimeout
  <2>. QED
    BY <2>1, CanAssumption DEF Writes!Next, Writes!GiveUp
<1>7. CASE Stop
  <2>1. pc = "idle" /\ pc' = "config" /\ pending' = {} /\ UNCHANGED <<sent, frame, retcode>>
    BY <1>7 DEF Stop
  <2>. QED
    BY <2>1 DEF Writes!Next, Writes!Abort
<1>8. CASE Receive
  BY <1>8 DEF Receive, Writes!vars
<1>9. CASE SendFails
  BY <1>1, <1>9 DEF SendFails
<1>10. CASE \/ RefuseArgs \/ WriteBusy \/ StopFails \/ Reconfigure \/ Start \/ RemoveFilters
           \/ AddStd \/ AddExt \/ ReadEmpty \/ ReadGet \/ ReadCount \/ State
  BY <1>1, <1>10 DEF RefuseArgs, WriteBusy, StopFails, Reconfigure, Start, RemoveFilters, AddStd,
     AddExt, ReadEmpty, ReadGet, ReadCount, State
<1>11. CASE UNCHANGED vars
  BY <1>11 DEF vars, Writes!vars
<1>. QED
  BY <1>2, <1>3, <1>4, <1>5, <1>6, <1>7, <1>8, <1>9, <1>10, <1>11 DEF Next

(***************************************************************************)
(* can_write keeps the promises of WriteService, with can_stop as the one  *)
(* thing that drops a frame.                                               *)
(***************************************************************************)
THEOREM WritesRefined == Spec => ImplementsWrites
<1>1. Init => Writes!Init
  BY DEF Init, Writes!Init
<1>. QED
  BY <1>1, StepWrites, Invariance, PTL DEF Spec, ImplementsWrites, Writes!Spec

(***************************************************************************)
(* Only a can_send that fails loses the completion that tx_was_busy stands *)
(* for.                                                                    *)
(***************************************************************************)
THEOREM Stranding == Spec => OnlyFailedSendStrands
<1>1. ASSUME IInv, [Next]_vars, ~Stranded, Stranded' PROVE SendFails
  <2> USE <1>1 DEF Stranded, IInv, TxInv, TypeOK, tx
  <2>1. ASSUME NEW f \in pending, Transmit(f) PROVE FALSE
    BY <2>1 DEF Transmit
  <2>2. CASE WriteBegin
    BY <2>2 DEF WriteBegin
  <2>3. CASE SendOk
    BY <2>3 DEF SendOk
  <2>4. CASE WriteDone \/ WriteTimeout
    BY <2>4 DEF WriteDone, WriteTimeout, Return
  <2>5. CASE Stop
    BY <2>5 DEF Stop
  <2>6. CASE UNCHANGED vars
    BY <2>6 DEF vars
  <2>7. CASE \/ Receive \/ RefuseArgs \/ WriteBusy \/ StopFails \/ Reconfigure \/ Start
            \/ RemoveFilters \/ AddStd \/ AddExt \/ ReadEmpty \/ ReadGet \/ ReadCount \/ State
    <3>1. UNCHANGED <<pending, tx_lock, tx_was_busy>> /\ pc # "send"
      BY <2>7 DEF Receive, RefuseArgs, WriteBusy, StopFails, Reconfigure, Start, RemoveFilters,
         AddStd, AddExt, ReadEmpty, ReadGet, ReadCount, State, Return
    <3>. QED
      BY <3>1
  <2>. QED
    BY <2>1, <2>2, <2>3, <2>4, <2>5, <2>6, <2>7 DEF Next
<1>2. IInv /\ [Next]_vars => [~Stranded /\ Stranded' => SendFails]_vars
  BY <1>1
<1>. QED
  BY <1>2, Invariance, PTL DEF Spec, OnlyFailedSendStrands

(***************************************************************************)
(* can_set_filter never loses track of a filter it installed.              *)
(***************************************************************************)
THEOREM FiltersTracked == Spec => []NoFilterLeak
BY Invariance, PTL DEF IInv, FilterInv
=============================================================================
