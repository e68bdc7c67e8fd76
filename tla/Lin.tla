-------------------------------- MODULE Lin --------------------------------
(***************************************************************************)
(* One LIN peripheral (firmware/src/peripherals/lin.c): the interface      *)
(* thread that holds the device's lock runs its functions, while the       *)
(* controller calls lin_header_cb, lin_tx_cb and lin_rx_cb in interrupts.  *)
(*                                                                         *)
(* A frame to send is its number in the order of the lin_write calls; a    *)
(* received frame is its identifier.  The driver is not part of the        *)
(* repository: it refuses a transfer while one is in progress, ends every  *)
(* transfer it accepts with one callback, and lin_set_mode drops what is   *)
(* in progress (lin.c:136-142 purges on that account).                     *)
(* lin_read's num_left is left out: it is taken as in Can.tla.             *)
(***************************************************************************)
EXTENDS Integers, Sequences

CONSTANTS
    Ids,                \* LIN identifiers
    MaxWrites,          \* bound: lin_write calls with valid arguments
    LIN_BUFFER_SIZE,    \* CONFIG_JABI_LIN_BUFFER_SIZE, frames in rx_msgs
    FilterArgs,         \* checksum type and length of a lin_set_filter call
    DefaultFilter       \* LIN_CHECKSUM_AUTO and 0

CONSTANTS NoErr, InvalidArgsErr, PeripheralErr, TimeoutErr, NoId, NoFrame, NoTransfer

COMMANDER == 0
RESPONDER == 1

ASSUME LinAssumption ==
    /\ MaxWrites \in Nat
    /\ LIN_BUFFER_SIZE \in Nat \ {0}
    /\ DefaultFilter \in FilterArgs
    /\ NoId \notin Ids
    /\ NoFrame \notin 0..MaxWrites
    /\ NoTransfer \notin {"send", "receive"} \X Ids

VARIABLES
    pc,             \* where the interface thread is, "idle" between functions
    id,             \* args->id of the function that runs, or NoId
    mode,           \* lin->mode
    target,         \* args->mode of the lin_set_mode_j that runs
    driver_mode,    \* the driver's mode
    transfer,       \* driver: what is in progress and its identifier, or NoTransfer
    filters,        \* filters[x]: what type and len were last copied from
    active,         \* tx_msgs[x].active
    msg,            \* tx_msgs[x].msg
    rx_msgs,        \* the queue of received frames
    status,         \* lin->status
    msg_lock,       \* count of the semaphore of tx_msgs and filters
    cmd_lock,       \* count of the semaphore the callbacks give
    next,           \* number of the next frame to write
    result,         \* retcode and id of the last function that ended
    written,        \* written[x]: frame the host may expect to be sent for x
    raced,          \* a transfer ended between lines 131 and 143
    sent_since      \* a frame was sent as responder since the last lin_status

driver == <<driver_mode, transfer>>
tx == <<active, msg, written, next>>
ghosts == <<raced, sent_since>>
vars == <<pc, id, mode, target, driver, filters, tx, rx_msgs, status,
          msg_lock, cmd_lock, result, ghosts>>

Return(rc, x) == /\ pc' = "idle"
                 /\ id' = NoId
                 /\ result' = [retcode |-> rc, id |-> x]

Transfer == {"send", "receive"} \X Ids
-----------------------------------------------------------------------------
Init == /\ pc = "idle"
        /\ id = NoId
        /\ mode = RESPONDER
        /\ target = RESPONDER
        /\ driver_mode = RESPONDER
        /\ transfer = NoTransfer
        /\ filters = [x \in Ids |-> [type |-> DefaultFilter, len |-> DefaultFilter]]
        /\ active = [x \in Ids |-> FALSE]
        /\ msg = [x \in Ids |-> 0]
        /\ rx_msgs = <<>>
        /\ status = [id |-> NoId, retcode |-> 0]
        /\ msg_lock = 1
        /\ cmd_lock = 0
        /\ next = 1
        /\ result = [retcode |-> NoErr, id |-> NoId]
        /\ written = [x \in Ids |-> NoFrame]
        /\ raced = FALSE
        /\ sent_since = FALSE

(***************************************************************************)
(* lin_header_cb: a header was seen in responder mode.                     *)
(***************************************************************************)

\* The lock is taken: LIN_ACTION_NONE, and the header goes by.
Header(x) == /\ driver_mode = RESPONDER
             /\ transfer = NoTransfer
             /\ msg_lock = 1
             /\ status' = [id |-> x, retcode |-> 0]
             /\ UNCHANGED <<pc, id, mode, target, driver_mode, filters, msg, next, rx_msgs,
                            msg_lock, cmd_lock, result, raced>>

\* Mutant of HeaderSend: the frame stays active.
HeaderSendAgain(x) == /\ Header(x)
                      /\ active[x]
                      /\ transfer' = <<"send", x>>
                      /\ written' = [written EXCEPT ![x] = NoFrame]
                      /\ sent_since' = TRUE
                      /\ UNCHANGED active

HeaderSend(x) == /\ Header(x)
                 /\ active[x]
                 /\ transfer' = <<"send", x>>
                 /\ active' = [active EXCEPT ![x] = FALSE]
                 /\ written' = [written EXCEPT ![x] = NoFrame]
                 /\ sent_since' = TRUE

HeaderReceive(x) == /\ Header(x)
                    /\ ~active[x]
                    /\ transfer' = <<"receive", x>>
                    /\ UNCHANGED <<active, written, sent_since>>

(***************************************************************************)
(* lin_tx_cb and lin_rx_cb.                                                *)
(***************************************************************************)

Completed(error) ==
    /\ transfer' = NoTransfer
    /\ status' = [status EXCEPT !.retcode = error]
    /\ cmd_lock' = IF mode = COMMANDER THEN 1 ELSE cmd_lock
    /\ raced' = (raced \/ pc = "switch")
    /\ UNCHANGED <<pc, id, mode, target, driver_mode, filters, tx, msg_lock,
                   result, sent_since>>

InProgress(kind) == \E x \in Ids : transfer = <<kind, x>>

Sent == /\ InProgress("send")
        /\ \E error \in {-1, 0} : Completed(error)
        /\ UNCHANGED rx_msgs

\* Mutant of ReceiveFailed: the waiting function is not told.
ReceiveFailedQuietly ==
    /\ InProgress("receive")
    /\ transfer' = NoTransfer
    /\ status' = [status EXCEPT !.retcode = -1]
    /\ UNCHANGED <<pc, id, mode, target, driver_mode, filters, tx, rx_msgs,
                   msg_lock, cmd_lock, result, ghosts>>

ReceiveFailed == /\ InProgress("receive")
                 /\ Completed(-1)
                 /\ UNCHANGED rx_msgs

\* Mutant of Received: k_msgq_put without its limit.
ReceivedUnlimited == /\ InProgress("receive")
                     /\ Completed(0)
                     /\ Len(rx_msgs) <= LIN_BUFFER_SIZE
                     /\ rx_msgs' = Append(rx_msgs, transfer[2])

Received == /\ InProgress("receive")
            /\ Completed(0)
            /\ rx_msgs' = IF Len(rx_msgs) < LIN_BUFFER_SIZE
                          THEN Append(rx_msgs, transfer[2]) ELSE rx_msgs

(***************************************************************************)
(* lin_set_mode_j, lin_set_rate, lin_set_filter.                           *)
(***************************************************************************)

\* Arguments refused, or lin_set_mode or lin_set_bitrate fails.
Refuse == /\ pc = "idle"
          /\ \E rc \in {InvalidArgsErr, PeripheralErr} : Return(rc, NoId)
          /\ UNCHANGED <<mode, target, driver, filters, tx, rx_msgs, status,
                         msg_lock, cmd_lock, ghosts>>

\* lin_set_rate succeeds, or lin_mode.
SetRateOrMode == /\ pc = "idle"
                 /\ Return(NoErr, NoId)
                 /\ UNCHANGED <<mode, target, driver, filters, tx, rx_msgs, status,
                                msg_lock, cmd_lock, ghosts>>

SwitchDriver == /\ pc = "idle"
                /\ target' \in {COMMANDER, RESPONDER}
                /\ driver_mode' = target'
                /\ transfer' = NoTransfer
                /\ pc' = "switch"
                /\ UNCHANGED <<id, mode, filters, tx, rx_msgs, status,
                               msg_lock, cmd_lock, result, ghosts>>

\* Mutant of Switch: only tx_msgs is purged.
SwitchKeepsRx ==
    /\ pc = "switch"
    /\ mode' = target
    /\ active' = IF mode = RESPONDER /\ target = COMMANDER
                 THEN [x \in Ids |-> FALSE] ELSE active
    /\ written' = IF target = COMMANDER THEN [x \in Ids |-> NoFrame] ELSE written
    /\ Return(NoErr, NoId)
    /\ UNCHANGED <<target, driver, filters, msg, next, rx_msgs, status, msg_lock,
                   cmd_lock, ghosts>>

\* Responder to commander purges all messages; then lin->mode follows.
Switch ==
    /\ pc = "switch"
    /\ mode' = target
    /\ LET purge == mode = RESPONDER /\ target = COMMANDER IN
         /\ active' = IF purge THEN [x \in Ids |-> FALSE] ELSE active
         /\ rx_msgs' = IF purge THEN <<>> ELSE rx_msgs
    /\ written' = IF target = COMMANDER THEN [x \in Ids |-> NoFrame] ELSE written
    /\ Return(NoErr, NoId)
    /\ UNCHANGED <<target, driver, filters, msg, next, status, msg_lock, cmd_lock,
                   ghosts>>

\* Mutant of FilterType: msg_lock is not taken.
FilterTypeUnlocked ==
    /\ pc = "idle"
    /\ id' \in Ids
    /\ \E f \in FilterArgs : filters' = [filters EXCEPT ![id'].type = f]
    /\ pc' = "filter"
    /\ UNCHANGED <<mode, target, driver, tx, rx_msgs, status, msg_lock, cmd_lock, result, ghosts>>

FilterType == /\ pc = "idle"
              /\ msg_lock = 1
              /\ msg_lock' = 0
              /\ id' \in Ids
              /\ \E f \in FilterArgs : filters' = [filters EXCEPT ![id'].type = f]
              /\ pc' = "filter"
              /\ UNCHANGED <<mode, target, driver, tx, rx_msgs, status, cmd_lock, result, ghosts>>

FilterLen == /\ pc = "filter"
             /\ filters' = [filters EXCEPT ![id].len = filters[id].type]
             /\ msg_lock' = 1
             /\ Return(NoErr, NoId)
             /\ UNCHANGED <<mode, target, driver, tx, rx_msgs, status, cmd_lock, ghosts>>

(***************************************************************************)
(* lin_write and lin_read.                                                 *)
(***************************************************************************)

\* Commander: lin_send or lin_receive, then wait for the callback.
Command(kind, place) ==
    /\ pc = "idle"
    /\ mode = COMMANDER
    /\ transfer = NoTransfer
    /\ id' \in Ids
    /\ transfer' = <<kind, id'>>
    /\ pc' = place
    /\ UNCHANGED <<mode, target, driver_mode, filters, tx, rx_msgs, status, msg_lock,
                   cmd_lock, result, ghosts>>

WriteSend == Command("send", "sending")
ReadSend == Command("receive", "receiving")

WriteSent == /\ pc = "sending"
             /\ cmd_lock = 1
             /\ cmd_lock' = 0
             /\ Return(IF status.retcode = 0 THEN NoErr ELSE PeripheralErr, NoId)
             /\ UNCHANGED <<mode, target, driver, filters, tx, rx_msgs, status,
                            msg_lock, ghosts>>

ReadTimeout == /\ pc = "receiving"
               /\ cmd_lock = 1
               /\ status.retcode # 0
               /\ cmd_lock' = 0
               /\ Return(TimeoutErr, NoId)
               /\ UNCHANGED <<mode, target, driver, filters, tx, rx_msgs, status,
                              msg_lock, ghosts>>

ReadReceived == /\ pc = "receiving"
                /\ cmd_lock = 1
                /\ status.retcode = 0
                /\ cmd_lock' = 0
                /\ rx_msgs # <<>>
                /\ rx_msgs' = Tail(rx_msgs)
                /\ Return(NoErr, Head(rx_msgs))
                /\ UNCHANGED <<mode, target, driver, filters, tx, status, msg_lock, ghosts>>

\* "no received message, is filter correct?" (lin.c:302-305).
ReadNothing == /\ pc = "receiving"
               /\ cmd_lock = 1
               /\ status.retcode = 0
               /\ cmd_lock' = 0
               /\ rx_msgs = <<>>
               /\ Return(PeripheralErr, NoId)
               /\ UNCHANGED <<mode, target, driver, filters, tx, rx_msgs, status,
                              msg_lock, ghosts>>

\* Responder: active, then msg, both under msg_lock.
WriteActive == /\ pc = "idle"
               /\ mode = RESPONDER
               /\ next <= MaxWrites
               /\ msg_lock = 1
               /\ msg_lock' = 0
               /\ id' \in Ids
               /\ active' = [active EXCEPT ![id'] = TRUE]
               /\ pc' = "write"
               /\ UNCHANGED <<mode, target, driver, filters, msg, written, next, rx_msgs,
                              status, cmd_lock, result, ghosts>>

WriteMsg == /\ pc = "write"
            /\ msg' = [msg EXCEPT ![id] = next]
            /\ written' = [written EXCEPT ![id] = next]
            /\ next' = next + 1
            /\ msg_lock' = 1
            /\ Return(NoErr, NoId)
            /\ UNCHANGED <<mode, target, driver, filters, active, rx_msgs, status,
                           cmd_lock, ghosts>>

ReadQueued == /\ pc = "idle"
              /\ mode = RESPONDER
              /\ rx_msgs # <<>>
              /\ rx_msgs' = Tail(rx_msgs)
              /\ Return(NoErr, Head(rx_msgs))
              /\ UNCHANGED <<mode, target, driver, filters, tx, status, msg_lock,
                             cmd_lock, ghosts>>

ReadEmpty == /\ pc = "idle"
             /\ mode = RESPONDER
             /\ rx_msgs = <<>>
             /\ Return(NoErr, NoId)
             /\ UNCHANGED <<mode, target, driver, filters, tx, rx_msgs, status,
                            msg_lock, cmd_lock, ghosts>>

\* lin_status; its retcode is read later than its id (lin.c:219-223) and left
\* out, its id is not cleared.
Status == /\ pc = "idle"
          /\ Return(NoErr, status.id)
          /\ sent_since' = FALSE
          /\ UNCHANGED <<mode, target, driver, filters, tx, rx_msgs, status, msg_lock,
                         cmd_lock, raced>>

Isr == \/ \E x \in Ids : HeaderSend(x) \/ HeaderReceive(x)
       \/ Sent \/ ReceiveFailed \/ Received

Thread == \/ Refuse \/ SetRateOrMode \/ SwitchDriver \/ Switch \/ FilterType \/ FilterLen
          \/ WriteSend \/ WriteSent \/ WriteActive \/ WriteMsg
          \/ ReadSend \/ ReadTimeout \/ ReadReceived \/ ReadNothing
          \/ ReadQueued \/ ReadEmpty \/ Status

Next == Isr \/ Thread

Spec == Init /\ [][Next]_vars

\* A function that has begun goes on, and the driver ends what it accepted.
FairSpec == /\ Spec
            /\ WF_vars(Sent \/ ReceiveFailed \/ Received)
            /\ WF_vars(Switch \/ FilterLen \/ WriteMsg)
            /\ WF_vars(WriteSent \/ ReadTimeout \/ ReadReceived \/ ReadNothing)
-----------------------------------------------------------------------------
TypeOK == /\ pc \in {"idle", "switch", "filter", "sending", "receiving", "write"}
          /\ id \in Ids \cup {NoId}
          /\ {mode, target, driver_mode} \subseteq {COMMANDER, RESPONDER}
          /\ transfer \in Transfer \cup {NoTransfer}
          /\ filters \in [Ids -> [type : FilterArgs, len : FilterArgs]]
          /\ active \in [Ids -> BOOLEAN]
          /\ msg \in [Ids -> 0..MaxWrites]
          /\ rx_msgs \in Seq(Ids) /\ Len(rx_msgs) <= LIN_BUFFER_SIZE
          /\ status \in [id : Ids \cup {NoId}, retcode : {-1, 0}]
          /\ msg_lock \in {0, 1}
          /\ cmd_lock \in {0, 1}
          /\ next \in 1..MaxWrites + 1
          /\ result \in [retcode : {NoErr, InvalidArgsErr, PeripheralErr, TimeoutErr},
                         id : Ids \cup {NoId}]
          /\ written \in [Ids -> 1..MaxWrites \cup {NoFrame}]
          /\ raced \in BOOLEAN
          /\ sent_since \in BOOLEAN

(***************************************************************************)
(* A commander starts clean: between calls in commander mode there is no   *)
(* completion to take, no received frame and no transfer left from before, *)
(* whatever was in progress when the modes changed.  It takes that no      *)
(* transfer ends between lin_set_mode and the assignment of lin->mode: one *)
(* that does gives cmd_lock a completion nobody waits for.                 *)
(***************************************************************************)
CommanderStartsClean ==
    ~raced /\ pc = "idle" /\ mode = COMMANDER =>
        cmd_lock = 0 /\ rx_msgs = <<>> /\ transfer = NoTransfer

(***************************************************************************)
(* As commander, lin_read returns the frame of the header it sent, and     *)
(* finds one whenever the driver reports no error (lin.c:302 "guaranteed   *)
(* if no error").                                                          *)
(***************************************************************************)
ReadsOwnFrame == [][/\ ReadReceived => result'.id = id \/ raced
                    /\ ReadNothing => raced]_vars

(***************************************************************************)
(* As responder, a frame is sent as the last lin_write for its identifier  *)
(* left it, once, and not after the host left responder mode: no           *)
(* half-written, repeated or forgotten frame reaches the bus, though       *)
(* headers arrive at any time (lin.c:43-65, 136-142, 269-272).             *)
(***************************************************************************)
SendsWhatWasWritten == [][\A x \in Ids : HeaderSend(x) => msg[x] = written[x]]_vars

(***************************************************************************)
(* A header is never received with the checksum type of one filter and the *)
(* length of another (lin.c:59-60, 191-194).                               *)
(***************************************************************************)
ReceivesWithOneFilter ==
    [][\A x \in Ids : HeaderReceive(x) => filters[x].type = filters[x].len]_vars

(***************************************************************************)
(* A function that waits for the bus with K_FOREVER comes back: every      *)
(* transfer a commander starts gives cmd_lock (lin.c:263, 297 "bounded     *)
(* latency").                                                              *)
(***************************************************************************)
CommandsEnd == pc \in {"sending", "receiving"} ~> pc = "idle"

(***************************************************************************)
(* What makes that so: a function that waits has its transfer in the       *)
(* driver or a completion to take, and never lost it to a callback that    *)
(* came before lin->mode was set or to a change of mode (lin.c:70, 83).    *)
(***************************************************************************)
WaitHasCompletion ==
    pc \in {"sending", "receiving"} => transfer # NoTransfer \/ cmd_lock = 1

(***************************************************************************)
(* lin.h describes lin_status as "status of responder mode sent frames     *)
(* (clear on read)" whose id is invalid if there is "no recent frame       *)
(* sent": a valid id is that of a frame sent since the last lin_status.    *)
(***************************************************************************)
StatusOfRecentSend == [][Status /\ status.id # NoId => sent_since]_vars
=============================================================================
