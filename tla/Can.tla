-------------------------------- MODULE Can --------------------------------
(***************************************************************************)
(* One CAN peripheral (firmware/src/peripherals/can.c): the interface      *)
(* thread that holds the device's lock runs its functions, while the       *)
(* controller transmits, aborts and receives in interrupts.                *)
(*                                                                         *)
(* A frame to send is its number in the order of the can_write calls; what *)
(* identifiers, payloads and bit rates say is left out.  The controller    *)
(* reports completed frames without error while it is started ("shouldn't  *)
(* happen w/ auto recovery", can.c:206) and aborts them all when stopped.  *)
(***************************************************************************)
EXTENDS Integers, FiniteSets

CONSTANTS
    MaxFrames,          \* bound: can_write calls in a behaviour
    Mailboxes,          \* frames the controller can hold
    CAN_BUFFER_SIZE,    \* CONFIG_JABI_CAN_BUFFER_SIZE, frames in msgq
    FilterIds,          \* identifiers of the controller's receive filters
    Ranges,             \* pairs (id, id_mask) hosts ask for
    StdRanges,          \* those whose id_mask fits a standard identifier
    AnyRange            \* id = id_mask = 0, what can_init installs

CONSTANTS NoErr, InvalidArgsErr, PeripheralErr, BusyErr, NoSpace

ASSUME CanAssumption ==
    /\ MaxFrames \in Nat
    /\ Mailboxes \in Nat \ {0}
    /\ CAN_BUFFER_SIZE \in Nat \ {0}
    /\ Cardinality(FilterIds) >= 2
    /\ AnyRange \in StdRanges
    /\ StdRanges \subseteq Ranges
    /\ NoSpace \notin FilterIds
    /\ NoErr \notin {PeripheralErr, BusyErr}

VARIABLES
    pc,             \* where the interface thread is, "idle" between functions
    started,        \* whether the controller takes part in the bus
    next,           \* number of the next frame to write
    frame,          \* number of the frame being written
    pending,        \* frames in the controller's mailboxes
    sent,           \* number of the last frame on the bus
    tx_lock,        \* count of the semaphore can_write_cb gives
    tx_was_busy,
    installed,      \* receive filters of the controller
    filter_std_id,
    filter_ext_id,
    range,          \* filter.id and filter.mask of both filters
    msgq,           \* number of received frames in the queue
    num_left,       \* what the last can_read said is left
    retcode         \* result of the last function that ended

tx == <<next, frame, pending, sent, tx_lock, tx_was_busy>>
filters == <<installed, filter_std_id, filter_ext_id, range>>
rx == <<msgq, num_left>>
vars == <<pc, started, tx, filters, rx, retcode>>

Return(rc) == pc' = "idle" /\ retcode' = rc

Filter == [id : FilterIds, ide : BOOLEAN, range : Ranges]

UsedIds == {g.id : g \in installed}
-----------------------------------------------------------------------------
Init == /\ pc = "idle"
        /\ started = TRUE
        /\ next = 1
        /\ frame = 0
        /\ pending = {}
        /\ sent = 0
        /\ tx_lock = 0
        /\ tx_was_busy = FALSE
        /\ filter_std_id \in FilterIds
        /\ filter_ext_id \in FilterIds \ {filter_std_id}
        /\ installed = {[id |-> filter_std_id, ide |-> FALSE, range |-> AnyRange],
                        [id |-> filter_ext_id, ide |-> TRUE, range |-> AnyRange]}
        /\ range = AnyRange
        /\ msgq = 0
        /\ num_left = 0
        /\ retcode = NoErr

(***************************************************************************)
(* Interrupts.                                                             *)
(***************************************************************************)

\* A frame is on the bus: which of several is the controller's choice.
\* can_write_cb gives the semaphore, whose limit is 1.
Transmit(f) ==
    /\ started
    /\ f \in pending
    /\ pending' = pending \ {f}
    /\ sent' = f
    /\ tx_lock' = 1
    /\ UNCHANGED <<pc, started, next, frame, tx_was_busy, filters, rx, retcode>>

\* Mutant of Receive: the queue has no limit.
ReceiveUnlimited ==
    /\ started
    /\ installed # {}
    /\ msgq <= CAN_BUFFER_SIZE
    /\ msgq' = msgq + 1
    /\ UNCHANGED <<pc, started, tx, filters, num_left, retcode>>

\* A frame that a filter accepts; the queue drops what it has no room for.
Receive ==
    /\ started
    /\ installed # {}
    /\ msgq' = IF msgq < CAN_BUFFER_SIZE THEN msgq + 1 ELSE msgq
    /\ UNCHANGED <<pc, started, tx, filters, num_left, retcode>>

(***************************************************************************)
(* can_write.                                                              *)
(***************************************************************************)

\* Wrong length, data_len or style: nothing has been touched yet.
RefuseArgs ==
    /\ pc = "idle"
    /\ Return(InvalidArgsErr)
    /\ UNCHANGED <<started, tx, filters, rx>>

WriteBusy ==
    /\ pc = "idle"
    /\ tx_was_busy
    /\ tx_lock = 0
    /\ Return(BusyErr)
    /\ UNCHANGED <<started, tx, filters, rx>>

\* Mutant of WriteBegin: a late completion is not consumed.
WriteOverLate ==
    /\ pc = "idle"
    /\ next <= MaxFrames
    /\ pc' = "send"
    /\ frame' = next
    /\ next' = next + 1
    /\ UNCHANGED <<started, pending, sent, tx_lock, tx_was_busy, filters, rx, retcode>>

WriteBegin ==
    /\ pc = "idle"
    /\ next <= MaxFrames
    /\ tx_was_busy => tx_lock = 1
    /\ tx_lock' = IF tx_was_busy THEN 0 ELSE tx_lock
    /\ pc' = "send"
    /\ frame' = next
    /\ next' = next + 1
    /\ UNCHANGED <<started, pending, sent, tx_was_busy, filters, rx, retcode>>

SendOk ==
    /\ pc = "send"
    /\ started
    /\ Cardinality(pending) < Mailboxes
    /\ pending' = pending \cup {frame}
    /\ pc' = "wait"
    /\ UNCHANGED <<started, next, frame, sent, tx_lock, tx_was_busy, filters, rx, retcode>>

\* The controller is stopped, off the bus or full.
SendFails ==
    /\ pc = "send"
    /\ Return(PeripheralErr)
    /\ UNCHANGED <<started, tx, filters, rx>>

\* Mutant of WriteDone: the flag of an earlier time-out stays.
WriteDoneBusy ==
    /\ pc = "wait"
    /\ tx_lock = 1
    /\ tx_lock' = 0
    /\ Return(NoErr)
    /\ UNCHANGED <<started, next, frame, pending, sent, tx_was_busy, filters, rx>>

WriteDone ==
    /\ pc = "wait"
    /\ tx_lock = 1
    /\ tx_lock' = 0
    /\ tx_was_busy' = FALSE
    /\ Return(NoErr)
    /\ UNCHANGED <<started, next, frame, pending, sent, filters, rx>>

\* Mutant of WriteTimeout: the frame left in the controller is forgotten.
TimeoutForgets ==
    /\ pc = "wait"
    /\ tx_lock = 0
    /\ Return(BusyErr)
    /\ UNCHANGED <<started, tx, filters, rx>>

WriteTimeout ==
    /\ pc = "wait"
    /\ tx_lock = 0
    /\ tx_was_busy' = TRUE
    /\ Return(BusyErr)
    /\ UNCHANGED <<started, next, frame, pending, sent, tx_lock, filters, rx>>

(***************************************************************************)
(* can_set_rate and can_set_style: stop, reconfigure, start.               *)
(***************************************************************************)

\* can_stop aborts what is pending, and can_write_cb hears of it.
Stop ==
    /\ pc = "idle"
    /\ pc' = "config"
    /\ started' = FALSE
    /\ pending' = {}
    /\ tx_lock' = IF pending = {} THEN tx_lock ELSE 1
    /\ UNCHANGED <<next, frame, sent, tx_was_busy, filters, rx, retcode>>

\* -EIO leaves the controller as it is.
StopFails ==
    /\ pc = "idle"
    /\ Return(PeripheralErr)
    /\ UNCHANGED <<started, tx, filters, rx>>

\* Mutant of Reconfigure: a refused rate ends the function as a success.
ReconfigureSilent ==
    /\ pc = "config"
    /\ \/ pc' = "start" /\ UNCHANGED retcode
       \/ Return(NoErr)
    /\ UNCHANGED <<started, tx, filters, rx>>

\* can_set_bitrate, can_set_bitrate_data or can_set_mode.
Reconfigure ==
    /\ pc = "config"
    /\ \/ pc' = "start" /\ UNCHANGED retcode
       \/ Return(PeripheralErr)
    /\ UNCHANGED <<started, tx, filters, rx>>

Start ==
    /\ pc = "start"
    /\ \/ started' = TRUE /\ Return(NoErr)
       \/ started' = FALSE /\ Return(PeripheralErr)
    /\ UNCHANGED <<tx, filters, rx>>

(***************************************************************************)
(* can_set_filter: remove both filters, add one or two.                    *)
(***************************************************************************)

\* Mutant of RemoveFilters: the extended filter is left in place.
RemoveStdOnly ==
    /\ pc = "idle"
    /\ installed' = {g \in installed : g.id # filter_std_id}
    /\ range' \in Ranges
    /\ pc' = "add_std"
    /\ UNCHANGED <<started, tx, filter_std_id, filter_ext_id, rx, retcode>>

RemoveFilters ==
    /\ pc = "idle"
    /\ installed' = {g \in installed : g.id \notin {filter_std_id, filter_ext_id}}
    /\ range' \in Ranges
    /\ pc' = "add_std"
    /\ UNCHANGED <<started, tx, filter_std_id, filter_ext_id, rx, retcode>>

\* can_add_rx_filter_msgq: a free identifier, or -ENOSPC if the controller has
\* no room (the two kinds may draw on the same banks).
AddFilter(ide, id) ==
    \/ /\ id \in FilterIds \ UsedIds
       /\ installed' = installed \cup {[id |-> id, ide |-> ide, range |-> range]}
    \/ /\ id = NoSpace
       /\ UNCHANGED installed

AddStd ==
    /\ pc = "add_std"
    /\ \/ /\ range \in StdRanges
          /\ filter_std_id' \in FilterIds \cup {NoSpace}
          /\ AddFilter(FALSE, filter_std_id')
       \/ /\ range \notin StdRanges
          /\ UNCHANGED <<installed, filter_std_id>>
    /\ pc' = "add_ext"
    /\ UNCHANGED <<started, tx, filter_ext_id, range, rx, retcode>>

AddExt ==
    /\ pc = "add_ext"
    /\ filter_ext_id' \in FilterIds \cup {NoSpace}
    /\ AddFilter(TRUE, filter_ext_id')
    /\ Return(IF NoSpace \in {filter_std_id, filter_ext_id'} THEN PeripheralErr ELSE NoErr)
    /\ UNCHANGED <<started, tx, filter_std_id, range, rx>>

(***************************************************************************)
(* can_read and can_state.                                                 *)
(***************************************************************************)

ReadEmpty ==
    /\ pc = "idle"
    /\ msgq = 0
    /\ num_left' = 0
    /\ Return(NoErr)
    /\ UNCHANGED <<started, tx, filters, msgq>>

ReadGet ==
    /\ pc = "idle"
    /\ msgq > 0
    /\ msgq' = msgq - 1
    /\ pc' = "count"
    /\ UNCHANGED <<started, tx, filters, num_left, retcode>>

ReadCount ==
    /\ pc = "count"
    /\ num_left' = msgq
    /\ Return(NoErr)
    /\ UNCHANGED <<started, tx, filters, msgq>>

State ==
    /\ pc = "idle"
    /\ \E rc \in {NoErr, PeripheralErr} : Return(rc)
    /\ UNCHANGED <<started, tx, filters, rx>>

Next == \/ \E f \in pending : Transmit(f)
        \/ Receive
        \/ RefuseArgs \/ WriteBusy \/ WriteBegin \/ SendOk \/ SendFails
        \/ WriteDone \/ WriteTimeout
        \/ Stop \/ StopFails \/ Reconfigure \/ Start
        \/ RemoveFilters \/ AddStd \/ AddExt
        \/ ReadEmpty \/ ReadGet \/ ReadCount \/ State

Spec == Init /\ [][Next]_vars
-----------------------------------------------------------------------------
TypeOK == /\ pc \in {"idle", "send", "wait", "config", "start", "add_std", "add_ext", "count"}
          /\ started \in BOOLEAN
          /\ next \in 1..MaxFrames + 1
          /\ frame \in 0..MaxFrames
          /\ pending \subseteq 1..MaxFrames
          /\ sent \in 0..MaxFrames
          /\ tx_lock \in 0..1
          /\ tx_was_busy \in BOOLEAN
          /\ installed \subseteq Filter
          /\ filter_std_id \in FilterIds \cup {NoSpace}
          /\ filter_ext_id \in FilterIds \cup {NoSpace}
          /\ range \in Ranges
          /\ msgq \in 0..CAN_BUFFER_SIZE
          /\ num_left \in 0..CAN_BUFFER_SIZE
          /\ retcode \in {NoErr, InvalidArgsErr, PeripheralErr, BusyErr}

(***************************************************************************)
(* A frame and the semaphore's completions are never confused: counting    *)
(* the frame in the controller and the completion not yet taken, at most   *)
(* one is outstanding, and none when can_write hands over the next frame.  *)
(* A time-out, an abort and a late completion all keep this (can.c:255-    *)
(* 271, can_write_cb).                                                     *)
(***************************************************************************)
OneOutstanding == /\ pending = {} \/ (tx_lock = 0 /\ \E f \in pending : pending = {f})
                  /\ pc = "send" => pending = {} /\ tx_lock = 0
                  /\ pc = "idle" /\ ~tx_was_busy => pending = {} /\ tx_lock = 0

(***************************************************************************)
(* A failed can_set_filter leaks nothing: every filter in the controller   *)
(* is one the next call will remove, and has the range asked for last.     *)
(***************************************************************************)
NoFilterLeak == \A g \in installed : /\ g.id \in {filter_std_id, filter_ext_id}
                                     /\ g.range = range

(***************************************************************************)
(* The last call that the controller took its settings from succeeded, or  *)
(* the controller is stopped: a set_rate or set_style that reports success *)
(* never leaves it off the bus ("note stays stopped if invalid bitrates",  *)
(* can.c:128).                                                             *)
(***************************************************************************)
SuccessMeansStarted == [][(pc \in {"config", "start"} /\ pc' = "idle" /\ retcode' = NoErr)
                             => started']_vars

(***************************************************************************)
(* can_write keeps the promises of WriteService, in which can_stop may     *)
(* drop a frame.  "Wait for completion to ensure FIFO sending" (can.c:265) *)
(* does that: frames reach the bus in the order of the calls, however the  *)
(* controller picks among its mailboxes, and success is reported for the   *)
(* frame that was written, never on account of an earlier one that came    *)
(* late, failed or was aborted (can.c:255-274, 205-211).                   *)
(***************************************************************************)
Writes == INSTANCE WriteService WITH
              MayAbort <- TRUE,
              writing <- pc = "wait",
              written <- IF pending = {} THEN sent ELSE frame,
              answer <- retcode

ImplementsWrites == Writes!Spec

(***************************************************************************)
(* What the flag waits for is lost in one way only, a can_send that fails  *)
(* after a late completion was taken (see BusyMeansQueued): no time-out,   *)
(* abort, completion or other failure leaves tx_was_busy set with neither  *)
(* a frame in the controller nor a completion to take (can.c:255-271).     *)
(***************************************************************************)
Stranded == /\ tx_was_busy
            /\ pending = {}
            /\ tx_lock = 0
            /\ pc # "send"

OnlyFailedSendStrands == [][~Stranded /\ Stranded' => SendFails]_vars

(***************************************************************************)
(* can.c:267 says of a frame that timed out that it is "still in queue     *)
(* tho": while tx_was_busy makes can_write wait for it, it is in the       *)
(* controller or its completion is there to take.                          *)
(***************************************************************************)
BusyMeansQueued == pc = "idle" /\ tx_was_busy => pending # {} \/ tx_lock = 1
=============================================================================
