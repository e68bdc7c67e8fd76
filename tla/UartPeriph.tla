----------------------------- MODULE UartPeriph -----------------------------
(***************************************************************************)
(* One UART peripheral (firmware/src/peripherals/uart.c): the interface    *)
(* thread that holds the device's lock runs uart_set_config, uart_write    *)
(* and uart_read, while uart_handler fills and empties the FIFOs in        *)
(* interrupts.                                                             *)
(*                                                                         *)
(* Bytes are numbered, those to send in the order of the uart_write calls  *)
(* and those received in the order of arrival.  uart_irq_tx_ready is only  *)
(* true while the transmit interrupt is enabled.                           *)
(***************************************************************************)
EXTENDS Integers, Sequences

CONSTANTS
    MaxTx,              \* bound: bytes written in a behaviour
    MaxRx,              \* bound: bytes received in a behaviour
    MaxWrite,           \* REQ_PAYLOAD_MAX_SIZE
    MaxRead,            \* RESP_PAYLOAD_MAX_SIZE
    Chunk,              \* bytes the FIFO takes or yields in one interrupt
    RX_BUFFER_SIZE      \* CONFIG_JABI_UART_RX_BUFFER_SIZE

CONSTANTS NoErr, InvalidArgsErr, PeripheralErr, BusyErr

ASSUME UartAssumption ==
    /\ {MaxTx, MaxRx, MaxWrite, MaxRead} \subseteq Nat
    /\ {Chunk, RX_BUFFER_SIZE} \subseteq Nat \ {0}
    /\ Chunk <= RX_BUFFER_SIZE      \* buffer[64], 256 by default
    /\ NoErr # BusyErr

VARIABLES
    pc,             \* where the interface thread is, "idle" between functions
    req_len,        \* length of the uart_write that runs
    written,        \* number of the last byte accepted by uart_write
    tx_buf,         \* the bytes of the last uart_write
    tx_len,         \* how many of them are left
    tx_ptr,         \* position in tx_buf of the next
    tx_enabled,     \* whether the transmit interrupt is enabled
    tx_lock,        \* count of the semaphore uart_handler gives
    tx_was_busy,
    sent,           \* number of the last byte given to the FIFO in order
    in_order,       \* every byte given to the FIFO was the one after the last
    arrived,        \* number of the last byte received
    rx_msgq,        \* received bytes in the queue
    data_len,       \* bytes uart_read is asked for
    ret,            \* bytes it has read
    purged,         \* the queue was purged during this uart_read
    retcode         \* result of the last function that ended

tx == <<req_len, written, tx_buf, tx_len, tx_ptr, tx_enabled, tx_lock, tx_was_busy, sent, in_order>>
rx == <<arrived, rx_msgq, data_len, ret, purged>>
vars == <<pc, tx, rx, retcode>>

Return(rc) == pc' = "idle" /\ retcode' = rc

Smaller(a, b) == IF a < b THEN a ELSE b

\* Bytes a + 1, ..., a + n.
After(a, n) == [k \in 1..n |-> a + k]

\* The next n bytes of tx_buf are there and follow the last one sent.
Continues(n) == /\ tx_ptr + n - 1 <= Len(tx_buf)
                /\ SubSeq(tx_buf, tx_ptr, tx_ptr + n - 1) = After(sent, n)
-----------------------------------------------------------------------------
Init == /\ pc = "idle"
        /\ req_len = 0
        /\ written = 0
        /\ tx_buf = <<>>
        /\ tx_len = 0
        /\ tx_ptr = 1
        /\ tx_enabled = FALSE
        /\ tx_lock = 0
        /\ tx_was_busy = FALSE
        /\ sent = 0
        /\ in_order = TRUE
        /\ arrived = 0
        /\ rx_msgq = <<>>
        /\ data_len = 0
        /\ ret = <<>>
        /\ purged = FALSE
        /\ retcode = NoErr

(***************************************************************************)
(* uart_handler.                                                           *)
(***************************************************************************)

TxDone == /\ tx_enabled
          /\ tx_len = 0
          /\ tx_enabled' = FALSE
          /\ tx_lock' = 1
          /\ UNCHANGED <<pc, req_len, written, tx_buf, tx_len, tx_ptr, tx_was_busy, sent,
                         in_order, rx, retcode>>

TxFill == /\ tx_enabled
          /\ tx_len > 0
          /\ \E n \in 1..Smaller(Chunk, tx_len) :
                /\ tx_len' = tx_len - n
                /\ tx_ptr' = tx_ptr + n
                /\ sent' = IF Continues(n) THEN sent + n ELSE sent
                /\ in_order' = (in_order /\ Continues(n))
          /\ UNCHANGED <<pc, req_len, written, tx_buf, tx_enabled, tx_lock, tx_was_busy, rx,
                         retcode>>

\* Mutant of RxChunk: what does not fit is dropped, the queue is kept.
RxChunkKept == \E n \in 1..Chunk :
    /\ arrived + n <= MaxRx
    /\ arrived' = arrived + n
    /\ rx_msgq' = IF Len(rx_msgq) + n <= RX_BUFFER_SIZE
                  THEN rx_msgq \o After(arrived, n) ELSE rx_msgq
    /\ UNCHANGED <<pc, tx, data_len, ret, purged, retcode>>

\* "buffer full, purging all of it": the rest of the chunk is dropped too.
RxChunk == \E n \in 1..Chunk :
    /\ arrived + n <= MaxRx
    /\ arrived' = arrived + n
    /\ IF Len(rx_msgq) + n <= RX_BUFFER_SIZE
       THEN rx_msgq' = rx_msgq \o After(arrived, n) /\ UNCHANGED purged
       ELSE rx_msgq' = <<>> /\ purged' = TRUE
    /\ UNCHANGED <<pc, tx, data_len, ret, retcode>>

(***************************************************************************)
(* uart_set_config, and requests that are refused.                         *)
(***************************************************************************)
Configure == /\ pc = "idle"
             /\ \E rc \in {NoErr, InvalidArgsErr, PeripheralErr} : Return(rc)
             /\ UNCHANGED <<tx, rx>>

(***************************************************************************)
(* uart_write.                                                             *)
(***************************************************************************)
WriteBusy == /\ pc = "idle"
             /\ tx_was_busy
             /\ tx_lock = 0
             /\ Return(BusyErr)
             /\ UNCHANGED <<tx, rx>>

WriteCopy == /\ pc = "idle"
             /\ tx_was_busy => tx_lock = 1
             /\ tx_lock' = IF tx_was_busy THEN 0 ELSE tx_lock
             /\ \E n \in 0..MaxWrite :
                   /\ written + n <= MaxTx
                   /\ tx_buf' = After(written, n)
                   /\ written' = written + n
                   /\ req_len' = n
             /\ pc' = "start"
             /\ UNCHANGED <<tx_len, tx_ptr, tx_enabled, tx_was_busy, sent, in_order, rx, retcode>>

WriteStart == /\ pc = "start"
              /\ tx_len' = req_len
              /\ tx_ptr' = 1
              /\ tx_enabled' = TRUE
              /\ pc' = "wait"
              /\ UNCHANGED <<req_len, written, tx_buf, tx_lock, tx_was_busy, sent, in_order, rx,
                             retcode>>

\* Mutant of WriteDone: the flag of an earlier time-out stays.
WriteDoneBusy == /\ pc = "wait"
                 /\ tx_lock = 1
                 /\ tx_lock' = 0
                 /\ Return(NoErr)
                 /\ UNCHANGED <<req_len, written, tx_buf, tx_len, tx_ptr, tx_enabled,
                                tx_was_busy, sent, in_order, rx>>

WriteDone == /\ pc = "wait"
             /\ tx_lock = 1
             /\ tx_lock' = 0
             /\ tx_was_busy' = FALSE
             /\ Return(NoErr)
             /\ UNCHANGED <<req_len, written, tx_buf, tx_len, tx_ptr, tx_enabled, sent, in_order,
                            rx>>

\* Mutant of WriteTimeout: the bytes left to send are forgotten.
TimeoutForgets == /\ pc = "wait"
                  /\ tx_lock = 0
                  /\ Return(BusyErr)
                  /\ UNCHANGED <<tx, rx>>

WriteTimeout == /\ pc = "wait"
                /\ tx_lock = 0
                /\ tx_was_busy' = TRUE
                /\ Return(BusyErr)
                /\ UNCHANGED <<req_len, written, tx_buf, tx_len, tx_ptr, tx_enabled, tx_lock,
                               sent, in_order, rx>>

(***************************************************************************)
(* uart_read.                                                              *)
(***************************************************************************)
ReadBegin == /\ pc = "idle"
             /\ data_len' \in 0..MaxRead
             /\ ret' = <<>>
             /\ purged' = FALSE
             /\ pc' = "read"
             /\ UNCHANGED <<tx, arrived, rx_msgq, retcode>>

\* Mutant of ReadByte: the loop runs once too often.
ReadByteMore == /\ pc = "read"
                /\ Len(ret) <= data_len
                /\ rx_msgq # <<>>
                /\ ret' = Append(ret, Head(rx_msgq))
                /\ rx_msgq' = Tail(rx_msgq)
                /\ UNCHANGED <<pc, tx, arrived, data_len, purged, retcode>>

ReadByte == /\ pc = "read"
            /\ Len(ret) < data_len
            /\ rx_msgq # <<>>
            /\ ret' = Append(ret, Head(rx_msgq))
            /\ rx_msgq' = Tail(rx_msgq)
            /\ UNCHANGED <<pc, tx, arrived, data_len, purged, retcode>>

\* All of them, or RX_TIMEOUT without one: what is there is the answer.
ReadEnd == /\ pc = "read"
           /\ Len(ret) < data_len => rx_msgq = <<>>
           /\ Return(NoErr)
           /\ UNCHANGED <<tx, rx>>

Isr == TxDone \/ TxFill \/ RxChunk

Next == \/ Isr \/ Configure
        \/ WriteBusy \/ WriteCopy \/ WriteStart \/ WriteDone \/ WriteTimeout
        \/ ReadBegin \/ ReadByte \/ ReadEnd

Spec == Init /\ [][Next]_vars

\* The UART shifts its FIFO out, and a function that has begun goes on.
FairSpec == /\ Spec
            /\ WF_vars(TxDone \/ TxFill)
            /\ WF_vars(WriteStart \/ WriteDone \/ WriteTimeout \/ ReadByte \/ ReadEnd)
-----------------------------------------------------------------------------
TypeOK == /\ pc \in {"idle", "start", "wait", "read"}
          /\ req_len \in 0..MaxWrite
          /\ written \in 0..MaxTx
          /\ tx_buf \in Seq(1..MaxTx) /\ Len(tx_buf) <= MaxWrite
          /\ tx_len \in 0..MaxWrite
          /\ tx_ptr \in 1..MaxWrite + 1
          /\ tx_enabled \in BOOLEAN
          /\ tx_lock \in 0..1
          /\ tx_was_busy \in BOOLEAN
          /\ sent \in 0..MaxTx
          /\ in_order \in BOOLEAN
          /\ arrived \in 0..MaxRx
          /\ rx_msgq \in Seq(1..MaxRx) /\ Len(rx_msgq) <= RX_BUFFER_SIZE
          /\ data_len \in 0..MaxRead
          /\ ret \in Seq(1..MaxRx) /\ Len(ret) <= data_len
          /\ purged \in BOOLEAN
          /\ retcode \in {NoErr, InvalidArgsErr, PeripheralErr, BusyErr}

(***************************************************************************)
(* uart_write keeps the promises of WriteService, in which nothing is      *)
(* dropped: the handler never runs past tx_buf, the bytes that a time-out  *)
(* leaves are neither overwritten nor repeated by the next write, and that *)
(* reports success for its own bytes only (uart.c:42-75, 139-161).  A byte *)
(* that leaves out of order is taken for one that was never written.       *)
(***************************************************************************)
Writes == INSTANCE WriteService WITH
              MayAbort <- FALSE,
              writing <- pc \in {"start", "wait"},
              sent <- IF in_order THEN sent ELSE written + 1,
              answer <- retcode

ImplementsWrites == Writes!Spec

(***************************************************************************)
(* BUSY means that the UART is still sending an earlier write, so that its *)
(* completion is to come: neither a time-out nor a completion that comes   *)
(* late leaves the flag behind with nothing to clear it (uart.c:146-159).  *)
(***************************************************************************)
BusyMeansSending == [][WriteBusy \/ WriteTimeout => tx_enabled]_vars

(***************************************************************************)
(* BUSY is never for good: a write that timed out ends, and then its       *)
(* completion is there for the next write to take, unless that has begun.  *)
(***************************************************************************)
BusyEnds == tx_was_busy ~> (tx_lock = 1 \/ ~tx_was_busy)

(***************************************************************************)
(* What one uart_read returns was received without a gap, unless the queue *)
(* overflowed while it waited: an overflow drops everything queued instead *)
(* of leaving a hole in the middle of the data (uart.c:67-73).             *)
(***************************************************************************)
NoHoles ==
    ~purged => \A k \in 1..Len(ret) + Len(rx_msgq) - 1 :
                  (ret \o rx_msgq)[k + 1] = (ret \o rx_msgq)[k] + 1
=============================================================================
