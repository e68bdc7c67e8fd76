-------------------------- MODULE UartPeriphProofs --------------------------
(***************************************************************************)
(* Proofs about UartPeriph, for every length of its buffers and requests.  *)
(*                                                                         *)
(* The transmit half: what is left of the buffer, the interrupt and the    *)
(* semaphore are in step, so the buffer is only refilled when its last     *)
(* byte is with the UART.  The receive half: the queue holds the newest    *)
(* bytes, and the read that runs holds those just before them.             *)
(***************************************************************************)
EXTENDS UartPeriph, TLAPS

\* q is a run of consecutive bytes that ends in the byte last.
EndsIn(q, last) == \A k \in 1..Len(q) : q[k] = last - Len(q) + k

\* The buffer holds the last req_len bytes accepted.
BufferInv == /\ Len(tx_buf) = req_len
             /\ req_len <= written
             /\ \A k \in 1..req_len : tx_buf[k] = written - req_len + k

\* Where the interrupt handler is in the buffer.
SendingInv ==
    /\ pc = "start" => ~tx_enabled /\ tx_lock = 0 /\ sent = written - req_len
    /\ pc # "start" /\ tx_enabled => /\ tx_lock = 0
                                     /\ tx_len <= req_len
                                     /\ tx_ptr = req_len - tx_len + 1
                                     /\ sent = written - tx_len
    /\ pc # "start" /\ ~tx_enabled => sent = written
    /\ pc = "wait" /\ ~tx_enabled => tx_lock = 1
    /\ pc \in {"idle", "read"} => /\ tx_was_busy /\ ~tx_enabled => tx_lock = 1
                                  /\ ~tx_was_busy => ~tx_enabled /\ tx_lock = 0

TxInv == BufferInv /\ SendingInv /\ in_order

\* The queue ends in the byte received last, the read in the one before the queue.
RxInv == /\ Len(rx_msgq) <= arrived
         /\ \A k \in 1..Len(rx_msgq) : rx_msgq[k] = arrived - Len(rx_msgq) + k
         /\ ~purged => /\ Len(ret) + Len(rx_msgq) <= arrived
                       /\ \A k \in 1..Len(ret) :
                             ret[k] = arrived - Len(rx_msgq) - Len(ret) + k

IInv == TypeOK /\ TxInv /\ RxInv

(***************************************************************************)
(* A piece of a buffer of consecutive bytes is a run of consecutive bytes. *)
(***************************************************************************)
LEMMA PieceOfRun ==
    ASSUME NEW b \in Seq(Int), NEW a \in Int, NEW p \in Nat \ {0}, NEW n \in Nat,
           p + n - 1 <= Len(b),
           \A k \in 1..Len(b) : b[k] = a + k
    PROVE  SubSeq(b, p, p + n - 1) = After(a + p - 1, n)
<1>1. SubSeq(b, p, p + n - 1) = [k \in 1..n |-> b[k + p - 1]]
  OBVIOUS
<1>2. \A k \in 1..n : b[k + p - 1] = (a + p - 1) + k
  OBVIOUS
<1> QED BY <1>1, <1>2 DEF After

(***************************************************************************)
(* After(a, n) is a sequence of n elements.                                *)
(***************************************************************************)
LEMMA AfterSeq ==
    ASSUME NEW a \in Nat, NEW n \in Nat, NEW m \in Nat, a + n <= m
    PROVE  /\ After(a, n) \in Seq(1..m)
           /\ Len(After(a, n)) = n
           /\ \A k \in 1..n : After(a, n)[k] = a + k
BY DEF After

(***************************************************************************)
(* A run of consecutive bytes stays one when the next bytes are appended.  *)
(***************************************************************************)
LEMMA RunExtended ==
    ASSUME NEW S, NEW q \in Seq(S), NEW b \in Seq(S), NEW last \in Nat,
           EndsIn(q, last), EndsIn(b, last + Len(b))
    PROVE  /\ q \o b \in Seq(S)
           /\ Len(q \o b) = Len(q) + Len(b)
           /\ EndsIn(q \o b, last + Len(b))
<1> USE DEF EndsIn
<1>1. Len(q) \in Nat /\ Len(b) \in Nat /\ q \o b \in Seq(S) /\ Len(q \o b) = Len(q) + Len(b)
  OBVIOUS
<1>2. \A k \in 1..Len(q) + Len(b) :
         (q \o b)[k] = IF k <= Len(q) THEN q[k] ELSE b[k - Len(q)]
  OBVIOUS
<1>3. ASSUME NEW k \in 1..Len(q) + Len(b)
      PROVE  (q \o b)[k] = last - Len(q) + k
  <2>1. CASE k <= Len(q)
    BY <1>1, <1>2, <2>1
  <2>2. CASE k > Len(q)
    <3>1. k - Len(q) \in 1..Len(b)
      BY <1>1, <2>2
    <3>2. (q \o b)[k] = b[k - Len(q)]
      BY <1>1, <1>2, <2>2
    <3> QED BY <1>1, <3>1, <3>2
  <2> QED BY <1>1, <2>1, <2>2
<1> QED BY <1>1, <1>3

(***************************************************************************)
(* The assumption on the constants, one by one.                            *)
(***************************************************************************)
LEMMA Constants ==
    /\ MaxTx \in Nat /\ MaxRx \in Nat /\ MaxWrite \in Nat /\ MaxRead \in Nat
    /\ Chunk \in Nat /\ Chunk > 0 /\ RX_BUFFER_SIZE \in Nat /\ RX_BUFFER_SIZE > 0
BY UartAssumption

(***************************************************************************)
(* The invariant holds at the start.                                       *)
(***************************************************************************)
LEMMA InitIInv == Init => IInv
<1> SUFFICES ASSUME Init PROVE IInv
  OBVIOUS
<1>1. TypeOK
  <2>1. /\ tx_enabled \in BOOLEAN /\ tx_was_busy \in BOOLEAN
        /\ in_order \in BOOLEAN /\ purged \in BOOLEAN
        /\ retcode \in {NoErr, InvalidArgsErr, PeripheralErr, BusyErr}
    BY Zenon DEF Init
  <2>2. /\ tx_buf \in Seq(1..MaxTx) /\ Len(tx_buf) = 0
        /\ rx_msgq \in Seq(1..MaxRx) /\ Len(rx_msgq) = 0
        /\ ret \in Seq(1..MaxRx) /\ Len(ret) = 0
    BY DEF Init
  <2>3. /\ pc = "idle" /\ tx_ptr = 1
        /\ req_len = 0 /\ written = 0 /\ tx_len = 0 /\ tx_lock = 0 /\ sent = 0
        /\ arrived = 0 /\ data_len = 0
    BY DEF Init
  <2> QED BY <2>1, <2>2, <2>3, Constants DEF TypeOK
<1>2. TxInv
  BY DEF Init, TxInv, BufferInv, SendingInv
<1>3. RxInv
  BY DEF Init, RxInv
<1> QED BY <1>1, <1>2, <1>3 DEF IInv

(***************************************************************************)
(* Every step keeps the invariant.                                         *)
(***************************************************************************)
LEMMA NextIInv == IInv /\ [Next]_vars => IInv'
<1> SUFFICES ASSUME IInv, [Next]_vars PROVE IInv'
  OBVIOUS
<1> USE Constants DEF IInv
<1>1. CASE TxDone
  <2>1. TypeOK'
    <3>1. tx_enabled' \in BOOLEAN
      BY <1>1, Zenon DEF TxDone
    <3>2. tx_lock' \in 0..1
      BY <1>1 DEF TxDone
    <3>3. UNCHANGED <<pc, req_len, written, tx_buf, tx_len, tx_ptr, tx_was_busy, sent, in_order,
                      arrived, rx_msgq, data_len, ret, purged, retcode>>
      BY <1>1 DEF TxDone, rx
    <3> QED BY <3>1, <3>2, <3>3 DEF TypeOK
  <2>2. TxInv'
    BY <1>1, SMT DEF TxDone, rx, TypeOK, TxInv, BufferInv, SendingInv
  <2>3. RxInv'
    BY <1>1 DEF TxDone, rx, TypeOK, RxInv
  <2> QED BY <2>1, <2>2, <2>3
<1>2. CASE TxFill
  <2>1. PICK n \in 1..Smaller(Chunk, tx_len) :
           /\ tx_len' = tx_len - n
           /\ tx_ptr' = tx_ptr + n
           /\ sent' = IF Continues(n) THEN sent + n ELSE sent
           /\ in_order' = (in_order /\ Continues(n))
    BY <1>2 DEF TxFill
  <2>2. /\ UNCHANGED <<pc, req_len, written, tx_buf, tx_enabled, tx_lock, tx_was_busy>>
        /\ UNCHANGED rx /\ UNCHANGED retcode /\ tx_enabled /\ tx_len > 0
    BY <1>2 DEF TxFill
  <2>3. n \in Nat \ {0} /\ n <= tx_len
    BY <2>1, <2>2 DEF Smaller, TypeOK
  <2>4. /\ pc # "start" /\ tx_len <= req_len /\ tx_ptr = req_len - tx_len + 1
        /\ sent = written - tx_len
    BY <2>2 DEF TxInv, SendingInv
  <2>5. /\ tx_buf \in Seq(Int) /\ written - req_len \in Int /\ tx_ptr \in Nat \ {0}
        /\ tx_ptr + n - 1 <= Len(tx_buf)
        /\ \A k \in 1..Len(tx_buf) : tx_buf[k] = (written - req_len) + k
    BY <2>3, <2>4 DEF TypeOK, TxInv, BufferInv
  <2>6. SubSeq(tx_buf, tx_ptr, tx_ptr + n - 1) = After((written - req_len) + tx_ptr - 1, n)
    BY <2>3, <2>5, PieceOfRun
  <2>7. (written - req_len) + tx_ptr - 1 = sent
    BY <2>4 DEF TypeOK
  <2>8. Continues(n)
    BY <2>5, <2>6, <2>7 DEF Continues
  <2>9. in_order' = TRUE /\ sent' = written - (tx_len - n)
    <3>1. in_order' = TRUE /\ sent' = sent + n
      BY <2>1, <2>8 DEF TxInv
    <3> QED BY <2>3, <2>4, <3>1 DEF TypeOK
  <2>10. TypeOK'
    <3>1. tx_len' \in 0..MaxWrite /\ tx_ptr' \in 1..MaxWrite + 1 /\ sent' \in 0..MaxTx
      <4>1. /\ tx_len \in Nat /\ tx_ptr \in Nat \ {0} /\ req_len \in Nat /\ written \in Nat
            /\ req_len <= MaxWrite /\ written <= MaxTx /\ req_len <= written
        BY DEF TypeOK, TxInv, BufferInv
      <4> QED BY <2>1, <2>3, <2>4, <2>9, <4>1
    <3> QED BY <2>2, <2>9, <3>1 DEF TypeOK, rx
  <2>11. BufferInv'
    BY <2>2 DEF TxInv, BufferInv
  <2>12. SendingInv'
    BY <2>1, <2>2, <2>3, <2>4, <2>9, SMT DEF TypeOK, TxInv, SendingInv, BufferInv
  <2>13. RxInv'
    BY <2>2 DEF RxInv, rx
  <2> QED BY <2>9, <2>10, <2>11, <2>12, <2>13 DEF TxInv
<1>3. CASE RxChunk
  <2>1. PICK n \in 1..Chunk :
           /\ arrived + n <= MaxRx
           /\ arrived' = arrived + n
           /\ IF Len(rx_msgq) + n <= RX_BUFFER_SIZE
              THEN rx_msgq' = rx_msgq \o After(arrived, n) /\ UNCHANGED purged
              ELSE rx_msgq' = <<>> /\ purged' = TRUE
           /\ UNCHANGED <<pc, tx, data_len, ret, retcode>>
    BY <1>3 DEF RxChunk
  <2>2. n \in Nat /\ arrived \in Nat
    BY <2>1 DEF TypeOK
  <2>3. TxInv'
    BY <2>1 DEF TxInv, BufferInv, SendingInv, tx
  <2>4. CASE Len(rx_msgq) + n <= RX_BUFFER_SIZE
    <3>1. /\ After(arrived, n) \in Seq(1..MaxRx)
          /\ Len(After(arrived, n)) = n
          /\ \A k \in 1..n : After(arrived, n)[k] = arrived + k
      BY <2>1, <2>2, AfterSeq
    <3> DEFINE a == After(arrived, n)
    <3> HIDE DEF a
    <3>2. /\ a \in Seq(1..MaxRx) /\ Len(a) = n /\ \A k \in 1..n : a[k] = arrived + k
          /\ rx_msgq' = rx_msgq \o a
      BY <2>1, <2>4, <3>1 DEF a
    <3>3. /\ rx_msgq' \in Seq(1..MaxRx) /\ Len(rx_msgq') = Len(rx_msgq) + n
          /\ \A k \in 1..Len(rx_msgq') : rx_msgq'[k] = arrived' - Len(rx_msgq') + k
      <4>1. rx_msgq \in Seq(1..MaxRx) /\ Len(rx_msgq) \in Nat
        BY DEF TypeOK
      <4>2. EndsIn(rx_msgq, arrived) /\ EndsIn(a, arrived + Len(a))
        BY <2>2, <3>2, <4>1 DEF RxInv, EndsIn
      <4>3. /\ rx_msgq \o a \in Seq(1..MaxRx)
            /\ Len(rx_msgq \o a) = Len(rx_msgq) + Len(a)
            /\ EndsIn(rx_msgq \o a, arrived + Len(a))
        BY <2>2, <3>2, <4>1, <4>2, RunExtended
      <4> QED BY <2>1, <2>2, <3>2, <4>3 DEF EndsIn
    <3>4. TypeOK'
      BY <2>1, <2>2, <2>4, <3>3, SMT DEF TypeOK, tx
    <3>5. RxInv'
      BY <2>1, <2>2, <2>4, <3>3, SMT DEF TypeOK, RxInv
    <3> QED BY <2>3, <3>4, <3>5
  <2>5. CASE ~(Len(rx_msgq) + n <= RX_BUFFER_SIZE)
    BY <2>1, <2>2, <2>3, <2>5, SMT DEF TypeOK, RxInv, tx
  <2> QED BY <2>4, <2>5
<1>4. CASE Configure
  BY <1>4, SMT DEF Configure, Return, tx, rx, TypeOK, TxInv, BufferInv, SendingInv, RxInv
<1>5. CASE WriteBusy
  BY <1>5, SMT DEF WriteBusy, Return, tx, rx, TypeOK, TxInv, BufferInv, SendingInv, RxInv
<1>6. CASE WriteCopy
  <2>1. PICK n \in 0..MaxWrite : /\ written + n <= MaxTx
                                 /\ tx_buf' = After(written, n)
                                 /\ written' = written + n
                                 /\ req_len' = n
    BY <1>6 DEF WriteCopy
  <2>2. /\ tx_buf' \in Seq(1..MaxTx) /\ Len(tx_buf') = n
        /\ \A k \in 1..n : tx_buf'[k] = written + k
    <3>1. n \in Nat /\ written \in Nat /\ MaxTx \in Nat
      BY DEF TypeOK
    <3>2. /\ After(written, n) \in Seq(1..MaxTx) /\ Len(After(written, n)) = n
          /\ \A k \in 1..n : After(written, n)[k] = written + k
      BY <2>1, <3>1, AfterSeq
    <3> QED BY <2>1, <3>2
  <2>3. sent = written /\ ~tx_enabled /\ tx_lock' = 0
    BY <1>6 DEF WriteCopy, TypeOK, TxInv, SendingInv
  <2>4. TypeOK'
    BY <1>6, <2>1, <2>2, <2>3, SMT DEF WriteCopy, TypeOK, rx
  <2>5. TxInv'
    BY <1>6, <2>1, <2>2, <2>3, SMT DEF WriteCopy, TypeOK, TxInv, BufferInv, SendingInv
  <2>6. RxInv'
    BY <1>6 DEF WriteCopy, RxInv, rx
  <2> QED BY <2>4, <2>5, <2>6
<1>7. CASE WriteStart
  BY <1>7, SMT DEF WriteStart, rx, TypeOK, TxInv, BufferInv, SendingInv, RxInv
<1>8. CASE WriteDone
  <2>1. TypeOK'
    <3>1. tx_was_busy' \in BOOLEAN
      BY <1>8, Zenon DEF WriteDone
    <3>2. tx_lock' \in 0..1 /\ pc' = "idle" /\ retcode' = NoErr
      BY <1>8 DEF WriteDone, Return
    <3>3. UNCHANGED <<req_len, written, tx_buf, tx_len, tx_ptr, tx_enabled, sent, in_order,
                      arrived, rx_msgq, data_len, ret, purged>>
      BY <1>8 DEF WriteDone, rx
    <3> QED BY <3>1, <3>2, <3>3 DEF TypeOK
  <2>2. TxInv'
    BY <1>8, SMT DEF WriteDone, Return, rx, TypeOK, TxInv, BufferInv, SendingInv
  <2>3. RxInv'
    BY <1>8 DEF WriteDone, Return, rx, TypeOK, RxInv
  <2> QED BY <2>1, <2>2, <2>3
<1>9. CASE WriteTimeout
  BY <1>9, SMT DEF WriteTimeout, Return, rx, TypeOK, TxInv, BufferInv, SendingInv, RxInv
<1>10. CASE ReadBegin
  <2>1. TypeOK'
    <3>1. purged' \in BOOLEAN
      BY <1>10, Zenon DEF ReadBegin
    <3>2. /\ data_len' \in 0..MaxRead /\ pc' = "read"
          /\ ret' \in Seq(1..MaxRx) /\ Len(ret') = 0
      BY <1>10 DEF ReadBegin
    <3>3. UNCHANGED <<req_len, written, tx_buf, tx_len, tx_ptr, tx_enabled, tx_lock, tx_was_busy,
                      sent, in_order, arrived, rx_msgq, retcode>>
      BY <1>10 DEF ReadBegin, tx
    <3> QED BY <3>1, <3>2, <3>3 DEF TypeOK
  <2>2. TxInv'
    BY <1>10, SMT DEF ReadBegin, tx, TypeOK, TxInv, BufferInv, SendingInv
  <2>3. RxInv'
    BY <1>10 DEF ReadBegin, tx, TypeOK, RxInv
  <2> QED BY <2>1, <2>2, <2>3
<1>11. CASE ReadByte
  <2>1. /\ ret' \in Seq(1..MaxRx) /\ Len(ret') = Len(ret) + 1
        /\ \A k \in 1..Len(ret) : ret'[k] = ret[k]
        /\ ret'[Len(ret) + 1] = rx_msgq[1]
    BY <1>11 DEF ReadByte, TypeOK
  <2>2. /\ rx_msgq' \in Seq(1..MaxRx) /\ Len(rx_msgq') = Len(rx_msgq) - 1
        /\ \A k \in 1..Len(rx_msgq) - 1 : rx_msgq'[k] = rx_msgq[k + 1]
        /\ Len(rx_msgq) \in Nat \ {0}
    BY <1>11 DEF ReadByte, TypeOK
  <2>3. TypeOK'
    BY <1>11, <2>1, <2>2, SMT DEF ReadByte, TypeOK, tx
  <2>4. TxInv'
    BY <1>11 DEF ReadByte, TxInv, BufferInv, SendingInv, tx
  <2>5. RxInv'
    <3>1. arrived' = arrived /\ purged' = purged /\ Len(ret) \in Nat /\ arrived \in Nat
      BY <1>11 DEF ReadByte, TypeOK
    <3>2. Len(rx_msgq') <= arrived'
      BY <2>2, <3>1 DEF RxInv
    <3>3. \A k \in 1..Len(rx_msgq') : rx_msgq'[k] = arrived' - Len(rx_msgq') + k
      BY <2>2, <3>1 DEF RxInv
    <3>4. ASSUME ~purged
          PROVE  /\ Len(ret') + Len(rx_msgq') <= arrived'
                 /\ \A k \in 1..Len(ret') :
                       ret'[k] = arrived' - Len(rx_msgq') - Len(ret') + k
      <4>1. \A k \in 1..Len(ret) : ret'[k] = arrived - Len(rx_msgq) - Len(ret) + k
        BY <2>1, <3>4 DEF RxInv
      <4>2. ret'[Len(ret) + 1] = arrived - Len(rx_msgq) + 1
        BY <2>1, <2>2 DEF RxInv
      <4>3. /\ Len(ret') = Len(ret) + 1
            /\ Len(rx_msgq') = Len(rx_msgq) - 1
            /\ {Len(ret), Len(rx_msgq)} \subseteq Nat
        BY <2>1, <2>2, <3>1
      <4>4. Len(ret) + Len(rx_msgq) <= arrived
        BY <3>4 DEF RxInv
      <4>5. ASSUME NEW k \in 1..Len(ret')
            PROVE  ret'[k] = arrived' - Len(rx_msgq') - Len(ret') + k
        <5>1. k \in 1..Len(ret) \/ k = Len(ret) + 1
          BY <4>3
        <5> QED BY <3>1, <4>1, <4>2, <4>3, <5>1
      <4> QED BY <3>1, <4>3, <4>4, <4>5
    <3> QED BY <3>1, <3>2, <3>3, <3>4 DEF RxInv
  <2> QED BY <2>3, <2>4, <2>5
<1>12. CASE ReadEnd
  BY <1>12, SMT DEF ReadEnd, Return, tx, rx, TypeOK, TxInv, BufferInv, SendingInv, RxInv
<1>13. CASE UNCHANGED vars
  BY <1>13, SMT DEF vars, tx, rx, TypeOK, TxInv, BufferInv, SendingInv, RxInv
<1> QED BY <1>1, <1>2, <1>3, <1>4, <1>5, <1>6, <1>7, <1>8, <1>9, <1>10, <1>11, <1>12, <1>13
        DEF Next, Isr

(***************************************************************************)
(* The invariant of every behaviour.                                       *)
(***************************************************************************)
THEOREM Invariance == Spec => []IInv
BY InitIInv, NextIInv, PTL DEF Spec

(***************************************************************************)
(* No variable leaves its type: the handler stays inside tx_buf, the queue *)
(* and the answer within their sizes.                                      *)
(***************************************************************************)
THEOREM TypeCorrect == Spec => []TypeOK
BY Invariance, PTL DEF IInv

(***************************************************************************)
(* The line carries the bytes of the accepted writes once and in order.    *)
(***************************************************************************)
THEOREM LineInOrder == Spec => []in_order
<1>1. IInv => in_order
  BY DEF IInv, TxInv
<1> QED BY <1>1, Invariance, PTL

(***************************************************************************)
(* uart_write reports success only when all its bytes are with the UART.   *)
(***************************************************************************)
THEOREM SuccessSent == Spec => [][WriteDone => sent = written]_vars
<1>1. IInv => (WriteDone => sent = written)
  BY DEF IInv, TxInv, SendingInv, WriteDone, TypeOK
<1>2. IInv /\ [Next]_vars => [WriteDone => sent = written]_vars
  BY <1>1
<1> QED BY <1>2, Invariance, PTL DEF Spec

(***************************************************************************)
(* A step of the peripheral is a step of WriteService or none: TxFill lets *)
(* bytes leave, and uart_write hands its bytes over as it copies them.     *)
(***************************************************************************)
LEMMA StepWrites == IInv /\ [Next]_vars => [Writes!Next]_(Writes!vars)
<1> SUFFICES ASSUME IInv, [Next]_vars PROVE [Writes!Next]_(Writes!vars)
  OBVIOUS
<1>1. IInv'
  BY NextIInv
<1>2. in_order = TRUE /\ in_order' = TRUE
  BY <1>1 DEF IInv, TxInv
<1>3. ASSUME pc \notin {"start", "wait"}, pc' \notin {"start", "wait"}, UNCHANGED tx
      PROVE  Writes!Next
  BY <1>3 DEF tx, Writes!Next, Writes!Other
<1>4. ASSUME UNCHANGED <<pc, written, sent, in_order, retcode>> PROVE UNCHANGED Writes!vars
  BY <1>4 DEF Writes!vars
<1>5. TypeOK /\ SendingInv /\ TypeOK' /\ SendingInv'
  BY <1>1 DEF IInv, TxInv
<1>6. CASE TxFill
  <2>1. PICK n \in 1..Smaller(Chunk, tx_len) :
           sent' = (IF Continues(n) THEN sent + n ELSE sent) /\ in_order' = (in_order /\ Continues(n))
    BY <1>6 DEF TxFill
  <2>2. tx_enabled /\ tx_len > 0 /\ UNCHANGED <<pc, written, tx_enabled, retcode>>
    BY <1>6 DEF TxFill
  <2>3. sent' = sent + n
    BY <1>2, <2>1
  <2>4. n \in Nat \ {0} /\ sent \in Nat
    BY <1>5, <2>1, Constants DEF TypeOK, Smaller
  <2>5. sent + n <= written
    <3>1. sent = written - tx_len
      BY <1>5, <2>2 DEF SendingInv
    <3>2. n <= tx_len /\ tx_len \in Nat /\ written \in Nat
      BY <1>5, <2>1, Constants DEF TypeOK, Smaller
    <3> QED BY <2>4, <3>1, <3>2
  <2> QED BY <1>2, <2>2, <2>3, <2>4, <2>5 DEF Writes!Next, Writes!Leave
<1>7. CASE WriteCopy
  <2>1. sent = written
    BY <1>5, <1>7 DEF WriteCopy, SendingInv, TypeOK
  <2>2. written' >= written
    BY <1>5, <1>7 DEF WriteCopy, TypeOK
  <2>3. pc = "idle" /\ pc' = "start" /\ UNCHANGED <<sent, retcode>>
    BY <1>7 DEF WriteCopy
  <2> QED BY <1>2, <2>1, <2>2, <2>3 DEF Writes!Next, Writes!HandOver
<1>8. CASE WriteStart
  BY <1>4, <1>8 DEF WriteStart, Writes!vars
<1>9. CASE WriteDone
  <2>1. sent = written
    BY <1>5, <1>9 DEF WriteDone, SendingInv, TypeOK
  <2>2. pc = "wait" /\ pc' = "idle" /\ retcode' = NoErr /\ UNCHANGED <<written, sent>>
    BY <1>9 DEF WriteDone, Return
  <2> QED BY <1>2, <2>1, <2>2 DEF Writes!Next, Writes!Succeed
<1>10. CASE WriteTimeout
  <2>1. pc = "wait" /\ pc' = "idle" /\ retcode' = BusyErr /\ UNCHANGED <<written, sent>>
    BY <1>10 DEF WriteTimeout, Return
  <2> QED BY <1>2, <2>1, UartAssumption DEF Writes!Next, Writes!GiveUp
<1>11. CASE TxDone
  BY <1>4, <1>11 DEF TxDone
<1>12. CASE RxChunk \/ ReadByte
  BY <1>4, <1>12 DEF RxChunk, ReadByte, tx
<1>13. CASE Configure \/ WriteBusy \/ ReadBegin \/ ReadEnd
  BY <1>3, <1>13 DEF Configure, WriteBusy, ReadBegin, ReadEnd, Return
<1>14. CASE UNCHANGED vars
  BY <1>4, <1>14 DEF vars, tx
<1> QED BY <1>6, <1>7, <1>8, <1>9, <1>10, <1>11, <1>12, <1>13, <1>14 DEF Next, Isr

(***************************************************************************)
(* uart_write keeps the promises of WriteService, and drops nothing.       *)
(***************************************************************************)
THEOREM WritesRefined == Spec => ImplementsWrites
<1>1. Init => Writes!Init
  BY DEF Init, Writes!Init
<1> QED BY <1>1, StepWrites, Invariance, PTL DEF Spec, ImplementsWrites, Writes!Spec

(***************************************************************************)
(* A write that is told BUSY finds the interrupt enabled.                  *)
(***************************************************************************)
THEOREM BusySending == Spec => BusyMeansSending
<1>1. ASSUME IInv, WriteBusy \/ WriteTimeout PROVE tx_enabled
  <2>1. TypeOK /\ SendingInv
    BY <1>1 DEF IInv, TxInv
  <2>2. CASE WriteBusy
    BY <2>1, <2>2 DEF SendingInv, TypeOK, WriteBusy
  <2>3. CASE WriteTimeout
    BY <2>1, <2>3 DEF SendingInv, TypeOK, WriteTimeout
  <2> QED BY <1>1, <2>2, <2>3
<1>2. IInv /\ [Next]_vars => [WriteBusy \/ WriteTimeout => tx_enabled]_vars
  BY <1>1
<1> QED BY <1>2, Invariance, PTL DEF Spec, BusyMeansSending

(***************************************************************************)
(* What a uart_read returns has no hole unless the queue overflowed.       *)
(***************************************************************************)
THEOREM ReadsWithoutHole == Spec => []NoHoles
<1>1. IInv => NoHoles
  <2> SUFFICES ASSUME IInv, ~purged,
                      NEW k \in 1..Len(ret) + Len(rx_msgq) - 1
               PROVE  (ret \o rx_msgq)[k + 1] = (ret \o rx_msgq)[k] + 1
    BY DEF NoHoles
  <2>1. ret \in Seq(1..MaxRx) /\ rx_msgq \in Seq(1..MaxRx) /\ arrived \in Nat
    BY Constants DEF IInv, TypeOK
  <2>2. \A j \in 1..Len(ret) + Len(rx_msgq) :
           (ret \o rx_msgq)[j] = arrived - Len(rx_msgq) - Len(ret) + j
    BY <2>1, SMT DEF IInv, RxInv
  <2>3. k \in Int /\ k \in 1..Len(ret) + Len(rx_msgq) /\ k + 1 \in 1..Len(ret) + Len(rx_msgq)
    BY <2>1
  <2> QED BY <2>1, <2>2, <2>3
<1> QED BY <1>1, Invariance, PTL
=============================================================================
