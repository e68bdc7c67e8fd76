--------------------------- MODULE UartLinkProofs ---------------------------
(***************************************************************************)
(* The serial link, for any number of threads, requests and cells: what a  *)
(* clean call has written is in the firmware, cell by cell, until it is    *)
(* served, and then its answer is all that is under way.                   *)
(***************************************************************************)
EXTENDS UartLink, SequenceTheorems, TLAPS

\* The cell number k of a request.
Cell(r, k) == [no |-> r.no, len |-> r.len, at |-> k]

\* Who is in a call holds the lock.
LockInv ==
    \A t \in Threads :
        /\ pc[t] # "idle" <=> req_lock = t
        /\ pc[t] # "idle" => req[t] \in Requests
        /\ pc[t] = "write" => left[t] \in 1..HeaderLen + req[t].len
        /\ pc[t] # "write" => left[t] = 0
        /\ pc[t] \in {"idle", "write"} => waited[t] = 0 /\ own[t]
        /\ clean[t] => pc[t] # "idle"

\* What the firmware has of a request where.
FrameInv == /\ fpc = "first" => frame = <<>>
            /\ fpc = "rest" => Len(frame) = 1
            /\ fpc = "payload" => Len(frame) >= 2 /\ Len(frame) < HeaderLen + want
            /\ fpc = "serve" => Len(frame) >= 2
            /\ fpc # "serve" => ran = 0
            /\ fwaited = 1 => fpc \in {"rest", "payload"}

\* Until a clean call is served, the firmware has what it has written, in the
\* frame and then in the queue; it is held up nowhere but in its service.
Unserved(t) ==
    /\ pc[t] \in {"write", "header"}
    /\ resp = <<>>
    /\ Len(frame) + Len(rx) + left[t] = HeaderLen + req[t].len
    /\ \A k \in 1..Len(frame) : frame[k] = Cell(req[t], k)
    /\ \A k \in 1..Len(rx) : rx[k] = Cell(req[t], Len(frame) + k)
    /\ fpc = "payload" => want = req[t].len
    /\ fpc = "serve" => Len(frame) = HeaderLen + req[t].len
    /\ pc[t] = "write" => fwaited = 0
    /\ waited[t] <= ran

\* What is left of an answer to request number no.
Last(no) == [no |-> no, kind |-> "last"]
More(no) == [no |-> no, kind |-> "more"]
Payload(no) == [no |-> no, kind |-> "payload"]

Served(t) ==
    /\ fpc = "first"
    /\ rx = <<>>
    /\ \/ pc[t] = "header" /\ resp \in {<<Last(req[t].no)>>, <<More(req[t].no), Payload(req[t].no)>>}
       \/ pc[t] = "payload" /\ resp = <<Payload(req[t].no)>>

CleanInv == \A t \in Threads : clean[t] => ~skip /\ own[t] /\ (Unserved(t) \/ Served(t))

IInv == TypeOK /\ LockInv /\ FrameInv /\ CleanInv

LEMMA Bounds == /\ {MaxCalls, MaxLosses, MaxLen, ServeTime, RxSize} \subseteq Nat
                /\ UART_TIMEOUT \in Nat \ {0}
                /\ HeaderLen = 2 /\ RxSize = 2 + MaxLen
BY LinkAssumption DEF RxSize, HeaderLen

LEMMA InitIInv == Init => IInv
<1>. SUFFICES ASSUME Init PROVE IInv
  OBVIOUS
<1>1. TypeOK
  <2>1. <<>> \in Seq(Cells) /\ <<>> \in Seq(RespCells) /\ Len(<<>>) = 0
    BY EmptySeq
  <2>2. /\ calls \in 0..MaxCalls /\ losses \in 0..MaxLosses /\ want \in 0..MaxLen
        /\ ran \in 0..ServeTime /\ fwaited \in 0..1 /\ RxSize >= 0
    BY Bounds DEF Init
  <2>3. /\ left \in [Threads -> 0..RxSize] /\ waited \in [Threads -> 0..UART_TIMEOUT]
        /\ req \in [Threads -> Requests \cup {NoReq}]
    BY Bounds DEF Init
  <2>. QED
    BY <2>1, <2>2, <2>3 DEF Init, TypeOK
<1>2. LockInv
  BY LinkAssumption DEF Init, LockInv
<1>3. FrameInv /\ CleanInv
  BY DEF Init, FrameInv, CleanInv
<1>. QED
  BY <1>1, <1>2, <1>3 DEF IInv

(***************************************************************************)
(* Cells and sequences of them.                                            *)
(***************************************************************************)

LEMMA CellType ==
    ASSUME NEW r \in Requests, NEW k \in 1..HeaderLen + r.len
    PROVE  /\ CellsOf(r)[k] = Cell(r, k)
           /\ Cell(r, k) \in Cells
BY Bounds DEF Requests, CellsOf, Cell, Cells

LEMMA CellsOfType ==
    ASSUME NEW r \in Requests
    PROVE  CellsOf(r) \in Seq(Cells) /\ Len(CellsOf(r)) = HeaderLen + r.len
<1>1. HeaderLen + r.len \in Nat
  BY Bounds DEF Requests
<1>2. CellsOf(r) \in [1..HeaderLen + r.len -> Cells]
  BY CellType DEF CellsOf
<1>. QED
  BY <1>1, <1>2 DEF CellsOf

\* The beginning of a request.
LEMMA PrefixIsIntact ==
    ASSUME NEW r \in Requests, NEW h \in Seq(Cells), Len(h) \in 1..HeaderLen + r.len,
           \A k \in 1..Len(h) : h[k] = Cell(r, k)
    PROVE  /\ Intact(h)
           /\ h[1].len = r.len /\ h[1].no = r.no
           /\ Fields(h) = {r.len}
           /\ Len(h) = HeaderLen + r.len => h = CellsOf(r)
<1>. DEFINE n == Len(h)
            s == SubSeq(CellsOf(r), 1, n)
<1>1. HeaderLen + r.len \in Nat /\ n \in Nat
  BY Bounds DEF Requests
<1>2. \A k \in 1..n : CellsOf(r)[k] = Cell(r, k) /\ Cell(r, k) \in Cells
  BY <1>1, CellType
<1>3. /\ s \in Seq(Cells)
      /\ Len(s) = n
      /\ \A k \in 1..n : s[k] = CellsOf(r)[k]
  BY <1>1, <1>2, SubSeqProperties
<1>4. h = s
  BY <1>2, <1>3, SeqEqual
<1>5. Intact(h)
  BY <1>4 DEF Intact
<1>6. h[1] = Cell(r, 1)
  BY <1>1
<1>7. h[1].len = r.len /\ h[1].no = r.no
  BY <1>6 DEF Cell
<1>8. Fields(h) = {r.len}
  BY <1>5, <1>7 DEF Fields
<1>9. ASSUME n = HeaderLen + r.len PROVE h = CellsOf(r)
  BY <1>2, <1>9, CellsOfType, SeqEqual
<1>. QED
  BY <1>5, <1>7, <1>8, <1>9

LEMMA FieldsType ==
    ASSUME NEW h \in Seq(Cells), Len(h) >= 1
    PROVE  Fields(h) \subseteq 0..MaxLen
<1>1. h[1] \in Cells
  BY ElementOfSeq, LenProperties
<1>. QED
  BY <1>1 DEF Fields, Cells

\* A cell behind a queue, and taken from its front.
LEMMA Appended ==
    ASSUME NEW S, NEW q \in Seq(S), NEW c \in S
    PROVE  /\ Append(q, c) \in Seq(S)
           /\ Len(Append(q, c)) = Len(q) + 1
           /\ \A k \in 1..Len(q) : Append(q, c)[k] = q[k]
           /\ Append(q, c)[Len(q) + 1] = c
BY LenProperties

LEMMA Taken ==
    ASSUME NEW S, NEW q \in Seq(S), q # <<>>
    PROVE  /\ Head(q) \in S /\ Head(q) = q[1]
           /\ Tail(q) \in Seq(S)
           /\ Len(q) >= 1 /\ Len(Tail(q)) = Len(q) - 1
           /\ \A k \in 1..Len(q) - 1 : Tail(q)[k] = q[k + 1]
BY HeadTailProperties, EmptySeq, LenProperties

(***************************************************************************)
(* The steps.                                                              *)
(***************************************************************************)

\* While t is in a call, no other call is clean.
LEMMA Alone ==
    ASSUME LockInv, NEW t \in Threads, pc[t] # "idle", NEW u \in Threads, clean[u]
    PROVE  u = t
BY DEF LockInv

LEMMA StepBegin == ASSUME IInv, NEW t \in Threads, Begin(t) PROVE IInv'
<1>. USE DEF IInv
<1>1. PICK n \in 0..MaxLen :
         /\ req' = [req EXCEPT ![t] = [no |-> calls + 1, len |-> n]]
         /\ left' = [left EXCEPT ![t] = HeaderLen + n]
  BY DEF Begin
<1>2. [no |-> calls + 1, len |-> n] \in Requests
  BY Bounds DEF Begin, TypeOK, Requests
<1>3. TypeOK'
  <2>0. calls \in 0..MaxCalls /\ calls < MaxCalls /\ calls' = calls + 1
    BY DEF Begin, TypeOK
  <2>1. HeaderLen + n \in 0..RxSize /\ calls' \in 0..MaxCalls
    BY <2>0, Bounds
  <2>2. Quiet \in BOOLEAN
    BY DEF Quiet
  <2>. QED
    BY <1>1, <1>2, <2>1, <2>2 DEF Begin, TypeOK, line, firmware
<1>4. \A u \in Threads : pc[u] = "idle"
  BY LinkAssumption DEF Begin, LockInv
<1>5. LockInv'
  <2>. SUFFICES ASSUME NEW u \in Threads PROVE LockInv!(u)'
    BY DEF LockInv
  <2>1. CASE u = t
    <3>1. /\ pc'[u] = "write" /\ req_lock' = u
          /\ req'[u] = [no |-> calls + 1, len |-> n]
          /\ left'[u] = HeaderLen + n
      BY <1>1, <2>1 DEF Begin, TypeOK
    <3>2. waited'[u] = 0 /\ own'[u]
      BY <1>4, <2>1 DEF Begin, LockInv
    <3>3. HeaderLen + n \in 1..HeaderLen + n
      BY Bounds
    <3>. QED
      BY <3>1, <3>2, <3>3, <1>2
  <2>2. CASE u # t
    <3>1. /\ pc'[u] = pc[u] /\ req_lock' # u /\ left'[u] = left[u]
          /\ waited'[u] = waited[u] /\ own'[u] = own[u] /\ clean'[u] = clean[u]
      BY <1>1, <2>2 DEF Begin, TypeOK
    <3>. QED
      BY <3>1, <1>4 DEF LockInv
  <2>. QED
    BY <2>1, <2>2
<1>6. FrameInv'
  BY DEF Begin, FrameInv, firmware
<1>7. CleanInv'
  <2>. SUFFICES ASSUME NEW u \in Threads, clean'[u]
                PROVE  (~skip /\ own[u] /\ Unserved(u))'
    BY DEF CleanInv
  <2>1. u = t /\ Quiet
    BY <1>4 DEF Begin, LockInv, TypeOK
  <2>2. /\ req'[u] = [no |-> calls + 1, len |-> n]
        /\ left'[u] = HeaderLen + n
        /\ pc'[u] = "write"
    BY <1>1, <2>1 DEF Begin, TypeOK
  <2>3. own'[u] /\ waited'[u] = 0
    BY <1>4, <2>1 DEF Begin, LockInv, TypeOK
  <2>4. /\ rx' = <<>> /\ frame' = <<>> /\ resp' = <<>> /\ fpc' = "first" /\ ~skip'
        /\ fwaited' = 0 /\ ran' = 0
    BY <2>1 DEF Quiet, Begin, line, firmware, FrameInv, TypeOK
  <2>5. Len(<<>>) = 0
    BY EmptySeq
  <2>6. Unserved(u)'
    BY <2>2, <2>3, <2>4, <2>5, Bounds DEF Unserved
  <2>. QED
    BY <2>3, <2>4, <2>6
<1>. QED
  BY <1>3, <1>5, <1>6, <1>7

\* The end of a call: nobody is in one.
LEMMA StepEnd ==
    ASSUME IInv, NEW t \in Threads, pc[t] # "idle", End(t),
           UNCHANGED <<line, firmware>>, resp' \in Seq(RespCells)
    PROVE  IInv'
<1>. USE DEF IInv
<1>1. TypeOK'
  <2>1. 0 \in 0..RxSize /\ 0 \in 0..UART_TIMEOUT
    BY Bounds
  <2>. QED
    BY <2>1 DEF End, TypeOK, line, firmware
<1>2. LockInv'
  BY LinkAssumption DEF End, LockInv, TypeOK
<1>3. FrameInv'
  BY DEF FrameInv, firmware
<1>4. \A u \in Threads : ~clean'[u]
  BY DEF End, LockInv, TypeOK
<1>. QED
  BY <1>1, <1>2, <1>3, <1>4 DEF CleanInv

LEMMA StepReturn ==
    ASSUME IInv, NEW t \in Threads, ReadLast(t) \/ ReadPayload(t) \/ Timeout(t) \/ IoFails(t)
    PROVE  IInv'
<1>1. pc[t] # "idle" /\ End(t) /\ UNCHANGED <<line, firmware>>
  BY DEF ReadLast, ReadHeader, ReadPayload, Timeout, IoFails
<1>2. resp' = resp \/ (resp # <<>> /\ resp' = Tail(resp))
  BY DEF ReadLast, ReadHeader, ReadPayload, Timeout, IoFails
<1>3. resp \in Seq(RespCells)
  BY DEF IInv, TypeOK
<1>4. resp # <<>> => Tail(resp) \in Seq(RespCells)
  BY <1>3, Taken
<1>5. resp' \in Seq(RespCells)
  BY <1>2, <1>3, <1>4
<1>. QED
  BY <1>1, <1>5, StepEnd

\* What t writes moves t alone.
LEMMA WroteFacts ==
    ASSUME IInv, NEW t \in Threads, Wrote(t)
    PROVE  /\ pc[t] = "write" /\ req[t] \in Requests /\ req_lock = t
           /\ left[t] \in 1..HeaderLen + req[t].len
           /\ left' = [left EXCEPT ![t] = left[t] - 1]
           /\ left' \in [Threads -> 0..RxSize]
           /\ pc' = [pc EXCEPT ![t] = IF left[t] = 1 THEN "header" ELSE "write"]
           /\ UNCHANGED <<library, req_lock, calls, req, waited, own, firmware, resp>>
           /\ waited[t] = 0
<1>1. pc[t] = "write" /\ left' = [left EXCEPT ![t] = left[t] - 1]
  BY DEF Wrote
<1>2. /\ left[t] \in 1..HeaderLen + req[t].len /\ req[t] \in Requests /\ waited[t] = 0
      /\ req_lock = t
  BY <1>1 DEF IInv, LockInv
<1>3. left \in [Threads -> 0..RxSize] /\ left[t] - 1 \in 0..RxSize
  <2>1. left \in [Threads -> 0..RxSize]
    BY DEF IInv, TypeOK
  <2>2. left[t] \in 0..RxSize
    BY <2>1
  <2>3. req[t].len \in Nat
    BY <1>2, Bounds DEF Requests
  <2>4. left[t] \in Int /\ left[t] >= 1
    BY <1>2, <2>3, Bounds
  <2>. QED
    BY <2>1, <2>2, <2>4, Bounds
<1>. QED
  BY <1>1, <1>2, <1>3 DEF Wrote

LEMMA WroteLock ==
    ASSUME IInv, NEW t \in Threads, Wrote(t), \A u \in Threads : clean'[u] => clean[u]
    PROVE  LockInv'
<1>. SUFFICES ASSUME NEW u \in Threads PROVE LockInv!(u)'
  BY DEF LockInv
<1>1. CASE u = t
  <2>1. /\ left'[u] = left[t] - 1
        /\ pc'[u] = IF left[t] = 1 THEN "header" ELSE "write"
        /\ req'[u] = req[t] /\ req_lock' = u /\ waited'[u] = 0 /\ own'[u] = own[t]
    BY <1>1, WroteFacts DEF IInv, TypeOK
  <2>2. left[t] \in 1..HeaderLen + req[t].len /\ req[t] \in Requests /\ own[t] /\ pc[t] = "write"
    BY WroteFacts DEF IInv, LockInv
  <2>3. left[t] # 1 => left[t] - 1 \in 1..HeaderLen + req[t].len
    BY <2>2, Bounds DEF Requests
  <2>4. left[t] = 1 => left'[u] = 0
    BY <2>1
  <2>. QED
    BY <2>1, <2>2, <2>3, <2>4
<1>2. CASE u # t
  <2>1. /\ pc'[u] = pc[u] /\ req_lock' = req_lock /\ left'[u] = left[u] /\ req'[u] = req[u]
        /\ waited'[u] = waited[u] /\ own'[u] = own[u] /\ (clean'[u] => clean[u])
    BY <1>2, WroteFacts DEF IInv, TypeOK
  <2>2. LockInv!(u)
    BY DEF IInv, LockInv
  <2>. QED
    BY <2>1, <2>2
<1>. QED
  BY <1>1, <1>2

LEMMA StepWriteLost == ASSUME IInv, NEW t \in Threads, WriteLost(t) PROVE IInv'
<1>. USE DEF IInv
<1>1. Wrote(t) /\ clean' = [clean EXCEPT ![t] = FALSE] /\ losses' \in 0..MaxLosses
      /\ UNCHANGED <<rx, skip>>
  BY Bounds DEF WriteLost, TypeOK
<1>2. TypeOK'
  <2>1. pc' \in [Threads -> {"idle", "write", "header", "payload"}]
    BY <1>1, WroteFacts DEF TypeOK
  <2>. QED
    BY <1>1, <2>1, WroteFacts DEF TypeOK, firmware
<1>3. LockInv'
  BY <1>1, WroteLock DEF TypeOK
<1>4. FrameInv'
  BY <1>1, WroteFacts DEF FrameInv, firmware
<1>5. \A u \in Threads : ~clean'[u]
  <2>. SUFFICES ASSUME NEW u \in Threads, clean'[u] PROVE FALSE
    OBVIOUS
  <2>1. clean[u] /\ u # t
    BY <1>1 DEF TypeOK
  <2>. QED
    BY <2>1, <1>1, WroteFacts, Alone
<1>. QED
  BY <1>2, <1>3, <1>4, <1>5 DEF CleanInv

LEMMA StepWriteCell == ASSUME IInv, NEW t \in Threads, WriteCell(t) PROVE IInv'
<1>. USE DEF IInv
<1>. DEFINE k == HeaderLen + req[t].len + 1 - left[t]
<1>1. Wrote(t) /\ Enqueue(CellsOf(req[t])[k]) /\ UNCHANGED <<losses, clean>>
  BY DEF WriteCell
<1>2. CellsOf(req[t])[k] = Cell(req[t], k) /\ Cell(req[t], k) \in Cells
  <2>1. k \in 1..HeaderLen + req[t].len
    BY <1>1, WroteFacts, Bounds DEF Requests
  <2>. QED
    BY <1>1, <2>1, WroteFacts, CellType
<1>3. rx' \in Seq(Cells) /\ Len(rx') <= RxSize /\ skip' \in BOOLEAN
  <2>1. Append(rx, Cell(req[t], k)) \in Seq(Cells) /\ Len(Append(rx, Cell(req[t], k))) = Len(rx) + 1
    BY <1>2, Appended DEF TypeOK
  <2>2. /\ Len(rx) \in Nat /\ <<>> \in Seq(Cells) /\ Len(<<>>) = 0
        /\ rx \in Seq(Cells) /\ Len(rx) <= RxSize /\ skip \in BOOLEAN /\ RxSize \in Nat
    BY LenProperties, EmptySeq, Bounds DEF TypeOK
  <2>. HIDE DEF k
  <2>3. \/ Len(rx) < RxSize /\ rx' = Append(rx, Cell(req[t], k)) /\ skip' = FALSE
        \/ rx' = <<>> /\ skip' = TRUE
        \/ rx' = rx /\ skip' = skip
    BY <1>1, <1>2 DEF Enqueue
  <2>4. CASE Len(rx) < RxSize /\ rx' = Append(rx, Cell(req[t], k)) /\ skip' = FALSE
    <3>1. Len(rx') = Len(rx) + 1 /\ rx' \in Seq(Cells)
      BY <2>1, <2>4
    <3>2. Len(rx') <= RxSize
      BY <2>2, <2>4, <3>1
    <3>3. skip' \in BOOLEAN
      BY <2>4
    <3>. QED
      BY <3>1, <3>2, <3>3
  <2>5. CASE rx' = <<>> /\ skip' = TRUE
    BY <2>2, <2>5
  <2>6. CASE rx' = rx /\ skip' = skip
    BY <2>2, <2>6
  <2>. QED
    BY <2>3, <2>4, <2>5, <2>6
<1>4. TypeOK'
  <2>1. pc' \in [Threads -> {"idle", "write", "header", "payload"}]
    BY <1>1, WroteFacts DEF TypeOK
  <2>. QED
    BY <1>1, <1>3, <2>1, WroteFacts DEF TypeOK, firmware
<1>5. LockInv'
  BY <1>1, WroteLock
<1>6. FrameInv'
  BY <1>1, WroteFacts DEF FrameInv, firmware
<1>7. ASSUME NEW u \in Threads, clean'[u]
      PROVE  (~skip /\ own[u] /\ Unserved(u))'
  <2>1. u = t /\ clean[t]
    BY <1>1, <1>7, WroteFacts, Alone
  <2>2. ~skip /\ own[t] /\ Unserved(t)
    BY <1>1, <2>1, WroteFacts DEF CleanInv, Served
  <2>3. Len(frame) \in Nat /\ Len(rx) \in Nat
    BY LenProperties DEF TypeOK
  <2>4. Len(rx) < RxSize /\ k = Len(frame) + Len(rx) + 1
    <3>1. /\ Len(frame) + Len(rx) + left[t] = HeaderLen + req[t].len
          /\ left[t] \in Nat \ {0} /\ req[t].len \in 0..MaxLen
      BY <2>2, <1>1, WroteFacts, Bounds DEF Unserved, Requests
    <3>2. \A f, x, l, n \in Int : f + x + l = HeaderLen + n /\ f >= 0 /\ l >= 1 /\ n <= MaxLen
             => x < RxSize /\ HeaderLen + n + 1 - l = f + x + 1
      BY Bounds
    <3>3. req[t].len \in Int /\ req[t].len <= MaxLen /\ left[t] \in Int /\ left[t] >= 1
      BY <3>1, Bounds
    <3>4. Len(frame) \in Int /\ Len(rx) \in Int /\ Len(frame) >= 0
      BY <2>3
    <3>. QED
      BY <3>1, <3>2, <3>3, <3>4
  <2>5. rx' = Append(rx, Cell(req[t], k)) /\ ~skip'
    <3>. HIDE DEF k
    <3>. QED
      BY <1>1, <1>2, <2>2, <2>3, <2>4, Bounds DEF Enqueue
  <2>6. /\ Len(rx') = Len(rx) + 1
        /\ \A j \in 1..Len(rx) : rx'[j] = rx[j]
        /\ rx'[Len(rx) + 1] = Cell(req[t], k)
    <3>. HIDE DEF k
    <3>. QED
      BY <1>2, <2>5, Appended DEF TypeOK
  <2>7. /\ left'[t] = left[t] - 1 /\ left[t] \in Nat /\ req' = req /\ own' = own /\ waited' = waited
        /\ UNCHANGED firmware /\ resp' = resp
        /\ pc'[t] \in {"write", "header"}
    BY <1>1, WroteFacts DEF TypeOK
  <2>8. ASSUME NEW j \in 1..Len(rx') PROVE rx'[j] = Cell(req[t], Len(frame) + j)
    <3>1. CASE j = Len(rx) + 1
      <4>1. Len(frame) + j = k
        BY <3>1, <2>3, <2>4
      <4>. HIDE DEF k
      <4>. QED
        BY <2>6, <3>1, <4>1
    <3>2. CASE j # Len(rx) + 1
      <4>1. j \in 1..Len(rx)
        BY <2>3, <2>6, <3>2
      <4>. QED
        BY <2>2, <2>6, <4>1 DEF Unserved
    <3>. QED
      BY <3>1, <3>2
  <2>9. Unserved(t)'
    <3>1. pc[t] = "write"
      BY <1>1, WroteFacts
    <3>2. Len(frame') + Len(rx') + left'[t] = HeaderLen + req'[t].len
      <4>1. /\ Len(frame) + Len(rx) + left[t] = HeaderLen + req[t].len
            /\ frame' = frame /\ req[t].len \in Nat
        BY <2>2, <2>7, <1>1, WroteFacts, Bounds DEF Unserved, firmware, Requests
      <4>. QED
        BY <4>1, <2>3, <2>6, <2>7, Bounds
    <3>. QED
      BY <2>2, <2>7, <2>8, <3>1, <3>2 DEF Unserved, firmware
  <2>. QED
    BY <2>1, <2>2, <2>5, <2>7, <2>9
<1>. QED
  BY <1>4, <1>5, <1>6, <1>7 DEF CleanInv

\* A read that goes on: the call stays in its lock and may start its time anew.
LEMMA ReadFacts ==
    ASSUME IInv, NEW t \in Threads, ReadMore(t) \/ ReadPart(t)
    PROVE  /\ pc[t] \in {"header", "payload"} /\ resp # <<>> /\ resp' = Tail(resp)
           /\ pc' = [pc EXCEPT ![t] = "payload"]
           /\ own' \in [Threads -> BOOLEAN] /\ waited' \in [Threads -> 0..UART_TIMEOUT]
           /\ \A u \in Threads : u # t => own'[u] = own[u] /\ waited'[u] = waited[u]
           /\ UNCHANGED <<library, req_lock, calls, req, left, clean, line, firmware>>
<1>1. /\ pc[t] \in {"header", "payload"} /\ resp # <<>> /\ resp' = Tail(resp)
      /\ UNCHANGED <<library, req_lock, calls, req, left, clean, line, firmware>>
      /\ Restart(t)
  BY DEF ReadMore, ReadPart, ReadHeader
<1>2. \E b \in BOOLEAN : own' = [own EXCEPT ![t] = b]
  BY DEF ReadMore, ReadPart, IsOwn
<1>3. pc' = [pc EXCEPT ![t] = "payload"]
  BY DEF ReadMore, ReadPart, IInv, TypeOK
<1>4. 0 \in 0..UART_TIMEOUT
  BY Bounds
<1>5. waited' \in [Threads -> 0..UART_TIMEOUT] /\ \A u \in Threads : u # t => waited'[u] = waited[u]
  BY <1>1, <1>4 DEF Restart, IInv, TypeOK
<1>. QED
  BY <1>1, <1>2, <1>3, <1>5 DEF IInv, TypeOK

LEMMA StepRead ==
    ASSUME IInv, NEW t \in Threads, ReadMore(t) \/ ReadPart(t)
    PROVE  IInv'
<1>. USE DEF IInv
<1>1. TypeOK'
  <2>0. resp \in Seq(RespCells)
    BY DEF TypeOK
  <2>1. resp' \in Seq(RespCells)
    <3>1. resp # <<>> /\ resp' = Tail(resp)
      BY ReadFacts
    <3>2. resp # <<>> => Tail(resp) \in Seq(RespCells)
      BY <2>0, Taken
    <3>. QED
      BY <3>1, <3>2
  <2>2. pc' \in [Threads -> {"idle", "write", "header", "payload"}]
    BY ReadFacts DEF TypeOK
  <2>. QED
    BY <2>1, <2>2, ReadFacts DEF TypeOK, line, firmware
<1>2. LockInv'
  <2>. SUFFICES ASSUME NEW u \in Threads PROVE LockInv!(u)'
    BY DEF LockInv
  <2>0. LockInv!(u)
    BY DEF LockInv
  <2>1. CASE u = t
    <3>1. pc'[u] = "payload" /\ pc[u] \in {"header", "payload"}
      BY <2>1, ReadFacts DEF TypeOK
    <3>2. /\ req_lock' = req_lock /\ req'[u] = req[u] /\ left'[u] = left[u] /\ clean'[u] = clean[u]
      BY <2>1, ReadFacts
    <3>. QED
      BY <2>0, <3>1, <3>2
  <2>2. CASE u # t
    <3>1. /\ pc'[u] = pc[u] /\ own'[u] = own[u] /\ waited'[u] = waited[u]
          /\ req_lock' = req_lock /\ req'[u] = req[u] /\ left'[u] = left[u] /\ clean'[u] = clean[u]
      BY <2>2, ReadFacts DEF TypeOK
    <3>. QED
      BY <2>0, <3>1
  <2>. QED
    BY <2>1, <2>2
<1>3. FrameInv'
  BY ReadFacts DEF FrameInv, firmware
<1>4. ASSUME NEW u \in Threads, clean'[u] PROVE ~skip' /\ own'[u] /\ Served(u)'
  <2>1. u = t /\ clean[t]
    BY <1>4, ReadFacts, Alone
  <2>2. ~skip /\ own[t] /\ Served(t)
    BY <2>1, ReadFacts DEF CleanInv, Unserved
  <2>3. fpc' = fpc /\ rx' = rx /\ skip' = skip /\ req' = req /\ pc'[t] = "payload"
    BY ReadFacts DEF firmware, line, TypeOK
  <2>4. ~ReadPart(t)
    BY <2>2 DEF ReadPart, Served, IsOwn, Payload
  <2>5. Head(resp).kind \in {"more", "payload"} /\ own'[t] = IsOwn(t, "more") /\ pc[t] = "header"
    BY <2>4 DEF ReadMore, ReadHeader, TypeOK
  <2>6. resp = <<More(req[t].no), Payload(req[t].no)>>
    BY <2>2, <2>5 DEF Served, Last
  <2>7. own'[t] /\ resp' = <<Payload(req[t].no)>>
    BY <2>5, <2>6, ReadFacts DEF IsOwn, More
  <2>. QED
    BY <2>1, <2>2, <2>3, <2>7 DEF Served
<1>. QED
  BY <1>1, <1>2, <1>3, <1>4 DEF CleanInv

\* The next cell of the queue behind the frame.
LEMMA LongerType ==
    ASSUME TypeOK, rx # <<>>
    PROVE  /\ Longer \in Seq(Cells) /\ Len(frame) \in Nat /\ Len(Longer) = Len(frame) + 1
           /\ Tail(rx) \in Seq(Cells) /\ Len(rx) \in Nat
           /\ Len(rx) >= 1 /\ Len(Tail(rx)) = Len(rx) - 1
<1>1. frame \in Seq(Cells) /\ rx \in Seq(Cells)
  BY DEF TypeOK
<1>2. Head(rx) \in Cells /\ Tail(rx) \in Seq(Cells) /\ Len(rx) >= 1 /\ Len(Tail(rx)) = Len(rx) - 1
  BY <1>1, Taken
<1>3. Longer \in Seq(Cells) /\ Len(Longer) = Len(frame) + 1
  BY <1>1, <1>2, Appended DEF Longer
<1>. QED
  BY <1>1, <1>2, <1>3, LenProperties

\* It is the next cell of the request that a clean call sends.
LEMMA LongerIsPrefix ==
    ASSUME IInv, rx # <<>>, NEW t \in Threads, clean[t]
    PROVE  /\ Unserved(t) /\ ~skip /\ own[t] /\ req[t] \in Requests
           /\ Len(Longer) <= HeaderLen + req[t].len
           /\ \A k \in 1..Len(Longer) : Longer[k] = Cell(req[t], k)
           /\ \A k \in 1..Len(Tail(rx)) : Tail(rx)[k] = Cell(req[t], Len(Longer) + k)
           /\ Intact(Longer)
           /\ Fields(Longer) = {req[t].len}
<1>. USE DEF IInv
<1>1. Unserved(t) /\ ~skip /\ own[t] /\ req[t] \in Requests
  BY DEF CleanInv, Served, LockInv
<1>2. frame \in Seq(Cells) /\ rx \in Seq(Cells) /\ left[t] \in Nat
  BY Bounds DEF TypeOK
<1>3. Len(frame) \in Nat /\ Len(rx) \in Nat /\ req[t].len \in Nat
  BY <1>1, <1>2, Bounds, LenProperties DEF Requests
<1>4. Head(rx) = rx[1] /\ Head(rx) \in Cells /\ Len(rx) >= 1
      /\ \A k \in 1..Len(rx) - 1 : Tail(rx)[k] = rx[k + 1]
  BY <1>2, Taken
<1>5. Len(Longer) = Len(frame) + 1 /\ Len(Tail(rx)) = Len(rx) - 1 /\ Longer \in Seq(Cells)
  BY LongerType
<1>6. Len(Longer) <= HeaderLen + req[t].len
  <2>1. Len(frame) + Len(rx) + left[t] = HeaderLen + req[t].len
    BY <1>1 DEF Unserved
  <2>. QED
    BY <2>1, <1>2, <1>3, <1>4, <1>5, Bounds
<1>7. ASSUME NEW k \in 1..Len(Longer) PROVE Longer[k] = Cell(req[t], k)
  <2>1. /\ \A j \in 1..Len(frame) : Longer[j] = frame[j]
        /\ Longer[Len(frame) + 1] = rx[1]
    BY <1>2, <1>4, Appended DEF Longer
  <2>2. CASE k = Len(frame) + 1
    <3>1. 1 \in 1..Len(rx)
      BY <1>3, <1>4
    <3>2. rx[1] = Cell(req[t], Len(frame) + 1)
      BY <3>1, <1>1 DEF Unserved
    <3>. QED
      BY <2>1, <2>2, <3>2
  <2>3. CASE k # Len(frame) + 1
    <3>1. k \in 1..Len(frame)
      BY <2>3, <1>3, <1>5
    <3>. QED
      BY <2>1, <3>1, <1>1 DEF Unserved
  <2>. QED
    BY <2>2, <2>3
<1>8. ASSUME NEW k \in 1..Len(Tail(rx)) PROVE Tail(rx)[k] = Cell(req[t], Len(Longer) + k)
  <2>1. k \in 1..Len(rx) - 1 /\ k + 1 \in 1..Len(rx) /\ Len(frame) + (k + 1) = Len(Longer) + k
    BY <1>3, <1>5
  <2>2. rx[k + 1] = Cell(req[t], Len(frame) + (k + 1))
    BY <2>1, <1>1 DEF Unserved
  <2>. QED
    BY <2>1, <2>2, <1>4
<1>9. Len(Longer) \in 1..HeaderLen + req[t].len
  BY <1>3, <1>5, <1>6, Bounds
<1>10. Intact(Longer) /\ Fields(Longer) = {req[t].len}
  BY <1>1, <1>5, <1>7, <1>9, PrefixIsIntact
<1>. QED
  BY <1>1, <1>6, <1>7, <1>8, <1>10

LEMMA ClientKept == ASSUME LockInv, UNCHANGED client PROVE LockInv'
BY DEF LockInv, client

\* A cell taken keeps what a clean call knows, if want and the next place in
\* get_req go with its request.
LEMMA TakeKeepsClean ==
    ASSUME IInv, NEW next, Take(next),
           \A t \in Threads : clean[t] =>
              /\ next = "payload" => want' = req[t].len
              /\ next = "serve" => Len(Longer) = HeaderLen + req[t].len
    PROVE  CleanInv'
<1>. SUFFICES ASSUME NEW t \in Threads, clean'[t]
              PROVE  (~skip /\ own[t] /\ Unserved(t))'
  BY DEF CleanInv
<1>1. /\ rx # <<>> /\ rx' = Tail(rx) /\ frame' = Longer /\ fpc' = next /\ fwaited' = 0
      /\ UNCHANGED <<pc, req, left, waited, own, clean, skip, ran, resp>>
  BY DEF Take, client
<1>2. clean[t]
  BY <1>1
<1>3. Unserved(t) /\ ~skip /\ own[t] /\ req[t] \in Requests
  BY <1>1, <1>2, LongerIsPrefix
<1>4. /\ \A k \in 1..Len(frame') : frame'[k] = Cell(req'[t], k)
      /\ \A k \in 1..Len(rx') : rx'[k] = Cell(req'[t], Len(frame') + k)
  BY <1>1, <1>2, LongerIsPrefix
<1>5. Len(frame') + Len(rx') + left'[t] = HeaderLen + req'[t].len
  <2>1. Len(frame) + Len(rx) + left[t] = HeaderLen + req[t].len
    BY <1>3 DEF Unserved
  <2>2. left \in [Threads -> 0..RxSize] /\ RxSize \in Nat
    BY Bounds DEF IInv, TypeOK
  <2>3. left[t] \in Nat
    BY <2>2
  <2>4. /\ Len(frame) \in Nat /\ Len(rx) \in Nat
        /\ Len(Longer) = Len(frame) + 1 /\ Len(Tail(rx)) = Len(rx) - 1
    BY <1>1, LongerType DEF IInv
  <2>5. (Len(frame) + 1) + (Len(rx) - 1) + left[t] = HeaderLen + req[t].len
    BY <2>1, <2>3, <2>4
  <2>. QED
    BY <1>1, <2>4, <2>5
<1>6. waited'[t] <= ran' /\ pc'[t] \in {"write", "header"} /\ resp' = <<>>
  BY <1>1, <1>3 DEF Unserved
<1>7. /\ fpc' = "payload" => want' = req'[t].len
      /\ fpc' = "serve" => Len(frame') = HeaderLen + req'[t].len
  BY <1>1, <1>2
<1>. QED
  BY <1>1, <1>3, <1>4, <1>5, <1>6, <1>7 DEF Unserved

\* What a Take does to the types.
LEMMA TakeType ==
    ASSUME IInv, NEW next \in {"rest", "payload", "serve"}, Take(next),
           Len(frame) + 1 <= RxSize, want' \in 0..MaxLen
    PROVE  TypeOK' /\ LockInv'
<1>1. /\ rx # <<>> /\ rx' = Tail(rx) /\ frame' = Longer /\ fpc' = next /\ fwaited' = 0
      /\ UNCHANGED <<client, skip, losses, ran, resp>>
  BY DEF Take
<1>2. rx' \in Seq(Cells) /\ Len(rx') <= RxSize
  <2>1. Len(rx) <= RxSize /\ TypeOK
    BY DEF IInv, TypeOK
  <2>. QED
    BY <1>1, <2>1, LongerType, Bounds
<1>3. frame' \in Seq(Cells) /\ Len(frame') <= RxSize
  BY <1>1, LongerType DEF IInv
<1>4. LockInv'
  BY <1>1, ClientKept DEF IInv
<1>. QED
  BY <1>1, <1>2, <1>3, <1>4 DEF IInv, TypeOK, client

LEMMA StepTakeFirst == ASSUME IInv, TakeFirst PROVE IInv'
<1>1. fpc = "first" /\ Take("rest") /\ want' = want
  BY DEF TakeFirst
<1>2. frame = <<>> /\ ran = 0
  BY <1>1 DEF IInv, FrameInv
<1>3. Len(frame) = 0
  BY <1>2, EmptySeq
<1>4. TypeOK' /\ LockInv'
  <2>1. Len(frame) + 1 <= RxSize
    BY <1>3, Bounds
  <2>2. want' \in 0..MaxLen
    BY <1>1 DEF IInv, TypeOK
  <2>. QED
    BY <1>1, <2>1, <2>2, TakeType
<1>5. FrameInv'
  <2>1. Len(frame') = 1
    BY <1>1, <1>3, LongerType DEF IInv, Take
  <2>. QED
    BY <1>1, <1>2, <2>1 DEF Take, FrameInv
<1>6. CleanInv'
  BY <1>1, TakeKeepsClean
<1>. QED
  BY <1>4, <1>5, <1>6 DEF IInv

LEMMA StepTakeRest == ASSUME IInv, TakeRest PROVE IInv'
<1>1. fpc = "rest" /\ rx # <<>>
  BY DEF TakeRest
<1>2. PICK n \in Fields(Longer) : want' = n /\ Take(IF n = 0 THEN "serve" ELSE "payload")
  BY DEF TakeRest
<1>. DEFINE next == IF n = 0 THEN "serve" ELSE "payload"
<1>3. Len(frame) = 1 /\ ran = 0
  BY <1>1 DEF IInv, FrameInv
<1>4. Longer \in Seq(Cells) /\ Len(Longer) = 2
  BY <1>1, <1>3, LongerType DEF IInv
<1>5. n \in 0..MaxLen
  BY <1>2, <1>4, FieldsType
<1>6. TypeOK' /\ LockInv'
  <2>1. Len(frame) + 1 <= RxSize /\ next \in {"rest", "payload", "serve"}
    BY <1>3, Bounds
  <2>. QED
    BY <1>2, <1>5, <2>1, TakeType
<1>7. FrameInv'
  <2>1. Len(frame') = 2 /\ fpc' = next /\ fwaited' = 0 /\ ran' = 0
    BY <1>2, <1>3, <1>4 DEF Take
  <2>2. n # 0 => 2 < HeaderLen + want'
    BY <1>2, <1>5, Bounds
  <2>. QED
    BY <2>1, <2>2 DEF FrameInv
<1>8. CleanInv'
  <2>1. ASSUME NEW t \in Threads, clean[t]
        PROVE  n = req[t].len /\ (n = 0 => Len(Longer) = HeaderLen + req[t].len)
    <3>1. n = req[t].len
      BY <1>1, <1>2, <2>1, LongerIsPrefix
    <3>. QED
      BY <1>4, <3>1, Bounds
  <2>2. Take(next)
    BY <1>2
  <2>3. \A t \in Threads : clean[t] =>
              /\ next = "payload" => want' = req[t].len
              /\ next = "serve" => Len(Longer) = HeaderLen + req[t].len
    BY <1>2, <2>1
  <2>. HIDE DEF next
  <2>. QED
    BY <2>2, <2>3, TakeKeepsClean
<1>. QED
  BY <1>6, <1>7, <1>8 DEF IInv

LEMMA StepTakePayload == ASSUME IInv, TakePayload PROVE IInv'
<1>. DEFINE next == IF Len(frame) + 1 = HeaderLen + want THEN "serve" ELSE "payload"
<1>1. fpc = "payload" /\ Take(next) /\ want' = want /\ rx # <<>>
  BY DEF TakePayload, Take
<1>2. Len(frame) >= 2 /\ Len(frame) < HeaderLen + want /\ ran = 0 /\ want \in 0..MaxLen
  BY <1>1 DEF IInv, FrameInv, TypeOK
<1>3. Len(frame) \in Nat /\ Len(Longer) = Len(frame) + 1
  BY <1>1, LongerType DEF IInv
<1>4. TypeOK' /\ LockInv'
  <2>1. Len(frame) + 1 <= RxSize /\ next \in {"rest", "payload", "serve"} /\ want' \in 0..MaxLen
    BY <1>1, <1>2, <1>3, Bounds
  <2>. HIDE DEF next
  <2>. QED
    BY <1>1, <2>1, TakeType
<1>5. FrameInv'
  <2>1. Len(frame') = Len(frame) + 1 /\ fpc' = next /\ fwaited' = 0 /\ ran' = 0
    BY <1>1, <1>2, <1>3 DEF Take
  <2>2. Len(frame) + 1 # HeaderLen + want => Len(frame) + 1 < HeaderLen + want
    BY <1>2, <1>3, Bounds
  <2>3. Len(frame) + 1 >= 2
    BY <1>2, <1>3
  <2>. QED
    BY <1>1, <2>1, <2>2, <2>3 DEF FrameInv
<1>6. CleanInv'
  <2>1. ASSUME NEW t \in Threads, clean[t] PROVE want = req[t].len
    BY <1>1, <2>1, LongerIsPrefix DEF Unserved
  <2>2. \A t \in Threads : clean[t] =>
              /\ next = "payload" => want' = req[t].len
              /\ next = "serve" => Len(Longer) = HeaderLen + req[t].len
    BY <1>1, <1>3, <2>1
  <2>. HIDE DEF next
  <2>. QED
    BY <1>1, <2>2, TakeKeepsClean
<1>. QED
  BY <1>4, <1>5, <1>6 DEF IInv

\* get_req begins again: no call is clean.
LEMMA StartOver ==
    ASSUME IInv, rx' \in Seq(Cells), Len(rx') <= RxSize, frame' = <<>>, want' = 0,
           fpc' = "first", fwaited' = 0, ran = 0, UNCHANGED <<client, skip, losses, ran, resp>>,
           \A t \in Threads : ~clean[t]
    PROVE  IInv'
<1>1. <<>> \in Seq(Cells) /\ Len(<<>>) = 0 /\ 0 <= RxSize /\ 0 \in 0..MaxLen
  BY EmptySeq, Bounds
<1>2. TypeOK'
  BY <1>1 DEF IInv, TypeOK, client
<1>3. LockInv'
  BY ClientKept DEF IInv
<1>4. FrameInv' /\ CleanInv'
  BY DEF FrameInv, CleanInv, client
<1>. QED
  BY <1>2, <1>3, <1>4 DEF IInv

LEMMA StepRefuseLen == ASSUME IInv, RefuseLen PROVE IInv'
<1>1. \A t \in Threads : ~clean[t]
  BY LongerIsPrefix DEF RefuseLen
<1>2. ran = 0
  BY DEF IInv, FrameInv, RefuseLen
<1>3. <<>> \in Seq(Cells) /\ Len(<<>>) <= RxSize
  BY EmptySeq, Bounds
<1>. QED
  BY <1>1, <1>2, <1>3, StartOver DEF RefuseLen

\* A clean request that is written and has left the queue is being served.
LEMMA WholeIsServed ==
    ASSUME IInv, NEW t \in Threads, pc[t] = "header", Unserved(t), rx = <<>>
    PROVE  fpc = "serve"
<1>. USE DEF IInv
<1>1. Len(rx) = 0
  BY EmptySeq
<1>2. left[t] = 0 /\ req[t] \in Requests
  BY DEF LockInv
<1>3. Len(frame) \in Nat /\ req[t].len \in Nat
  BY <1>2, Bounds, LenProperties DEF TypeOK, Requests
<1>4. Len(frame) = HeaderLen + req[t].len
  <2>1. Len(frame) + Len(rx) + left[t] = HeaderLen + req[t].len
    BY DEF Unserved
  <2>. QED
    BY <2>1, <1>1, <1>2, <1>3
<1>5. fpc # "first"
  <2>1. ASSUME fpc = "first" PROVE Len(frame) = 0
    BY <2>1, EmptySeq DEF FrameInv
  <2>. QED
    BY <2>1, <1>3, <1>4, Bounds
<1>6. fpc # "rest"
  BY <1>3, <1>4, Bounds DEF FrameInv
<1>7. fpc # "payload"
  <2>1. ASSUME fpc = "payload" PROVE want = req[t].len /\ Len(frame) < HeaderLen + want
    BY <2>1 DEF FrameInv, Unserved
  <2>. QED
    BY <2>1, <1>3, <1>4, Bounds
<1>. QED
  BY <1>5, <1>6, <1>7 DEF TypeOK

LEMMA StepFrameTimeout == ASSUME IInv, FrameTimeout PROVE IInv'
<1>1. /\ fpc \in {"rest", "payload"} /\ fwaited = 1 /\ rx = <<>> /\ rx' = rx
      /\ UNCHANGED <<client, skip, losses, ran, resp>>
  BY DEF FrameTimeout, line
<1>2. \A t \in Threads : ~clean[t]
  <2>. SUFFICES ASSUME NEW t \in Threads, clean[t] PROVE FALSE
    OBVIOUS
  <2>1. Unserved(t)
    BY <1>1 DEF IInv, CleanInv, Served
  <2>2. pc[t] = "header"
    BY <1>1, <2>1 DEF Unserved
  <2>. QED
    BY <1>1, <2>1, <2>2, WholeIsServed
<1>3. ran = 0
  BY <1>1 DEF IInv, FrameInv
<1>4. rx' \in Seq(Cells) /\ Len(rx') <= RxSize
  BY <1>1 DEF IInv, TypeOK
<1>. QED
  BY <1>1, <1>2, <1>3, <1>4, StartOver DEF FrameTimeout

\* An answer is a sequence.
LEMMA Answered ==
    ASSUME NEW S, NEW x \in S, NEW y \in S, NEW z \in S, NEW a \in {<<x>>, <<y, z>>}
    PROVE  a \in Seq(S)
<1>1. CASE a = <<x>>
  BY <1>1
<1>2. CASE a = <<y, z>>
  BY <1>2
<1>. QED
  BY <1>1, <1>2

LEMMA StepServe == ASSUME IInv, Serve PROVE IInv'
<1>. DEFINE no == IF Intact(frame) THEN frame[1].no ELSE 0
<1>1. /\ fpc = "serve" /\ fpc' = "first" /\ frame' = <<>> /\ want' = 0 /\ ran' = 0
      /\ UNCHANGED <<client, line, fwaited>>
  BY DEF Serve
<1>2. PICK a \in {<<Last(no)>>, <<More(no), Payload(no)>>} : resp' = resp \o a
  BY DEF Serve, Answers, Last, More, Payload
<1>3. frame \in Seq(Cells) /\ Len(frame) >= 2
  BY <1>1 DEF IInv, FrameInv, TypeOK
<1>4. no \in 0..MaxCalls
  <2>1. frame[1] \in Cells
    BY <1>3, ElementOfSeq, LenProperties
  <2>. QED
    BY <2>1, Bounds DEF Cells
<1>5. TypeOK'
  <2>1. Last(no) \in RespCells /\ More(no) \in RespCells /\ Payload(no) \in RespCells
    BY <1>4 DEF RespCells, Last, More, Payload
  <2>2. a \in Seq(RespCells)
    BY <1>2, <2>1, Answered
  <2>3. resp' \in Seq(RespCells)
    BY <1>2, <2>2, ConcatProperties DEF IInv, TypeOK
  <2>4. <<>> \in Seq(Cells) /\ Len(<<>>) <= RxSize /\ 0 \in 0..MaxLen /\ 0 \in 0..ServeTime
    BY EmptySeq, Bounds
  <2>. QED
    BY <1>1, <2>3, <2>4 DEF IInv, TypeOK, client, line
<1>6. LockInv'
  BY <1>1, ClientKept DEF IInv
<1>7. FrameInv'
  BY <1>1 DEF IInv, FrameInv
<1>8. ASSUME NEW t \in Threads, clean'[t] PROVE (~skip /\ own[t] /\ Served(t))'
  <2>1. clean[t] /\ ~skip /\ own[t] /\ Unserved(t) /\ req[t] \in Requests
    BY <1>1, <1>8 DEF IInv, CleanInv, Served, client, LockInv
  <2>2. /\ Len(frame) = HeaderLen + req[t].len /\ resp = <<>> /\ pc[t] \in {"write", "header"}
        /\ Len(frame) + Len(rx) + left[t] = HeaderLen + req[t].len
    BY <1>1, <2>1 DEF Unserved
  <2>3. /\ Len(frame) \in Nat /\ Len(rx) \in Nat /\ left[t] \in Nat /\ req[t].len \in Nat
        /\ rx \in Seq(Cells)
    BY <2>1, Bounds, LenProperties DEF IInv, TypeOK, Requests
  <2>4. Len(rx) = 0 /\ left[t] = 0
    BY <2>2, <2>3
  <2>5. rx = <<>>
    BY <2>3, <2>4, EmptySeq
  <2>6. pc[t] = "header"
    <3>1. ASSUME pc[t] = "write" PROVE left[t] >= 1
      BY <3>1, <2>1, Bounds DEF IInv, LockInv, Requests
    <3>. QED
      BY <3>1, <2>2, <2>4
  <2>7. no = req[t].no
    <3>1. Len(frame) \in 1..HeaderLen + req[t].len
      BY <1>3, <2>2, <2>3
    <3>2. \A k \in 1..Len(frame) : frame[k] = Cell(req[t], k)
      BY <2>1 DEF Unserved
    <3>. QED
      BY <1>3, <2>1, <3>1, <3>2, PrefixIsIntact
  <2>8. resp' = a
    <3>1. a \in Seq({Last(no), More(no), Payload(no)})
      BY <1>2, Answered
    <3>. QED
      BY <1>2, <2>2, <3>1, ConcatEmptySeq
  <2>9. Served(t)'
    <3>. HIDE DEF no
    <3>. QED
      BY <1>1, <1>2, <2>5, <2>6, <2>7, <2>8 DEF Served, client, line
  <2>. QED
    BY <1>1, <2>1, <2>9 DEF client, line
<1>. QED
  BY <1>5, <1>6, <1>7, <1>8 DEF IInv, CleanInv

LEMMA StepResponseLost == ASSUME IInv, ResponseLost PROVE IInv'
<1>. USE DEF IInv
<1>1. /\ losses < MaxLosses /\ losses' = losses + 1 /\ clean' = [t \in Threads |-> FALSE]
      /\ UNCHANGED <<library, req_lock, calls, pc, req, left, waited, own, rx, skip, firmware>>
  BY DEF ResponseLost
<1>2. PICK k \in 1..Len(resp) :
         resp' = SubSeq(resp, 1, k - 1) \o SubSeq(resp, k + 1, Len(resp))
  BY DEF ResponseLost
<1>3. resp' \in Seq(RespCells)
  <2>1. resp \in Seq(RespCells)
    BY DEF TypeOK
  <2>2. Len(resp) \in Nat
    BY <2>1, LenProperties
  <2>3. SubSeq(resp, 1, k - 1) \in Seq(RespCells)
    <3>1. \A j \in 1..k - 1 : resp[j] \in RespCells
      BY <2>1, <2>2, ElementOfSeq
    <3>2. 1 \in Int /\ k - 1 \in Int
      BY <2>2
    <3>. QED
      BY <3>1, <3>2, SubSeqProperties
  <2>4. SubSeq(resp, k + 1, Len(resp)) \in Seq(RespCells)
    <3>1. \A j \in k + 1..Len(resp) : resp[j] \in RespCells
      BY <2>1, <2>2, ElementOfSeq
    <3>2. k + 1 \in Int /\ Len(resp) \in Int
      BY <2>2
    <3>. QED
      BY <3>1, <3>2, SubSeqProperties
  <2>. QED
    BY <1>2, <2>3, <2>4, ConcatProperties
<1>4. TypeOK'
  <2>1. losses' \in 0..MaxLosses
    BY <1>1, Bounds DEF TypeOK
  <2>. QED
    BY <1>1, <1>3, <2>1 DEF TypeOK, firmware
<1>5. LockInv'
  BY <1>1 DEF LockInv
<1>6. FrameInv' /\ CleanInv'
  BY <1>1 DEF FrameInv, CleanInv, firmware
<1>. QED
  BY <1>4, <1>5, <1>6

LEMMA StepTick == ASSUME IInv, Tick PROVE IInv'
<1>. USE DEF IInv
<1>1. /\ fpc \in {"first", "rest", "payload"} => rx = <<>>
      /\ fpc = "serve" => ran < ServeTime
      /\ \A t \in Threads : pc[t] \in {"header", "payload"} => resp = <<>> /\ waited[t] < UART_TIMEOUT
      /\ fwaited' = IF fpc \in {"rest", "payload"} THEN 1 ELSE 0
      /\ ran' = IF fpc = "serve" THEN ran + 1 ELSE 0
      /\ waited' = [t \in Threads |-> IF pc[t] \in {"header", "payload"}
                                      THEN waited[t] + 1 ELSE waited[t]]
      /\ clean' = [t \in Threads |-> clean[t] /\ pc[t] # "write"]
      /\ skip' = FALSE
      /\ UNCHANGED <<library, req_lock, calls, pc, req, left, own, rx, losses, fpc,
                     frame, want, resp>>
  BY DEF Tick
<1>2. TypeOK'
  <2>1. ran' \in 0..ServeTime /\ fwaited' \in 0..1
    BY <1>1, Bounds DEF TypeOK
  <2>2. ASSUME NEW t \in Threads PROVE waited'[t] \in 0..UART_TIMEOUT
    <3>1. waited[t] \in 0..UART_TIMEOUT
      BY DEF TypeOK
    <3>. QED
      BY <1>1, <3>1, Bounds
  <2>3. waited' \in [Threads -> 0..UART_TIMEOUT]
    BY <1>1, <2>2
  <2>4. clean' \in [Threads -> BOOLEAN]
    BY <1>1
  <2>. QED
    BY <1>1, <2>1, <2>3, <2>4 DEF TypeOK
<1>3. LockInv'
  <2>. SUFFICES ASSUME NEW u \in Threads PROVE LockInv!(u)'
    BY DEF LockInv
  <2>1. LockInv!(u)
    BY DEF LockInv
  <2>2. /\ pc'[u] = pc[u] /\ req_lock' = req_lock /\ req'[u] = req[u] /\ left'[u] = left[u]
        /\ own'[u] = own[u] /\ (clean'[u] => clean[u])
        /\ pc[u] \in {"idle", "write"} => waited'[u] = waited[u]
    BY <1>1
  <2>. QED
    BY <2>1, <2>2
<1>4. FrameInv'
  BY <1>1 DEF FrameInv
<1>5. ASSUME NEW t \in Threads, clean'[t] PROVE (~skip /\ own[t] /\ Unserved(t))'
  <2>1. clean[t] /\ pc[t] # "write"
    BY <1>1, <1>5
  <2>2. own[t] /\ Unserved(t)
    <3>1. Served(t) => pc[t] \in {"header", "payload"} /\ resp # <<>>
      BY DEF Served
    <3>. QED
      BY <1>1, <2>1, <3>1 DEF CleanInv
  <2>3. pc[t] = "header"
    BY <2>1, <2>2 DEF Unserved
  <2>4. fpc = "serve"
    BY <1>1, <2>2, <2>3, WholeIsServed DEF TypeOK
  <2>5. waited'[t] <= ran'
    <3>1. waited[t] \in Int /\ ran \in Int /\ waited[t] <= ran
      BY <2>2, Bounds DEF Unserved, TypeOK
    <3>2. waited'[t] = waited[t] + 1 /\ ran' = ran + 1
      BY <1>1, <2>3, <2>4
    <3>. QED
      BY <3>1, <3>2
  <2>6. Unserved(t)'
    BY <1>1, <2>2, <2>3, <2>5 DEF Unserved
  <2>. QED
    BY <1>1, <2>2, <2>6
<1>. QED
  BY <1>2, <1>3, <1>4, <1>5 DEF CleanInv

LEMMA StepIInv == IInv /\ [Next]_vars => IInv'
<1>. SUFFICES ASSUME IInv, [Next]_vars PROVE IInv'
  OBVIOUS
<1>1. ASSUME NEW t \in Threads, Begin(t) \/ Client(t) \/ IoFails(t) PROVE IInv'
  BY <1>1, StepBegin, StepWriteCell, StepWriteLost, StepReturn, StepRead DEF Client
<1>2. CASE Firmware
  BY <1>2, StepTakeFirst, StepTakeRest, StepRefuseLen, StepTakePayload, StepFrameTimeout,
     StepServe DEF Firmware
<1>3. CASE ResponseLost
  BY <1>3, StepResponseLost
<1>4. CASE Tick
  BY <1>4, StepTick
<1>5. CASE UNCHANGED vars
  BY <1>5 DEF vars, client, line, firmware, IInv, TypeOK, LockInv, FrameInv, CleanInv,
              Unserved, Served
<1>. QED
  BY <1>1, <1>2, <1>3, <1>4, <1>5 DEF Next

(***************************************************************************)
(* The invariant that the theorems rest on.                                *)
(***************************************************************************)
THEOREM LinkInvariant == Spec => []IInv
<1>1. IInv /\ [Next]_vars => IInv'
  BY StepIInv
<1>. QED
  BY InitIInv, <1>1, PTL DEF Spec

(***************************************************************************)
(* Every variable of the link keeps its type: the queue, the frame and the *)
(* counters stay within their limits.                                      *)
(***************************************************************************)
THEOREM TypeCorrect == Spec => []TypeOK
<1>1. IInv => TypeOK
  BY DEF IInv
<1>. QED
  BY LinkInvariant, <1>1, PTL

(***************************************************************************)
(* The firmware executes what a clean call sent, whole and unmixed.        *)
(***************************************************************************)
THEOREM Unmixed == Spec => []RequestsIntact
<1>1. IInv => RequestsIntact
  <2>. SUFFICES ASSUME IInv, NEW t \in Threads, clean[t], fpc = "serve"
                PROVE  frame = CellsOf(req[t])
    BY DEF RequestsIntact
  <2>1. Unserved(t) /\ req[t] \in Requests
    BY DEF IInv, CleanInv, Served, LockInv
  <2>2. frame \in Seq(Cells) /\ Len(frame) >= 2
    BY DEF IInv, TypeOK, FrameInv
  <2>3. /\ Len(frame) = HeaderLen + req[t].len
        /\ \A k \in 1..Len(frame) : frame[k] = Cell(req[t], k)
    BY <2>1 DEF Unserved
  <2>4. Len(frame) \in 1..HeaderLen + req[t].len
    BY <2>2, <2>3, LenProperties
  <2>. QED
    BY <2>1, <2>2, <2>3, <2>4, PrefixIsIntact
<1>. QED
  BY LinkInvariant, <1>1, PTL

(***************************************************************************)
(* A clean call returns with the answer to its own request.                *)
(***************************************************************************)
THEOREM OwnAnswers == Spec => AnswersMatch
<1>1. ASSUME IInv, NEW t \in Threads, clean[t], ReadLast(t) PROVE IsOwn(t, "last")
  <2>1. pc[t] = "header" /\ resp # <<>> /\ Head(resp).kind \in {"last", "payload"}
    BY <1>1 DEF ReadLast, ReadHeader
  <2>2. Served(t)
    BY <1>1, <2>1 DEF IInv, CleanInv, Unserved
  <2>3. resp = <<Last(req[t].no)>>
    BY <2>1, <2>2 DEF Served, More
  <2>. QED
    BY <2>3 DEF IsOwn, Last
<1>2. ASSUME IInv, NEW t \in Threads, clean[t], ReadPayload(t)
      PROVE  own[t] /\ IsOwn(t, "payload")
  <2>1. pc[t] = "payload" /\ resp # <<>>
    BY <1>2 DEF ReadPayload
  <2>2. Served(t) /\ own[t]
    BY <1>2, <2>1 DEF IInv, CleanInv, Unserved
  <2>. QED
    BY <2>1, <2>2 DEF Served, IsOwn, Payload
<1>3. IInv => \A t \in Threads : clean[t] =>
          /\ (ReadLast(t) => IsOwn(t, "last"))
          /\ (ReadPayload(t) => own[t] /\ IsOwn(t, "payload"))
  BY <1>1, <1>2
<1>. QED
  BY LinkInvariant, <1>3, PTL DEF AnswersMatch

(***************************************************************************)
(* A clean call times out only on a service that takes that long.          *)
(***************************************************************************)
THEOREM SlowTimeouts == Spec => TimeoutOnlyWhenSlow
<1>1. ASSUME IInv, NEW t \in Threads, clean[t], Timeout(t), resp = <<>>
      PROVE  fpc = "serve" /\ ran >= UART_TIMEOUT
  <2>1. Unserved(t)
    BY <1>1 DEF IInv, CleanInv, Served
  <2>2. UART_TIMEOUT <= ran /\ ran \in Nat
    BY <1>1, <2>1, Bounds DEF Unserved, Timeout, IInv, TypeOK
  <2>3. ran # 0
    BY <2>2, Bounds
  <2>. QED
    BY <1>1, <2>2, <2>3, Bounds DEF IInv, FrameInv
<1>2. IInv => \A t \in Threads : clean[t] /\ Timeout(t)
          => resp # <<>> \/ (fpc = "serve" /\ ran >= UART_TIMEOUT)
  BY <1>1
<1>. QED
  BY LinkInvariant, <1>2, PTL DEF TimeoutOnlyWhenSlow
=============================================================================
