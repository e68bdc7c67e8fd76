------------------------------ MODULE UartLink ------------------------------
(***************************************************************************)
(* One request/response link over a serial line: UARTInterface of the C++  *)
(* client (clients/cpp/libjabi/interfaces/uart.cpp) or of the Rust client  *)
(* (clients/rust/src/interfaces/uart.rs), shared by threads, against the   *)
(* firmware's UART interface (firmware/src/interfaces/uart.c).             *)
(* The messages carry no sequence number and no checksum, and the client   *)
(* discards nothing after a time-out.                                      *)
(*                                                                         *)
(* A cell stands for some bytes: a request is two header cells and a cell  *)
(* per unit of payload, a response a header cell and at most one payload   *)
(* cell.  Bytes may be lost.  Time advances by Tick; a tick is firmware    *)
(* TIMEOUT.  The line itself takes none: what is written can be read, so   *)
(* the time that a long message needs at a low baud rate is not seen.      *)
(* What a request asks for is Dispatch.tla's business: here its service    *)
(* takes up to ServeTime.  A request longer than req_max_size is refused   *)
(* before anything is written, and not modelled.                           *)
(***************************************************************************)
EXTENDS Integers, Sequences

CONSTANTS
    Threads,        \* threads of the client that share the device
    MaxCalls,       \* bound: send_request calls in a behaviour
    MaxLosses,      \* bound: cells the line loses
    MaxLen,         \* REQ_PAYLOAD_MAX_SIZE, in cells
    UART_TIMEOUT,   \* of the client, in ticks
    ServeTime,      \* longest service of a request, in ticks
    None            \* nobody holds req_lock

HeaderLen == 2

\* K_MSGQ_DEFINE(..., sizeof(iface_req_t), ...).
RxSize == HeaderLen + MaxLen

ASSUME LinkAssumption ==
    /\ {MaxCalls, MaxLosses, MaxLen, ServeTime} \subseteq Nat
    /\ UART_TIMEOUT \in Nat \ {0}
    /\ None \notin Threads

VARIABLES
    library,        \* which client the threads use
    req_lock,       \* the holder of the client's mutex
    calls,          \* number of requests begun
    losses,         \* number of cells lost
    pc,             \* pc[t]: where thread t is in send_request
    req,            \* req[t]: number and payload length of its request
    left,           \* left[t]: cells it has still to write
    waited,         \* waited[t]: ticks since start, or in this read
    own,            \* own[t]: every cell it has read answers its request
    clean,          \* clean[t]: see Quiet
    rx,             \* the firmware's queue of received cells
    skip,           \* the handler is dropping the rest of a chunk
    fpc,            \* where the firmware is in get_req, or "serve"
    frame,          \* the cells read into req
    want,           \* req->payload_len
    fwaited,        \* ticks spent in one k_msgq_get
    ran,            \* ticks spent serving
    resp            \* response cells on the way to the client, or with its tty

client == <<library, req_lock, calls, pc, req, left, waited, own, clean>>
line == <<rx, skip, losses>>
firmware == <<fpc, frame, want, fwaited, ran>>
vars == <<client, line, firmware, resp>>

NoReq == [no |-> 0, len |-> 0]
Requests == [no : 1..MaxCalls, len : 0..MaxLen]
Cells == [no : 1..MaxCalls, len : 0..MaxLen, at : 1..RxSize]

\* A header that is the "last" cell of its response (an error, or no payload),
\* one that has "more" to follow, or the payload; 0 answers no call's request.
RespCells == [no : 0..MaxCalls, kind : {"last", "more", "payload"}]

CellsOf(r) == [k \in 1..HeaderLen + r.len |-> [no |-> r.no, len |-> r.len, at |-> k]]

\* Nothing is left over from earlier calls: the firmware waits for the first
\* byte of a request, and no byte is under way in either direction.
Quiet == fpc = "first" /\ rx = <<>> /\ resp = <<>> /\ ~skip
-----------------------------------------------------------------------------
Init == /\ library \in {"cpp", "rust"}
        /\ req_lock = None
        /\ calls = 0
        /\ losses = 0
        /\ pc = [t \in Threads |-> "idle"]
        /\ req = [t \in Threads |-> NoReq]
        /\ left = [t \in Threads |-> 0]
        /\ waited = [t \in Threads |-> 0]
        /\ own = [t \in Threads |-> TRUE]
        /\ clean = [t \in Threads |-> FALSE]
        /\ rx = <<>>
        /\ skip = FALSE
        /\ fpc = "first"
        /\ frame = <<>>
        /\ want = 0
        /\ fwaited = 0
        /\ ran = 0
        /\ resp = <<>>

(***************************************************************************)
(* The client.                                                             *)
(***************************************************************************)

\* Mutant of Begin: no scoped_lock.
BeginUnlocked(t) ==
    /\ pc[t] = "idle"
    /\ calls < MaxCalls
    /\ calls' = calls + 1
    /\ pc' = [pc EXCEPT ![t] = "write"]
    /\ \E n \in 0..MaxLen :
          /\ req' = [req EXCEPT ![t] = [no |-> calls + 1, len |-> n]]
          /\ left' = [left EXCEPT ![t] = HeaderLen + n]
    /\ clean' = [clean EXCEPT ![t] = Quiet]
    /\ UNCHANGED <<library, req_lock, waited, own, line, firmware, resp>>

Begin(t) ==
    /\ pc[t] = "idle"
    /\ calls < MaxCalls
    /\ req_lock = None
    /\ req_lock' = t
    /\ calls' = calls + 1
    /\ pc' = [pc EXCEPT ![t] = "write"]
    /\ \E n \in 0..MaxLen :
          /\ req' = [req EXCEPT ![t] = [no |-> calls + 1, len |-> n]]
          /\ left' = [left EXCEPT ![t] = HeaderLen + n]
    /\ clean' = [clean EXCEPT ![t] = Quiet]
    /\ UNCHANGED <<library, waited, own, line, firmware, resp>>

\* A return or a throw: the lock goes, and what the call knew with it.
End(t) ==
    /\ req_lock' = None
    /\ pc' = [pc EXCEPT ![t] = "idle"]
    /\ req' = [req EXCEPT ![t] = NoReq]
    /\ left' = [left EXCEPT ![t] = 0]
    /\ waited' = [waited EXCEPT ![t] = 0]
    /\ own' = [own EXCEPT ![t] = TRUE]
    /\ clean' = [clean EXCEPT ![t] = FALSE]
    /\ UNCHANGED <<library, calls>>

\* Mutant of Enqueue: the queue has no limit.
EnqueueUnlimited(c) ==
    /\ rx' = Append(rx, c)
    /\ skip' = FALSE

\* The receive half of the handler: a cell that finds the queue full purges it,
\* and is dropped with the rest of the chunk it came in.
Enqueue(c) ==
    \/ /\ Len(rx) < RxSize
       /\ rx' = Append(rx, c)
       /\ skip' = FALSE
    \/ /\ Len(rx) = RxSize
       /\ rx' = <<>>
       /\ skip' = TRUE
    \/ /\ skip
       /\ UNCHANGED <<rx, skip>>

Wrote(t) ==
    /\ pc[t] = "write"
    /\ left' = [left EXCEPT ![t] = @ - 1]
    /\ pc' = [pc EXCEPT ![t] = IF left[t] = 1 THEN "header" ELSE "write"]
    /\ UNCHANGED <<library, req_lock, calls, req, waited, own, firmware, resp>>

WriteCell(t) ==
    /\ Wrote(t)
    /\ Enqueue(CellsOf(req[t])[HeaderLen + req[t].len + 1 - left[t]])
    /\ UNCHANGED <<losses, clean>>

WriteLost(t) ==
    /\ Wrote(t)
    /\ losses < MaxLosses
    /\ losses' = losses + 1
    /\ clean' = [clean EXCEPT ![t] = FALSE]
    /\ UNCHANGED <<rx, skip>>

\* write() or read() returns -1: requests and answers stay as far as they got.
IoFails(t) ==
    /\ pc[t] # "idle"
    /\ End(t)
    /\ UNCHANGED <<line, firmware, resp>>

\* The header of a response, or a payload that is read as one.
ReadHeader(t, kind) ==
    /\ pc[t] = "header"
    /\ resp # <<>>
    /\ Head(resp).kind \in {kind, "payload"}
    /\ resp' = Tail(resp)
    /\ UNCHANGED <<line, firmware>>

IsOwn(t, kind) == Head(resp) = [no |-> req[t].no, kind |-> kind]

\* "bad response", or a return without payload.
ReadLast(t) == /\ ReadHeader(t, "last")
               /\ End(t)

\* read_exact of the Rust client has UART_TIMEOUT for every read.
Restart(t) == waited' = IF library = "rust" THEN [waited EXCEPT ![t] = 0] ELSE waited

ReadMore(t) == /\ ReadHeader(t, "more")
               /\ own' = [own EXCEPT ![t] = IsOwn(t, "more")]
               /\ pc' = [pc EXCEPT ![t] = "payload"]
               /\ Restart(t)
               /\ UNCHANGED <<library, req_lock, calls, req, left, clean>>

\* A payload_len that was never one, or cells that are not the payload it is of.
ReadPart(t) == /\ pc[t] = "payload"
               /\ resp # <<>>
               /\ own[t] => ~IsOwn(t, "payload")
               /\ own' = [own EXCEPT ![t] = FALSE]
               /\ resp' = Tail(resp)
               /\ Restart(t)
               /\ UNCHANGED <<library, req_lock, calls, pc, req, left, clean, line, firmware>>

ReadPayload(t) == /\ pc[t] = "payload"
                  /\ resp # <<>>
                  /\ resp' = Tail(resp)
                  /\ End(t)
                  /\ UNCHANGED <<line, firmware>>

Timeout(t) == /\ pc[t] \in {"header", "payload"}
              /\ waited[t] = UART_TIMEOUT
              /\ End(t)
              /\ UNCHANGED <<line, firmware, resp>>

(***************************************************************************)
(* The firmware: get_req, the service, send_resp.  What is left in req is  *)
(* overwritten before it is read, so the model forgets it.                 *)
(***************************************************************************)

\* The cells are one whole request, or the beginning of one.
Intact(cells) == \E r \in Requests : \E n \in 1..HeaderLen + r.len :
                     cells = SubSeq(CellsOf(r), 1, n)

\* payload_len of a header: its own, or any value if the cells are not one.
Fields(header) == IF Intact(header) THEN {header[1].len} ELSE 0..MaxLen

Longer == Append(frame, Head(rx))

Take(next) == /\ rx # <<>>
              /\ rx' = Tail(rx)
              /\ frame' = Longer
              /\ fpc' = next
              /\ fwaited' = 0
              /\ UNCHANGED <<client, skip, losses, ran, resp>>

TakeFirst == /\ fpc = "first"
             /\ Take("rest")
             /\ UNCHANGED want

\* Mutant of TakeRest: one unit too many is awaited.
TakeRestOneMore == /\ fpc = "rest"
                   /\ Take("payload")
                   /\ \E n \in Fields(Longer) : want' = n + 1

TakeRest == /\ fpc = "rest"
            /\ rx # <<>>
            /\ \E n \in Fields(Longer) :
                  /\ want' = n
                  /\ Take(IF n = 0 THEN "serve" ELSE "payload")

\* "bad req payload length": the queue is purged.
RefuseLen == /\ fpc = "rest"
             /\ rx # <<>>
             /\ ~Intact(Longer)
             /\ rx' = <<>>
             /\ frame' = <<>>
             /\ want' = 0
             /\ fpc' = "first"
             /\ fwaited' = 0
             /\ UNCHANGED <<client, skip, losses, ran, resp>>

TakePayload == /\ fpc = "payload"
               /\ Take(IF Len(frame) + 1 = HeaderLen + want THEN "serve" ELSE "payload")
               /\ UNCHANGED want

\* Mutant of FrameTimeout: the payload is read with K_FOREVER.
FrameTimeoutOfHeader == /\ fpc = "rest"
                        /\ fwaited = 1
                        /\ rx = <<>>
                        /\ frame' = <<>>
                        /\ want' = 0
                        /\ fpc' = "first"
                        /\ fwaited' = 0
                        /\ UNCHANGED <<client, line, ran, resp>>

FrameTimeout == /\ fpc \in {"rest", "payload"}
                /\ fwaited = 1
                /\ rx = <<>>
                /\ frame' = <<>>
                /\ want' = 0
                /\ fpc' = "first"
                /\ fwaited' = 0
                /\ UNCHANGED <<client, line, ran, resp>>

\* send_resp; the line may lose cells of it.
Answers == LET no == IF Intact(frame) THEN frame[1].no ELSE 0
           IN {<<[no |-> no, kind |-> "last"]>>,
               <<[no |-> no, kind |-> "more"], [no |-> no, kind |-> "payload"]>>}

Serve == /\ fpc = "serve"
         /\ \E a \in Answers : resp' = resp \o a
         /\ fpc' = "first"
         /\ frame' = <<>>
         /\ want' = 0
         /\ ran' = 0
         /\ UNCHANGED <<client, line, fwaited>>

ResponseLost == /\ losses < MaxLosses
                /\ losses' = losses + 1
                /\ \E k \in 1..Len(resp) :
                      resp' = SubSeq(resp, 1, k - 1) \o SubSeq(resp, k + 1, Len(resp))
                /\ clean' = [t \in Threads |-> FALSE]
                /\ UNCHANGED <<library, req_lock, calls, pc, req, left, waited, own, rx,
                               skip, firmware>>

(***************************************************************************)
(* Time passes when nothing that takes none can happen.  A client that is  *)
(* held up between its writes is no longer clean: the firmware may have    *)
(* given up on its request.                                                *)
(***************************************************************************)
Tick == /\ fpc \in {"first", "rest", "payload"} => rx = <<>>
        /\ fpc \in {"rest", "payload"} => fwaited = 0
        /\ fpc = "serve" => ran < ServeTime
        /\ \A t \in Threads : pc[t] \in {"header", "payload"} =>
              resp = <<>> /\ waited[t] < UART_TIMEOUT
        /\ fwaited' = IF fpc \in {"rest", "payload"} THEN 1 ELSE 0
        /\ ran' = IF fpc = "serve" THEN ran + 1 ELSE 0
        /\ waited' = [t \in Threads |-> IF pc[t] \in {"header", "payload"}
                                        THEN waited[t] + 1 ELSE waited[t]]
        /\ clean' = [t \in Threads |-> clean[t] /\ pc[t] # "write"]
        /\ skip' = FALSE
        /\ UNCHANGED <<library, req_lock, calls, pc, req, left, own, rx, losses, fpc,
                       frame, want, resp>>

Client(t) == \/ WriteCell(t) \/ WriteLost(t)
             \/ ReadLast(t) \/ ReadMore(t) \/ ReadPart(t) \/ ReadPayload(t) \/ Timeout(t)

Firmware == \/ TakeFirst \/ TakeRest \/ RefuseLen \/ TakePayload
            \/ FrameTimeout \/ Serve

Next == \/ \E t \in Threads : Begin(t) \/ Client(t) \/ IoFails(t)
        \/ Firmware \/ ResponseLost \/ Tick

Spec == Init /\ [][Next]_vars

\* Both sides go on and time passes.  The client reads in a loop that polls.
FairSpec == /\ Spec
            /\ WF_vars(Tick)
            /\ WF_vars(Firmware)
            /\ \A t \in Threads : WF_vars(Client(t))
-----------------------------------------------------------------------------
TypeOK == /\ library \in {"cpp", "rust"}
          /\ req_lock \in Threads \cup {None}
          /\ calls \in 0..MaxCalls
          /\ losses \in 0..MaxLosses
          /\ pc \in [Threads -> {"idle", "write", "header", "payload"}]
          /\ req \in [Threads -> Requests \cup {NoReq}]
          /\ left \in [Threads -> 0..RxSize]
          /\ waited \in [Threads -> 0..UART_TIMEOUT]
          /\ own \in [Threads -> BOOLEAN]
          /\ clean \in [Threads -> BOOLEAN]
          /\ rx \in Seq(Cells) /\ Len(rx) <= RxSize
          /\ skip \in BOOLEAN
          /\ fpc \in {"first", "rest", "payload", "serve"}
          /\ frame \in Seq(Cells) /\ Len(frame) <= RxSize
          /\ want \in 0..MaxLen
          /\ fwaited \in 0..1
          /\ ran \in 0..ServeTime
          /\ resp \in Seq(RespCells)

(***************************************************************************)
(* The firmware executes only what a clean call sent: cells of different   *)
(* requests, of threads that share the client or of calls that were given  *)
(* up, are never put together into one.                                    *)
(***************************************************************************)
RequestsIntact ==
    \A t \in Threads : clean[t] /\ fpc = "serve" => frame = CellsOf(req[t])

(***************************************************************************)
(* A call that starts on a quiet line gets the answer to its own request,  *)
(* whatever went wrong before: after time-outs, lost bytes, overflows and  *)
(* half-written requests the link recovers as soon as it is quiet.  (The   *)
(* call after a late answer does not start on a quiet line.)               *)
(***************************************************************************)
AnswersMatch ==
    [][\A t \in Threads : clean[t] =>
          /\ (ReadLast(t) => IsOwn(t, "last"))
          /\ (ReadPayload(t) => own[t] /\ IsOwn(t, "payload"))]_vars

(***************************************************************************)
(* UART_TIMEOUT strikes a clean call only while the firmware is serving it *)
(* and has been for that long, or as the answer arrives: "smaller than     *)
(* libjabi timeout" (can.c:17) is all a peripheral function must observe,  *)
(* on a line fast enough to leave its own time out.                        *)
(***************************************************************************)
TimeoutOnlyWhenSlow ==
    [][\A t \in Threads : clean[t] /\ Timeout(t)
          => resp # <<>> \/ (fpc = "serve" /\ ran >= UART_TIMEOUT)]_vars

(***************************************************************************)
(* Nobody hangs in the middle of a request, whatever arrives or does not:  *)
(* the firmware completes or abandons it and comes back for the first      *)
(* byte, and every call that has req_lock ends, and the lock with it.      *)
(***************************************************************************)
NobodyHangs == /\ fpc # "first" ~> fpc = "first"
               /\ req_lock # None ~> req_lock = None
=============================================================================
