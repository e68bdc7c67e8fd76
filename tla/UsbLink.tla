------------------------------- MODULE UsbLink ------------------------------
(***************************************************************************)
(* A host and the USB interface of a device: send_request and list_devices *)
(* of libjabi (C++ and Rust) on one side, usb_get_req and usb_send_resp on *)
(* the other, and the functions of DeviceApi between them.  The Python     *)
(* bindings and the gRPC server hand every call to the C++ library.        *)
(*                                                                         *)
(* A host holds req_lock during a request, so one host thread is enough.   *)
(* A bulk OUT endpoint takes packets while the device reads and refuses    *)
(* them otherwise; a bulk transfer to the host stays until it is read, as  *)
(* usb_transfer_sync waits for ever.  A transfer of full packets ends with *)
(* an empty one, but a reader whose buffer they fill does not wait for it. *)
(* Two or three seconds of time-out are far longer than a transfer, so a   *)
(* time-out means that the device was not ready to go on.  Resets succeed, *)
(* and list_devices is called again only when the device it found before   *)
(* has been let go.                                                        *)
(***************************************************************************)
EXTENDS ApiValues

CONSTANTS
    MPS,                \* CONFIG_JABI_USB_MPS
    IFACE_REQ_HDR_SIZE,
    IFACE_RESP_HDR_SIZE

ASSUME PacketAssumption ==
    {MPS, IFACE_REQ_HDR_SIZE, IFACE_RESP_HDR_SIZE} \subseteq Nat \ {0}

\* get_req_max_size() until the device has been asked.
DefaultMax == 128

VARIABLES
    client,         \* what the application calls: "cpp", "rust", "python", "grpc"
    phase,          \* of list_devices: "req_size", "resp_size", then "ready" or "closed"
    tried,          \* list_devices has had its second attempt
    req_max_size,
    pc,             \* of send_request: "idle", "out", "zlp", "in"
    call,           \* the call it is for
    left,           \* bytes of the request still to be sent
    device,         \* "get" (usb_get_req), "run" (the function), "send" (usb_send_resp)
    got,            \* bytes of the transfer usb_get_req reads
    mine,           \* the device has taken the request of this call
    loaded,         \* an answer waits on the IN endpoint
    answer,         \* that answer
    empty,          \* the empty packet of an earlier answer waits there
    result          \* what the last send_request gave: "none", "ok", "error"

host == <<client, phase, tried, req_max_size, pc, call, left, result>>
firmware == <<device, got, mine, loaded, answer, empty>>
vars == <<host, firmware>>

Probe(fn) == With([periph |-> "metadata", fn |-> fn, data |-> 0, read |-> 0], NoValue)
NoAnswer == [retcode |-> NoErr, len |-> 0, own |-> FALSE, meant |-> "none"]
NoCall == Probe("serial")

Clients == {"cpp", "rust", "python", "grpc"}
Lib == Library(client)
RequestLen(c) == IFACE_REQ_HDR_SIZE + PayloadLen(Lib, c)
-----------------------------------------------------------------------------
Init == /\ client \in Clients
        /\ phase = "req_size"
        /\ tried = FALSE
        /\ req_max_size = IF client = "rust" THEN UINT16 - 1 ELSE DefaultMax
        /\ pc = "idle"
        /\ call = NoCall
        /\ left = 0
        /\ device = "get"
        /\ got = 0
        /\ mine = FALSE
        /\ loaded = FALSE
        /\ answer = NoAnswer
        /\ empty = FALSE
        /\ result = "none"

(***************************************************************************)
(* The device is reset: transfers are cancelled, a function goes on.       *)
(***************************************************************************)
Reset == /\ device' = IF device = "send" THEN "get" ELSE device
         /\ got' = 0
         /\ loaded' = FALSE
         /\ empty' = FALSE

(***************************************************************************)
(* How a call ends: what list_devices does next, and who resets.           *)
(***************************************************************************)
Over == /\ pc' = "idle"
        /\ call' = NoCall
        /\ left' = 0
        /\ mine' = FALSE
        /\ answer' = NoAnswer

Succeed == /\ Over
           /\ result' = "ok"
           /\ phase' = CASE phase = "req_size"  -> "resp_size"
                         [] phase = "resp_size" -> "ready"
                         [] OTHER               -> phase
           /\ req_max_size' = IF phase = "req_size" THEN REQ_PAYLOAD_MAX_SIZE
                              ELSE req_max_size
           /\ UNCHANGED <<client, tried>>

\* Who resets the device after a failure: Device::send of the Rust client
\* after a time-out, list_devices of the C++ library before its second try.
\* Mutant of Resets: the Rust client leaves it to list_devices, too.
ResetsInList(timeout) == phase # "ready" /\ ~tried

Resets(timeout) == IF client = "rust" THEN timeout ELSE phase # "ready" /\ ~tried

\* The second try of the Rust client is for req_max_size() alone.
Fail(timeout) ==
    /\ Over
    /\ result' = "error"
    /\ \/ phase = "ready" /\ UNCHANGED <<phase, tried>>
       \/ /\ phase # "ready"
          /\ tried \/ (client = "rust" /\ phase = "resp_size")
          /\ phase' = "closed"
          /\ UNCHANGED tried
       \/ /\ phase # "ready" /\ ~tried
          /\ client = "rust" => phase = "req_size"
          /\ phase' = "req_size"
          /\ tried' = TRUE
    /\ UNCHANGED <<client, req_max_size>>

(***************************************************************************)
(* send_request: the request goes out in packets, with an empty one after  *)
(* it if it fills the last.                                                *)
(***************************************************************************)

Begin(c) == /\ call' = c
            /\ pc' = "out"
            /\ left' = RequestLen(c)
            /\ UNCHANGED <<client, phase, tried, req_max_size, result, firmware>>

BeginProbe == /\ pc = "idle"
              /\ \/ phase = "req_size" /\ Begin(Probe("req_max_size"))
                 \/ phase = "resp_size" /\ Begin(Probe("resp_max_size"))

BeginCall == /\ pc = "idle"
             /\ phase = "ready"
             /\ \E c \in NamedCalls : Begin(c) /\ ~TooLong(Lib, c, req_max_size)

\* Mutant of AfterRequest: no empty packet is sent.
ZlpForgotten(len) == "in"

AfterRequest(len) == IF len % MPS = 0 THEN "zlp" ELSE "in"

\* usb_get_req has read len bytes: a request, or to be dropped.
GetReq(len) == /\ got' = 0
               /\ IF /\ PayloadLen(Lib, call) <= REQ_PAYLOAD_MAX_SIZE
                     /\ len = RequestLen(call)
                  THEN device' = "run" /\ mine' = TRUE
                  ELSE UNCHANGED <<device, mine>>

\* A short packet ends the transfer, and so does a full sizeof(iface_req_t).
EndsRead(n, len) == n < MPS \/ len = IFACE_REQ_HDR_SIZE + REQ_PAYLOAD_MAX_SIZE

Packet == /\ pc = "out"
          /\ device = "get"
          /\ LET n == IF left < MPS THEN left ELSE MPS
             IN  /\ left' = left - n
                 /\ pc' = IF left = n THEN AfterRequest(RequestLen(call)) ELSE pc
                 /\ IF EndsRead(n, got + n) THEN GetReq(got + n)
                    ELSE got' = got + n /\ UNCHANGED <<device, mine>>
          /\ UNCHANGED <<client, phase, tried, req_max_size, call, loaded, answer, empty, result>>

EmptyPacket == /\ pc = "zlp"
               /\ device = "get"
               /\ pc' = "in"
               /\ GetReq(got)
               /\ UNCHANGED <<client, phase, tried, req_max_size, call, left,
                              loaded, answer, empty, result>>

Cancelled == IF Resets(TRUE) THEN Reset ELSE UNCHANGED <<device, got, loaded, empty>>

OutTimeout == /\ pc \in {"out", "zlp"}
              /\ device # "get"
              /\ Fail(TRUE)
              /\ Cancelled

(***************************************************************************)
(* The function, and usb_send_resp.                                        *)
(***************************************************************************)

\* Mutant of Respond: usb_send_resp does not wait for the host.
RespondAsync == /\ device = "run"
                /\ device' = "get"
                /\ loaded' = TRUE
                /\ answer' \in IF mine THEN Replies(client, call) ELSE {NoAnswer}
                /\ UNCHANGED <<host, got, mine, empty>>

Respond == /\ device = "run"
           /\ device' = "send"
           /\ loaded' = TRUE
           /\ answer' \in IF mine THEN Replies(client, call) ELSE {NoAnswer}
           /\ UNCHANGED <<host, got, mine, empty>>

\* A driver may refuse what does not fit behind the empty packet; the answer is dropped.
RespondFails == /\ device = "run"
                /\ empty
                /\ device' = "get"
                /\ UNCHANGED <<host, got, mine, loaded, answer, empty>>

(***************************************************************************)
(* send_request: the answer.                                               *)
(***************************************************************************)
Accepted == answer.retcode = NoErr /\ Accepts(Lib, call, answer.len)

\* Full packets that fill the host's buffer, after which it does not read on.
LeavesEmpty(len) == /\ len = RESP_PAYLOAD_MAX_SIZE
                    /\ (IFACE_RESP_HDR_SIZE + len) % MPS = 0

\* The answer is read, and usb_send_resp returns.
Drained == /\ loaded' = FALSE
           /\ empty' = LeavesEmpty(answer.len)
           /\ device' = IF device = "send" THEN "get" ELSE device
           /\ UNCHANGED got

Receive == /\ pc = "in"
           /\ loaded
           /\ ~empty
           /\ \/ Accepted /\ Succeed /\ Drained
              \/ /\ ~Accepted
                 /\ Fail(FALSE)
                 /\ IF Resets(FALSE) THEN Reset ELSE Drained

\* The host reads no bytes and finds that it is no answer.
ReceiveEmpty == /\ pc = "in"
                /\ empty
                /\ Fail(FALSE)
                /\ IF Resets(FALSE) THEN Reset
                   ELSE empty' = FALSE /\ UNCHANGED <<device, got, loaded>>

\* The functions of the metadata peripheral wait for nothing.
InTimeout == /\ pc = "in"
             /\ ~loaded
             /\ ~empty
             /\ device = "run" => call.periph # "metadata"
             /\ Fail(TRUE)
             /\ Cancelled

(***************************************************************************)
(* The application calls list_devices anew; the gRPC server does so only   *)
(* when it is started again.                                               *)
(***************************************************************************)
ListDevices == /\ pc = "idle"
               /\ phase \in {"ready", "closed"}
               /\ phase' = "req_size"
               /\ tried' = FALSE
               /\ req_max_size' = IF client = "rust" THEN UINT16 - 1 ELSE DefaultMax
               /\ UNCHANGED <<client, pc, call, left, result, firmware>>

Next == \/ BeginProbe \/ BeginCall \/ Packet \/ EmptyPacket \/ OutTimeout
        \/ Respond \/ RespondFails \/ Receive \/ ReceiveEmpty \/ InTimeout \/ ListDevices

Spec == Init /\ [][Next]_vars

\* Functions end, transfers and time-outs happen, and the application goes on.
FairSpec == /\ Spec
            /\ WF_vars(Packet \/ EmptyPacket \/ OutTimeout)
            /\ WF_vars(Respond \/ RespondFails)
            /\ WF_vars(Receive \/ ReceiveEmpty \/ InTimeout)
            /\ WF_vars(BeginProbe)
            /\ WF_vars(BeginCall \/ (phase = "closed" /\ ListDevices))
-----------------------------------------------------------------------------
Names == {"none"} \union UNION {{v.name : v \in ValuesOf(e)} : e \in DOMAIN CppEnums}

TypeOK == /\ client \in Clients
          /\ phase \in {"req_size", "resp_size", "ready", "closed"}
          /\ tried \in BOOLEAN
          /\ req_max_size \in 0..UINT16 - 1
          /\ pc \in {"idle", "out", "zlp", "in"}
          /\ call \in NamedCalls
          /\ left \in 0..IFACE_REQ_HDR_SIZE + REQ_PAYLOAD_MAX_SIZE
          /\ device \in {"get", "run", "send"}
          /\ got \in 0..IFACE_REQ_HDR_SIZE + REQ_PAYLOAD_MAX_SIZE
          /\ mine \in BOOLEAN
          /\ loaded \in BOOLEAN
          /\ empty \in BOOLEAN
          /\ answer \in [retcode : {NoErr, FormatErr, InvalidArgsErr, OtherErr},
                         len : 0..RESP_PAYLOAD_MAX_SIZE, own : BOOLEAN, meant : Names]
          /\ result \in {"none", "ok", "error"}

(***************************************************************************)
(* The link keeps the promises of LinkService: a host that waits for an    *)
(* answer has handed its request over whole (usb.cpp:43-47 and             *)
(* usb.c:152-160 agree on where a request ends, but for one that fills     *)
(* the buffer: that runs while the host still has an empty packet to send, *)
(* and fails), the function runs once, and no call takes the answer to     *)
(* another: after a time-out the device still holds the old answer, and    *)
(* refuses new requests for as long.                                       *)
(***************************************************************************)
Whose(there, own) == IF ~there THEN "nobody" ELSE IF own THEN "mine" ELSE "orphan"

None == Probe("none")
Link == INSTANCE LinkService WITH
            Calls <- NamedCalls,
            call  <- IF pc = "idle" THEN None ELSE call,
            run   <- Whose(device = "run", mine),
            taken <- pc = "in" \/ mine,
            reply <- Whose(loaded, answer.own)

ImplementsLink == Link!Spec

(***************************************************************************)
(* The two ends agree on lengths: the firmware finds no fault with the     *)
(* length of a request a library lets through, but for an empty lin_write, *)
(* and the library accepts what it answers, unless the number of bytes     *)
(* asked for does not fit its uint16_t.                                    *)
(***************************************************************************)
FormatsAgree ==
    loaded /\ answer.own =>
        /\ answer.retcode = FormatErr => call.fn = "lin_write" /\ call.data = 0
        /\ answer.retcode = NoErr /\ call.read < UINT16 => Accepts(Lib, call, answer.len)

(***************************************************************************)
(* The two ends agree on values: whichever way a name goes, bindings,      *)
(* server, library, number, switch, the function that succeeds has done    *)
(* what the name says; a checksum that lin_write cannot send is the only   *)
(* one refused.  PythonMeansIt is the exception.                           *)
(***************************************************************************)
BadName == client = "python" /\ call.value = [enum |-> "UARTStop", name |-> "B1_5"]

Refusable == call.fn = "lin_write" /\ call.value.name = "AUTO"

ValuesAgree ==
    loaded /\ answer.own /\ call.value # NoValue =>
        /\ answer.retcode = NoErr => answer.meant = call.value.name \/ BadName
        /\ answer.retcode = InvalidArgsErr => Refusable

\* Both ends of every function were written for each other.
ApiAgrees == FormatsAgree /\ ValuesAgree

(***************************************************************************)
(* The names of the Python bindings mean what device.h and the comments of *)
(* include/jabi/peripherals say, as jabi.cpp:98-101 has them.              *)
(***************************************************************************)
PythonMeansIt ==
    loaded /\ answer.own /\ answer.retcode = NoErr /\ client = "python"
    /\ call.value # NoValue => answer.meant = call.value.name

Orphan == loaded /\ ~answer.own

(***************************************************************************)
(* No call waits for ever, and an answer that came too late does not block *)
(* the device for good.  The Rust client sees to it, "Device auto-resets   *)
(* on packet timeout" (usb.rs:132); with the C++ library, which resets in  *)
(* list_devices alone, it needs an application that lists the devices      *)
(* again and again.                                                        *)
(***************************************************************************)
Recovers == /\ pc # "idle" ~> pc = "idle"
            /\ []<>(client # "rust" => phase = "req_size") => (Orphan ~> ~Orphan)
=============================================================================
