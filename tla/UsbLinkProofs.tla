---------------------------- MODULE UsbLinkProofs ---------------------------
(***************************************************************************)
(* The link of UsbLink implements LinkService (ImplementsLink), and the    *)
(* two ends of every function agree (ApiAgrees), for every size of packets *)
(* and payloads and all lengths of data.                                   *)
(***************************************************************************)
EXTENDS UsbLink, TLAPS

(***************************************************************************)
(* Facts about the tables of functions.                                    *)
(***************************************************************************)

\* Table u of a library has the functions of table t, and none is too long
\* for a payload of 128 bytes by its arguments or its cap.
Fits(t, u) == \A f \in DOMAIN t : /\ f # "none"
                                  /\ u[f].args \in 0..9
                                  /\ u[f].cap \in {0, 8, 64}
                                  /\ ~u[f].data => ~t[f].data

\* The tables of libjabi fit.
LEMMA HostFits == \A p \in DOMAIN Host : Fits(Host[p], Host[p])
<1>1. Fits(HostI2c, HostI2c)
  BY DEF Fits, HostI2c, Call, CallData
<1>2. Fits(HostGpio, HostGpio)
  BY DEF Fits, HostGpio, Call
<1>3. Fits(HostPwm, HostPwm)
  BY DEF Fits, HostPwm, Call
<1>4. Fits(HostAdc, HostAdc)
  BY DEF Fits, HostAdc, Call
<1>5. Fits(HostDac, HostDac)
  BY DEF Fits, HostDac, Call
<1>6. Fits(HostSpi, HostSpi)
  BY DEF Fits, HostSpi, Call, CallData
<1>7. Fits(HostUart, HostUart)
  BY DEF Fits, HostUart, Call, CallData
<1>8. Fits(HostCan, HostCan)
  BY DEF Fits, HostCan, Call, CallData, CAN_MAX_LEN
<1>9. Fits(HostLin, HostLin)
  BY DEF Fits, HostLin, Call, CallData, LIN_MAX_LEN
<1>10. Fits(HostMetadata, HostMetadata)
  BY DEF Fits, HostMetadata, Call, CallData
<1>. QED
  BY <1>1, <1>2, <1>3, <1>4, <1>5, <1>6, <1>7, <1>8, <1>9, <1>10 DEF Host

\* The tables of the Rust client fit.
LEMMA RustFits == \A p \in DOMAIN Host : Fits(Host[p], Rust[p])
<1>1. Fits(HostI2c, RustI2c)
  BY DEF Fits, HostI2c, RustI2c, Call, CallData
<1>2. Fits(HostGpio, RustGpio)
  BY DEF Fits, HostGpio, RustGpio, Call
<1>3. Fits(HostPwm, RustPwm)
  BY DEF Fits, HostPwm, RustPwm, Call
<1>4. Fits(HostAdc, RustAdc)
  BY DEF Fits, HostAdc, RustAdc, Call
<1>5. Fits(HostDac, RustDac)
  BY DEF Fits, HostDac, RustDac, Call
<1>6. Fits(HostSpi, RustSpi)
  BY DEF Fits, HostSpi, RustSpi, Call, CallData
<1>7. Fits(HostUart, RustUart)
  BY DEF Fits, HostUart, RustUart, Call, CallData
<1>8. Fits(HostCan, RustCan)
  BY DEF Fits, HostCan, RustCan, Call, CallData, CAN_MAX_LEN
<1>9. Fits(HostLin, RustLin)
  BY DEF Fits, HostLin, RustLin, Call, CallData, LIN_MAX_LEN
<1>10. Fits(HostMetadata, RustMetadata)
  BY DEF Fits, HostMetadata, RustMetadata, Call, CallData
<1>. QED
  BY <1>1, <1>2, <1>3, <1>4, <1>5, <1>6, <1>7, <1>8, <1>9, <1>10 DEF Host, Rust

\* What is known of every call.
LEMMA CallFacts ==
    ASSUME NEW c \in NamedCalls
    PROVE  /\ c.periph \in DOMAIN Host
           /\ c.fn \in DOMAIN Host[c.periph]
           /\ c.data \in Nat
           /\ ~Host[c.periph][c.fn].data => c.data = 0
<1>1. PICK d \in Calls : \E v : c = With(d, v)
  BY DEF NamedCalls
<1>2. PICK p \in DOMAIN Host : d \in UNION {CallsOf(p, f) : f \in DOMAIN Host[p]}
  BY <1>1 DEF Calls
<1>3. PICK f \in DOMAIN Host[p] : d \in CallsOf(p, f)
  BY <1>2
<1>4. /\ d.periph = p
      /\ d.fn = f
      /\ d.data \in IF Host[p][f].data THEN Lengths ELSE {0}
  BY <1>3 DEF CallsOf
<1>5. /\ c.periph = d.periph
      /\ c.fn = d.fn
      /\ c.data = d.data
  BY <1>1 DEF With
<1>6. Lengths \subseteq Nat
  BY LengthAssumption
<1>7. c.data \in Nat /\ (~Host[p][f].data => c.data = 0)
  <2>1. CASE Host[p][f].data
    BY <2>1, <1>4, <1>5, <1>6
  <2>2. CASE ~Host[p][f].data
    BY <2>2, <1>4, <1>5
  <2>. QED
    BY <2>1, <2>2
<1>. QED
  BY <1>4, <1>5, <1>7

LEMMA CallIsCall == \A c \in NamedCalls : c # None
<1>1. \A c \in NamedCalls : c.fn # "none"
  BY CallFacts, HostFits DEF Fits
<1>2. None.fn = "none"
  BY DEF None, Probe, With
<1>. QED
  BY <1>1, <1>2

\* A call that is not too long for the device has a payload that fits it.
LEMMA PayloadFits ==
    ASSUME NEW c \in NamedCalls, NEW app,
           ~TooLong(Library(app), c, REQ_PAYLOAD_MAX_SIZE)
    PROVE  PayloadLen(Library(app), c) \in 0..REQ_PAYLOAD_MAX_SIZE
<1>. DEFINE e == HostFn(Library(app), c)
<1>1. /\ e.args \in 0..9
      /\ e.cap \in {0, 8, 64}
      /\ ~e.data => c.data = 0
  BY CallFacts, HostFits, RustFits DEF Fits, HostFn, Library
<1>2. REQ_PAYLOAD_MAX_SIZE \in Nat /\ REQ_PAYLOAD_MAX_SIZE >= 128 /\ c.data \in Nat
  <2>1. c.data \in Nat
    BY CallFacts
  <2>2. REQ_PAYLOAD_MAX_SIZE \in 128..UINT16 - 1
    BY LengthAssumption
  <2>3. UINT16 \in Nat
    BY DEF UINT16
  <2>. QED
    BY <2>1, <2>2, <2>3
<1>3. CASE e.cap > 0
  <2>1. c.data <= e.cap
    BY <1>1, <1>2, <1>3 DEF TooLong
  <2>. QED
    BY <2>1, <1>1, <1>2, <1>3 DEF PayloadLen
<1>4. CASE ~(e.cap > 0) /\ e.data
  BY <1>1, <1>2, <1>4 DEF TooLong, PayloadLen
<1>5. CASE ~e.data
  BY <1>1, <1>2, <1>5 DEF PayloadLen
<1>. QED
  BY <1>3, <1>4, <1>5

(***************************************************************************)
(* Packets: a number of bytes sent in full packets, and the rest.          *)
(***************************************************************************)
LEMMA Multiple ==
    ASSUME NEW m \in Nat \ {0}, NEW k \in Nat, NEW q \in Nat, k > q
    PROVE  m * k >= m * q + m
BY Z3

LEMMA Unique ==
    ASSUME NEW m \in Nat \ {0}, NEW k \in Nat, NEW q \in Nat,
           NEW r \in 0..m - 1, NEW n \in 0..m - 1, m * k + n = m * q + r
    PROVE  n = r
<1>1. CASE k = q
  BY <1>1, Z3
<1>2. CASE k > q
  BY <1>2, Multiple, Z3
<1>3. CASE k < q
  BY <1>3, Multiple, Z3
<1>. QED
  BY <1>1, <1>2, <1>3

LEMMA Divided ==
    ASSUME NEW m \in Nat \ {0}, NEW a \in Nat
    PROVE  a % m \in 0..m - 1 /\ \E q \in Nat : a = m * q + (a % m)
<1>1. a \div m \in Nat
  OBVIOUS
<1>2. a % m \in 0..m - 1
  OBVIOUS
<1>3. a = m * (a \div m) + (a % m)
  OBVIOUS
<1>4. \E q \in Nat : a = m * q + (a % m)
  <2>. WITNESS a \div m \in Nat
  <2>. QED
    BY <1>3
<1>. QED
  BY <1>2, <1>4

LEMMA Rest ==
    ASSUME NEW m \in Nat \ {0}, NEW a \in Nat, NEW j \in Nat, NEW i \in 0..m - 1,
           a = m * j + i
    PROVE  a % m = i
<1>1. PICK q \in Nat : a = m * q + (a % m)
  BY Divided
<1>2. a % m \in 0..m - 1
  BY Divided
<1>. DEFINE r == a % m
<1>3. r \in 0..m - 1 /\ m * j + i = m * q + r
  BY <1>1, <1>2
<1>. HIDE DEF r
<1>4. i = r
  BY <1>3, Unique
<1>. QED
  BY <1>4 DEF r

LEMMA Remainder ==
    ASSUME NEW m \in Nat \ {0}, NEW g \in Nat, g % m = 0, NEW n \in 0..m - 1
    PROVE  (g + n) % m = n /\ (g + m) % m = 0
<1>1. PICK k \in Nat : g = m * k + (g % m)
  BY Divided
<1>2. g = m * k + 0
  BY <1>1
<1>3. g + n \in Nat /\ g + n = m * k + n
  BY <1>2, Z3
<1>4. (g + n) % m = n
  BY <1>3, Rest
<1>5. g + m \in Nat /\ g + m = m * (k + 1) + 0
  BY <1>2, Z3
<1>6. k + 1 \in Nat /\ 0 \in 0..m - 1
  OBVIOUS
<1>7. (g + m) % m = 0
  BY <1>5, <1>6, Rest
<1>. QED
  BY <1>4, <1>7

(***************************************************************************)
(* The inductive invariant.  What the device has read and what the host    *)
(* has left make up the request, whose packets were full so far; when the  *)
(* host waits for the answer the device has taken the request, and before  *)
(* that only if just the empty packet is to come; an answer of the call's  *)
(* own is there only then.                                                 *)
(***************************************************************************)
Types == /\ pc \in {"idle", "out", "zlp", "in"}
         /\ device \in {"get", "run", "send"}
         /\ mine \in BOOLEAN
         /\ loaded \in BOOLEAN
         /\ answer.own \in BOOLEAN
         /\ left \in Nat
         /\ got \in Nat

Sizes == /\ phase = "ready" => req_max_size = REQ_PAYLOAD_MAX_SIZE
         /\ phase = "resp_size" => req_max_size = REQ_PAYLOAD_MAX_SIZE
         /\ pc # "idle" => /\ call \in NamedCalls
                           /\ PayloadLen(Lib, call) \in 0..REQ_PAYLOAD_MAX_SIZE

Sending == /\ device # "get" \/ pc \in {"idle", "in"} \/ mine => got = 0
           /\ pc = "out" => /\ left > 0
                            /\ got + left = RequestLen(call)
                            /\ got % MPS = 0
           /\ pc = "zlp" /\ ~mine => got = RequestLen(call)

Serving == /\ pc = "in" => mine
           /\ mine => pc \in {"in", "zlp"}
           /\ loaded <=> device = "send"
           /\ mine /\ loaded => answer.own
           /\ ~mine => ~answer.own

LinkInv == Types /\ Sizes /\ Sending /\ Serving

\* Sizes that are constants.
LEMMA Constants == /\ MPS \in Nat \ {0}
                   /\ IFACE_REQ_HDR_SIZE \in Nat \ {0}
                   /\ 0 % MPS = 0
<1>1. MPS \in Nat \ {0} /\ IFACE_REQ_HDR_SIZE \in Nat \ {0}
  BY PacketAssumption
<1>2. 0 = MPS * 0 + 0
  BY <1>1, Z3
<1>3. 0 % MPS = 0
  BY <1>1, <1>2, Rest
<1>. QED
  BY <1>1, <1>3

\* The probes of list_devices are calls, and their requests are empty.
LEMMA Probes ==
    ASSUME NEW fn \in {"req_max_size", "resp_max_size"}, NEW app
    PROVE  /\ Probe(fn) \in NamedCalls
           /\ PayloadLen(Library(app), Probe(fn)) = 0
<1>. DEFINE c == [periph |-> "metadata", fn |-> fn, data |-> 0, read |-> 0]
<1>1. /\ "metadata" \in DOMAIN Host
      /\ fn \in DOMAIN Host["metadata"]
      /\ Host["metadata"] = HostMetadata
      /\ Rust["metadata"] = RustMetadata
  BY DEF Host, Rust, HostMetadata
<1>2. ~HostMetadata[fn].data /\ HostMetadata[fn].args = 0 /\ RustMetadata[fn].args = 0
  BY DEF HostMetadata, RustMetadata, Call
<1>3. c \in CallsOf("metadata", fn)
  <2>1. fn \notin Reads
    BY DEF Reads
  <2>. QED
    BY <1>1, <1>2, <2>1 DEF CallsOf
<1>4. c \in Calls
  BY <1>1, <1>3 DEF Calls
<1>5. ~Enumerated(c)
  BY DEF Enumerated, Switches, SwitchMetadata
<1>6. With(c, NoValue) \in NamedCalls
  BY <1>4, <1>5 DEF NamedCalls
<1>7. PayloadLen(Library(app), Probe(fn)) = 0
  BY <1>1, <1>2 DEF PayloadLen, HostFn, Library, Probe, With
<1>. QED
  BY <1>6, <1>7 DEF Probe

LEMMA InvInit == Init => LinkInv
<1>. SUFFICES ASSUME Init PROVE LinkInv
  OBVIOUS
<1>1. answer.own = FALSE
  BY DEF Init, NoAnswer
<1>2. Types
  BY <1>1 DEF Init, Types
<1>3. Sizes /\ Sending
  BY DEF Init, Sizes, Sending
<1>4. Serving
  BY <1>1 DEF Init, Serving
<1>. QED
  BY <1>2, <1>3, <1>4 DEF LinkInv

\* A request is longer than its header, and its library is the same all along.
LEMMA RequestBytes ==
    ASSUME LinkInv, pc # "idle"
    PROVE  RequestLen(call) \in Nat \ {0}
BY Constants, LengthAssumption DEF LinkInv, Sizes, RequestLen

LEMMA SameRequest ==
    ASSUME UNCHANGED <<client, call>>
    PROVE  /\ RequestLen(call)' = RequestLen(call)
           /\ PayloadLen(Lib, call)' = PayloadLen(Lib, call)
BY DEF RequestLen, Lib

\* What ends a call leaves the host idle and the device without its request.
LEMMA OverInv ==
    ASSUME LinkInv, Over,
           device' \in {device, "get"}, loaded' \in BOOLEAN,
           loaded' <=> device' = "send",
           got' = 0,
           phase' \in {"ready", "resp_size"} => req_max_size' = REQ_PAYLOAD_MAX_SIZE
    PROVE  LinkInv'
BY DEF LinkInv, Types, Sizes, Sending, Serving, Over, NoAnswer

LEMMA FailInv ==
    ASSUME LinkInv, NEW t, Fail(t)
    PROVE  phase' \in {"ready", "resp_size"} => req_max_size' = REQ_PAYLOAD_MAX_SIZE
BY DEF LinkInv, Sizes, Fail

LEMMA LargeEnough == REQ_PAYLOAD_MAX_SIZE \in Nat /\ REQ_PAYLOAD_MAX_SIZE >= 128
<1>1. REQ_PAYLOAD_MAX_SIZE \in 128..UINT16 - 1
  BY LengthAssumption
<1>2. UINT16 \in Nat
  BY DEF UINT16
<1>. QED
  BY <1>1, <1>2

\* The step that begins a call.
LEMMA BeginInv ==
    ASSUME LinkInv, pc = "idle", NEW c \in NamedCalls, Begin(c),
           PayloadLen(Lib, c) \in 0..REQ_PAYLOAD_MAX_SIZE
    PROVE  LinkInv' /\ Link!Ask
<1>1. /\ pc' = "out" /\ call' = c
      /\ left' = RequestLen(c)
      /\ UNCHANGED <<client, phase, req_max_size, result, device, got, mine, loaded, answer>>
  BY DEF Begin, firmware
<1>2. RequestLen(c) \in Nat \ {0}
  BY Constants, LengthAssumption DEF RequestLen
<1>3. RequestLen(call)' = RequestLen(c) /\ PayloadLen(Lib, call)' = PayloadLen(Lib, c)
  BY <1>1 DEF RequestLen, Lib
<1>4. LinkInv'
  BY <1>1, <1>2, <1>3, Constants DEF LinkInv, Types, Sizes, Sending, Serving
<1>5. Link!Ask
  BY <1>1 DEF Link!Ask, Whose
<1>. QED
  BY <1>4, <1>5

LEMMA BeginStep ==
    ASSUME LinkInv, BeginProbe \/ BeginCall
    PROVE  LinkInv' /\ Link!Ask
<1>1. CASE BeginProbe
  <2>1. PICK fn \in {"req_max_size", "resp_max_size"} : pc = "idle" /\ Begin(Probe(fn))
    BY <1>1 DEF BeginProbe
  <2>2. Probe(fn) \in NamedCalls /\ PayloadLen(Lib, Probe(fn)) \in 0..REQ_PAYLOAD_MAX_SIZE
    <3>1. 0 \in 0..REQ_PAYLOAD_MAX_SIZE
      BY LargeEnough
    <3>2. Probe(fn) \in NamedCalls /\ PayloadLen(Library(client), Probe(fn)) = 0
      BY Probes
    <3>. QED
      BY <3>1, <3>2 DEF Lib
  <2>. QED
    BY <2>1, <2>2, BeginInv
<1>2. CASE BeginCall
  <2>1. PICK c \in NamedCalls : Begin(c) /\ ~TooLong(Lib, c, req_max_size)
    BY <1>2 DEF BeginCall
  <2>2. pc = "idle" /\ req_max_size = REQ_PAYLOAD_MAX_SIZE
    BY <1>2 DEF BeginCall, LinkInv, Sizes
  <2>3. PayloadLen(Lib, c) \in 0..REQ_PAYLOAD_MAX_SIZE
    BY <2>1, <2>2, PayloadFits DEF Lib
  <2>. QED
    BY <2>1, <2>2, <2>3, BeginInv
<1>. QED
  BY <1>1, <1>2

\* The device has read all of the request.
LEMMA TakeStep ==
    ASSUME LinkInv, pc \in {"out", "zlp"}, ~mine, device = "get", pc' \in {"in", "zlp"},
           GetReq(RequestLen(call)), left' \in Nat,
           UNCHANGED <<client, phase, req_max_size, call, loaded, answer, result>>
    PROVE  LinkInv' /\ Link!Take
<1>1. got' = 0 /\ device' = "run" /\ mine' = TRUE
  BY DEF GetReq, LinkInv, Sizes
<1>2. PayloadLen(Lib, call)' = PayloadLen(Lib, call)
  BY SameRequest
<1>3. LinkInv'
  BY <1>1, <1>2 DEF LinkInv, Types, Sizes, Sending, Serving
<1>4. call # None
  BY CallIsCall DEF LinkInv, Sizes
<1>5. Link!Take
  BY <1>1, <1>4 DEF Link!Take, Whose
<1>. QED
  BY <1>3, <1>5

\* A packet ends the read only if it is the last.
LEMMA PacketStep ==
    ASSUME LinkInv, Packet
    PROVE  LinkInv' /\ (Link!Take \/ UNCHANGED Link!vars)
<1>. DEFINE n == IF left < MPS THEN left ELSE MPS
            size == IFACE_REQ_HDR_SIZE + REQ_PAYLOAD_MAX_SIZE
<1>1. /\ pc = "out" /\ device = "get"
      /\ left' = left - n
      /\ pc' = IF left = n THEN AfterRequest(RequestLen(call)) ELSE pc
      /\ IF n < MPS \/ got + n = size THEN GetReq(got + n)
         ELSE got' = got + n /\ UNCHANGED <<device, mine>>
      /\ UNCHANGED <<client, phase, req_max_size, call, loaded, answer, result>>
  BY DEF Packet, EndsRead
<1>2. /\ left \in Nat \ {0} /\ got \in Nat /\ got + left = RequestLen(call)
      /\ got % MPS = 0
      /\ ~mine
      /\ RequestLen(call) <= size
  <2>1. RequestLen(call) <= size
    BY <1>1, Constants, LargeEnough DEF LinkInv, Sizes, RequestLen
  <2>. QED
    BY <1>1, <2>1 DEF LinkInv, Types, Sending, Serving
<1>3. CASE left < MPS
  <2>1. n = left /\ left' = 0 /\ GetReq(RequestLen(call))
    BY <1>1, <1>2, <1>3, Constants
  <2>2. RequestLen(call) % MPS # 0
    <3>1. left \in 0..MPS - 1
      BY <1>2, <1>3, Constants
    <3>2. (got + left) % MPS = left
      BY <1>2, <3>1, Constants, Remainder
    <3>. QED
      BY <1>2, <3>2
  <2>3. pc' = "in"
    BY <1>1, <2>1, <2>2 DEF AfterRequest
  <2>. QED
    BY <1>1, <1>2, <2>1, <2>3, TakeStep
<1>4. CASE ~(left < MPS)
  <2>1. /\ n = MPS /\ left' = left - MPS /\ left' \in Nat
        /\ got + MPS \in Nat /\ got + MPS + left' = RequestLen(call)
    BY <1>1, <1>2, <1>4, Constants
  <2>2. (got + MPS) % MPS = 0
    <3>1. 0 \in 0..MPS - 1
      BY Constants
    <3>. QED
      BY <1>2, <3>1, Constants, Remainder
  <2>3. CASE got + MPS = size
    <3>. HIDE DEF size
    <3>1. left = MPS /\ got + MPS = RequestLen(call)
      <4>1. size \in Nat
        BY <2>1, <2>3
      <4>. QED
        BY <1>2, <1>4, <2>1, <2>3, <4>1, Constants
    <3>2. GetReq(RequestLen(call))
      BY <1>1, <2>1, <2>3, <3>1
    <3>3. pc' = "zlp"
      BY <1>1, <2>1, <2>2, <3>1 DEF AfterRequest
    <3>. QED
      BY <1>1, <1>2, <2>1, <3>2, <3>3, TakeStep
  <2>4. CASE got + MPS # size
    <3>1. got' = got + MPS /\ UNCHANGED <<device, mine>>
      BY <1>1, <2>1, <2>4, Constants
    <3>2. CASE left = MPS
      <4>1. pc' = "zlp" /\ got' = RequestLen(call)
        BY <1>1, <2>1, <2>2, <3>1, <3>2, Constants DEF AfterRequest
      <4>. QED
        BY <1>1, <1>2, <2>1, <3>1, <4>1, SameRequest
        DEF LinkInv, Types, Sizes, Sending, Serving, Link!vars, Whose
    <3>3. CASE left # MPS
      <4>1. pc' = "out" /\ left' > 0
        BY <1>1, <1>2, <1>4, <2>1, <3>3, Constants
      <4>2. got' \in Nat /\ got' + left' = RequestLen(call) /\ got' % MPS = 0
        BY <2>1, <2>2, <3>1
      <4>. QED
        BY <1>1, <1>2, <2>1, <3>1, <4>1, <4>2, SameRequest
        DEF LinkInv, Types, Sizes, Sending, Serving, Link!vars, Whose
    <3>. QED
      BY <3>2, <3>3
  <2>. QED
    BY <2>3, <2>4
<1>. QED
  BY <1>3, <1>4

\* The empty packet ends the request, or comes after it.
LEMMA EmptyPacketStep ==
    ASSUME LinkInv, EmptyPacket
    PROVE  LinkInv' /\ (Link!Take \/ UNCHANGED Link!vars)
<1>1. /\ pc = "zlp" /\ device = "get" /\ pc' = "in"
      /\ GetReq(got)
      /\ left' = left /\ left \in Nat
      /\ UNCHANGED <<client, phase, req_max_size, call, loaded, answer, result>>
  BY DEF EmptyPacket, LinkInv, Types
<1>2. CASE ~mine
  <2>1. GetReq(RequestLen(call))
    BY <1>1, <1>2 DEF LinkInv, Sending
  <2>. QED
    BY <1>1, <1>2, <2>1, TakeStep
<1>3. CASE mine
  <2>1. got = 0
    BY <1>3 DEF LinkInv, Sending
  <2>2. RequestLen(call) # 0
    BY <1>1, RequestBytes
  <2>3. got' = 0 /\ UNCHANGED <<device, mine>>
    BY <1>1, <2>1, <2>2 DEF GetReq
  <2>4. LinkInv'
    BY <1>1, <1>3, <2>3, SameRequest DEF LinkInv, Types, Sizes, Sending, Serving
  <2>5. UNCHANGED Link!vars
    BY <1>1, <1>3, <2>3 DEF Link!vars, Whose
  <2>. QED
    BY <2>4, <2>5
<1>. QED
  BY <1>2, <1>3

\* A call that fails, whether or not the device is reset.
LEMMA FailStep ==
    ASSUME LinkInv, pc # "idle", NEW t, Fail(t), got = 0,
           \/ Reset
           \/ UNCHANGED <<device, got, loaded>>
           \/ /\ loaded' = FALSE
              /\ UNCHANGED got
              /\ device' = IF device = "send" THEN "get" ELSE device
    PROVE  LinkInv' /\ Link!GiveUp
<1>1. /\ Over
      /\ result' = "error"
      /\ phase' \in {"ready", "resp_size"} => req_max_size' = REQ_PAYLOAD_MAX_SIZE
  BY FailInv DEF Fail
<1>2. /\ device' \in {device, "get"}
      /\ loaded' \in BOOLEAN
      /\ loaded' <=> device' = "send"
      /\ device' = "run" <=> device = "run"
      /\ loaded' => loaded
      /\ got' = 0
  <2>1. CASE Reset
    BY <2>1 DEF Reset, LinkInv, Types
  <2>2. CASE UNCHANGED <<device, got, loaded>>
    BY <2>2 DEF LinkInv, Types, Serving
  <2>3. CASE /\ loaded' = FALSE
             /\ UNCHANGED got
             /\ device' = IF device = "send" THEN "get" ELSE device
    BY <2>3 DEF LinkInv, Types
  <2>. QED
    BY <2>1, <2>2, <2>3
<1>3. LinkInv'
  BY <1>1, <1>2, OverInv
<1>4. call # None
  BY CallIsCall DEF LinkInv, Sizes
<1>5. Link!GiveUp
  BY <1>1, <1>2, <1>4 DEF Link!GiveUp, Link!Orphaned, Whose, Over, NoAnswer, LinkInv, Types, Serving
<1>. QED
  BY <1>3, <1>5

LEMMA TimeoutStep ==
    ASSUME LinkInv, OutTimeout \/ InTimeout \/ ReceiveEmpty
    PROVE  LinkInv' /\ Link!GiveUp
<1>1. pc # "idle" /\ got = 0 /\ \E t \in BOOLEAN : Fail(t)
  BY DEF OutTimeout, InTimeout, ReceiveEmpty, LinkInv, Sending
<1>2. Reset \/ UNCHANGED <<device, got, loaded>>
  BY DEF OutTimeout, InTimeout, ReceiveEmpty, Cancelled
<1>. QED
  BY <1>1, <1>2, FailStep

LEMMA RespondStep ==
    ASSUME LinkInv, Respond
    PROVE  LinkInv' /\ Link!Work
<1>1. /\ device = "run" /\ device' = "send" /\ loaded' = TRUE
      /\ answer' \in IF mine THEN Replies(client, call) ELSE {NoAnswer}
      /\ UNCHANGED <<client, phase, req_max_size, pc, call, left, result, got, mine>>
  BY DEF Respond, host
<1>2. \A a \in Replies(client, call) : a.own = TRUE
  BY DEF Replies, Meaning
<1>3. answer'.own \in BOOLEAN /\ (answer'.own <=> mine)
  <2>1. CASE mine
    <3>1. answer' \in Replies(client, call)
      BY <2>1, <1>1
    <3>2. answer'.own = TRUE
      BY <3>1, <1>2
    <3>. QED
      BY <2>1, <3>2
  <2>2. CASE ~mine
    <3>1. answer' = NoAnswer
      BY <2>2, <1>1
    <3>2. NoAnswer.own = FALSE
      BY DEF NoAnswer
    <3>. QED
      BY <2>2, <3>1, <3>2
  <2>. QED
    BY <2>1, <2>2
<1>4. LinkInv'
  BY <1>1, <1>3, SameRequest DEF LinkInv, Types, Sizes, Sending, Serving
<1>5. Link!Work
  BY <1>1, <1>3 DEF Link!Work, Whose, LinkInv, Types, Serving
<1>. QED
  BY <1>4, <1>5

LEMMA LostStep ==
    ASSUME LinkInv, RespondFails
    PROVE  LinkInv' /\ Link!Work
<1>1. /\ device = "run" /\ device' = "get"
      /\ UNCHANGED <<client, phase, req_max_size, pc, call, left, result, got, mine, loaded, answer>>
  BY DEF RespondFails, host
<1>2. LinkInv'
  BY <1>1, SameRequest DEF LinkInv, Types, Sizes, Sending, Serving
<1>3. Link!Work
  BY <1>1 DEF Link!Work, Whose, LinkInv, Types, Serving
<1>. QED
  BY <1>2, <1>3

LEMMA ReceiveStep ==
    ASSUME LinkInv, Receive
    PROVE  LinkInv' /\ (Link!Deliver \/ Link!GiveUp)
<1>1. pc = "in" /\ loaded /\ mine /\ answer.own /\ device = "send" /\ got = 0
  BY DEF Receive, LinkInv, Types, Sending, Serving
<1>2. CASE Accepted /\ Succeed /\ loaded' = FALSE /\ UNCHANGED got
           /\ device' = IF device = "send" THEN "get" ELSE device
  <2>1. phase' \in {"ready", "resp_size"} => req_max_size' = REQ_PAYLOAD_MAX_SIZE
    BY <1>2 DEF Succeed, LinkInv, Sizes
  <2>2. LinkInv'
    BY <1>1, <1>2, <2>1, OverInv DEF Succeed
  <2>3. Link!Deliver
    BY <1>1, <1>2 DEF Link!Deliver, Whose, Succeed, Over
  <2>. QED
    BY <2>2, <2>3
<1>3. CASE Fail(FALSE)
  <2>1. \/ Reset
        \/ /\ loaded' = FALSE
           /\ UNCHANGED got
           /\ device' = IF device = "send" THEN "get" ELSE device
    BY <1>3 DEF Receive, Drained
  <2>. QED
    BY <1>1, <1>3, <2>1, FailStep
<1>. QED
  BY <1>2, <1>3 DEF Receive, Drained

LEMMA ListStep ==
    ASSUME LinkInv, ListDevices
    PROVE  LinkInv' /\ UNCHANGED Link!vars
BY DEF ListDevices, firmware, LinkInv, Types, Sizes, Sending, Serving, Link!vars, Whose

LEMMA LinkStep ==
    ASSUME LinkInv, [Next]_vars
    PROVE  LinkInv' /\ [Link!Next]_(Link!vars)
<1>1. CASE BeginProbe \/ BeginCall
  BY <1>1, BeginStep DEF Link!Next
<1>2. CASE Packet
  BY <1>2, PacketStep DEF Link!Next
<1>3. CASE EmptyPacket
  BY <1>3, EmptyPacketStep DEF Link!Next
<1>4. CASE OutTimeout \/ InTimeout \/ ReceiveEmpty
  BY <1>4, TimeoutStep DEF Link!Next
<1>5. CASE Respond
  BY <1>5, RespondStep DEF Link!Next
<1>6. CASE Receive
  BY <1>6, ReceiveStep DEF Link!Next
<1>7. CASE ListDevices
  BY <1>7, ListStep
<1>8. CASE UNCHANGED vars
  <2>1. LinkInv'
    BY <1>8, SameRequest DEF vars, host, firmware, LinkInv, Types, Sizes, Sending, Serving
  <2>2. UNCHANGED Link!vars
    BY <1>8 DEF vars, host, firmware, Link!vars, Whose
  <2>. QED
    BY <2>1, <2>2
<1>9. CASE RespondFails
  BY <1>9, LostStep DEF Link!Next
<1>. QED
  BY <1>1, <1>2, <1>3, <1>4, <1>5, <1>6, <1>7, <1>8, <1>9 DEF Next

(***************************************************************************)
(* The parts of the request and of the answer are where LinkInv says.      *)
(***************************************************************************)
THEOREM LinkInvariant == Spec => []LinkInv
<1>1. LinkInv /\ [Next]_vars => LinkInv'
  BY LinkStep
<1>. QED
  BY InvInit, <1>1, PTL DEF Spec

(***************************************************************************)
(* The USB link implements LinkService, whatever the sizes of packets,     *)
(* headers and payloads: requests are handed over whole and run once, and  *)
(* a call that succeeds has the answer of its own function                 *)
(* (usb.cpp:21-78, usb.c:152-182).                                         *)
(***************************************************************************)
THEOREM LinkRefined == Spec => ImplementsLink
<1>1. Init => Link!Init
  BY DEF Init, Link!Init, Whose
<1>2. LinkInv /\ [Next]_vars => [Link!Next]_(Link!vars)
  BY LinkStep
<1>. QED
  BY <1>1, <1>2, LinkInvariant, PTL DEF Spec, ImplementsLink, Link!Spec

(***************************************************************************)
(* The tables of formats: what a library sends is what the device takes,   *)
(* and the library accepts answers of the device's form.                   *)
(***************************************************************************)

\* The lengths of the requests that entry h of a library makes are among those
\* that entry d of the device takes.
LensFit(h, d) ==
    \A g \in Nat : /\ h.data \/ g = 0
                   /\ h.cap > 0 => g <= h.cap
                   /\ h.args + g <= REQ_PAYLOAD_MAX_SIZE
                   => h.args + g \in d.lens

\* The answer's length is that of the request.
Mirrors(a) == a.form = "as given"

\* The library accepts the form of the device's answer.
RepliesFit(h, d) ==
    \/ h.answer = d.reply /\ (Mirrors(d.reply) => h.args = 0)
    \/ h.answer = Anything /\ d.reply \in {Exactly(SerialLen), Exactly(2), AsGiven, AsAsked, UpToAsked, Nothing}
    \/ \E n \in {4, 11}, m \in {CAN_MAX_LEN, LIN_MAX_LEN} : h.answer = AtLeast(n) /\ d.reply = Message(n, m)

\* A request of arguments alone, and one with data behind them.
LEMMA ExactLens == ASSUME NEW n \in Nat, NEW a, NEW b PROVE LensFit(Call(n, a), Takes({n}, b))
BY DEF LensFit, Call, Takes

LEMMA DataLens ==
    ASSUME NEW n \in Nat, NEW cap \in Nat, NEW a, NEW b, NEW lens,
           \A k \in Nat : k <= REQ_PAYLOAD_MAX_SIZE /\ k >= n => k \in lens
    PROVE  LensFit(CallData(n, cap, a), Takes(lens, b))
BY DEF LensFit, CallData, Takes

\* The ranges of lengths in the device's tables.
LEMMA PayloadLensFrom ==
    /\ \A k \in Nat : k <= REQ_PAYLOAD_MAX_SIZE /\ k >= 0 => k \in PayloadLens
    /\ \A k \in Nat : k <= REQ_PAYLOAD_MAX_SIZE /\ k >= 2 => k \in PayloadLens \ 0..1
    /\ \A k \in Nat : k <= REQ_PAYLOAD_MAX_SIZE /\ k >= 4 => k \in PayloadLens \ 0..3
    /\ \A k \in Nat : k <= REQ_PAYLOAD_MAX_SIZE /\ k >= 9 => k \in PayloadLens \ 0..8
BY LargeEnough DEF PayloadLens

\* lin_write: from one byte of data to a frame.
LEMMA LinWriteLens ==
    \A g \in 1..HostLin.lin_write.cap :
        HostLin.lin_write.args + g \in DeviceLin.lin_write.lens
<1>1. HostLin.lin_write.args = 2 /\ HostLin.lin_write.cap = 8
  BY DEF HostLin, CallData, LIN_MAX_LEN
<1>2. DeviceLin.lin_write.lens = 3..10
  BY DEF DeviceLin, Takes, LIN_MAX_LEN
<1>. QED
  BY <1>1, <1>2

\* All of libjabi's requests fit, but for an empty lin_write.
LEMMA HostLens ==
    \A p \in DOMAIN Host : \A f \in DOMAIN Host[p] : f # "lin_write" => LensFit(Host[p][f], Device[p][f])
<1>0. \A f \in DOMAIN HostLin : f # "lin_write" => LensFit(HostLin[f], DeviceLin[f])
  BY ExactLens DEF HostLin, DeviceLin
<1>1. \A f \in DOMAIN HostI2c : LensFit(HostI2c[f], DeviceI2c[f])
  BY ExactLens, DataLens, PayloadLensFrom DEF HostI2c, DeviceI2c
<1>2. \A f \in DOMAIN HostGpio : LensFit(HostGpio[f], DeviceGpio[f])
  BY ExactLens DEF HostGpio, DeviceGpio
<1>3. \A f \in DOMAIN HostPwm : LensFit(HostPwm[f], DevicePwm[f])
  BY ExactLens DEF HostPwm, DevicePwm
<1>4. \A f \in DOMAIN HostAdc : LensFit(HostAdc[f], DeviceAdc[f])
  BY ExactLens DEF HostAdc, DeviceAdc
<1>5. \A f \in DOMAIN HostDac : LensFit(HostDac[f], DeviceDac[f])
  BY ExactLens DEF HostDac, DeviceDac
<1>6. \A f \in DOMAIN HostSpi : LensFit(HostSpi[f], DeviceSpi[f])
  BY ExactLens, DataLens, PayloadLensFrom DEF HostSpi, DeviceSpi
<1>7. \A f \in DOMAIN HostUart : LensFit(HostUart[f], DeviceUart[f])
  BY ExactLens, DataLens, PayloadLensFrom DEF HostUart, DeviceUart
<1>8. \A f \in DOMAIN HostCan : LensFit(HostCan[f], DeviceCan[f])
  BY ExactLens, DataLens, PayloadLensFrom DEF HostCan, DeviceCan, CAN_MAX_LEN
<1>9. \A f \in DOMAIN HostMetadata : LensFit(HostMetadata[f], DeviceMetadata[f])
  BY ExactLens, DataLens, PayloadLensFrom DEF HostMetadata, DeviceMetadata
<1>. QED
  BY <1>0, <1>1, <1>2, <1>3, <1>4, <1>5, <1>6, <1>7, <1>8, <1>9 DEF Host, Device

\* The Rust client makes the requests of libjabi.
SameForm(h, u) == u.args = h.args /\ (u.data <=> h.data) /\ u.cap = h.cap

\* Entries that differ in the answer alone.
LEMMA SameCall ==
    ASSUME NEW n \in Nat, NEW cap \in Nat, NEW a, NEW b
    PROVE  /\ SameForm(Call(n, a), Call(n, b))
           /\ SameForm(CallData(n, cap, a), CallData(n, cap, b))
BY DEF SameForm, Call, CallData

LEMMA RustRequests ==
    \A p \in DOMAIN Host : \A f \in DOMAIN Host[p] : SameForm(Host[p][f], Rust[p][f])
<1>1. \A f \in DOMAIN HostI2c : SameForm(HostI2c[f], RustI2c[f])
  BY SameCall DEF HostI2c, RustI2c
<1>2. \A f \in DOMAIN HostGpio : SameForm(HostGpio[f], RustGpio[f])
  BY SameCall DEF HostGpio, RustGpio
<1>3. \A f \in DOMAIN HostPwm : SameForm(HostPwm[f], RustPwm[f])
  BY SameCall DEF HostPwm, RustPwm
<1>4. \A f \in DOMAIN HostAdc : SameForm(HostAdc[f], RustAdc[f])
  BY SameCall DEF HostAdc, RustAdc
<1>5. \A f \in DOMAIN HostDac : SameForm(HostDac[f], RustDac[f])
  BY SameCall DEF HostDac, RustDac
<1>6. \A f \in DOMAIN HostSpi : SameForm(HostSpi[f], RustSpi[f])
  BY SameCall DEF HostSpi, RustSpi
<1>7. \A f \in DOMAIN HostUart : SameForm(HostUart[f], RustUart[f])
  BY SameCall DEF HostUart, RustUart
<1>8. \A f \in DOMAIN HostCan : SameForm(HostCan[f], RustCan[f])
  BY SameCall DEF HostCan, RustCan, CAN_MAX_LEN
<1>9. \A f \in DOMAIN HostLin : SameForm(HostLin[f], RustLin[f])
  BY SameCall DEF HostLin, RustLin, LIN_MAX_LEN
<1>10. \A f \in DOMAIN HostMetadata : SameForm(HostMetadata[f], RustMetadata[f])
  BY SameCall DEF HostMetadata, RustMetadata
<1>. QED
  BY <1>1, <1>2, <1>3, <1>4, <1>5, <1>6, <1>7, <1>8, <1>9, <1>10 DEF Host, Rust

\* Replies that fit: the same form, anything, a message of some length.
LEMMA SameReply ==
    ASSUME NEW n \in Nat, NEW cap \in Nat, NEW lens, NEW a, ~Mirrors(a) \/ n = 0
    PROVE  RepliesFit(Call(n, a), Takes(lens, a)) /\ RepliesFit(CallData(n, cap, a), Takes(lens, a))
BY DEF RepliesFit, Call, CallData, Takes

LEMMA AnythingReply ==
    ASSUME NEW n \in Nat, NEW cap \in Nat, NEW lens,
           NEW a \in {Exactly(SerialLen), Exactly(2), AsGiven, AsAsked, UpToAsked, Nothing}
    PROVE  /\ RepliesFit(Call(n, Anything), Takes(lens, a))
           /\ RepliesFit(CallData(n, cap, Anything), Takes(lens, a))
BY DEF RepliesFit, Call, CallData, Takes

LEMMA MessageReply ==
    ASSUME NEW n \in Nat, NEW lens, NEW k \in {4, 11}, NEW m \in {CAN_MAX_LEN, LIN_MAX_LEN}
    PROVE  RepliesFit(Call(n, AtLeast(k)), Takes(lens, Message(k, m)))
BY DEF RepliesFit, Call, Takes

\* Only AsGiven depends on the length of the request.
LEMMA NotMirrors == /\ \A n \in Nat : ~Mirrors(Exactly(n))
                    /\ \A n, m \in Nat : ~Mirrors(Message(n, m))
                    /\ ~Mirrors(AsAsked) /\ ~Mirrors(UpToAsked) /\ Mirrors(AsGiven)
BY DEF Mirrors, Exactly, Message, AsAsked, UpToAsked, AsGiven, Form

\* All replies fit both libraries.
LEMMA LibraryReplies ==
    \A p \in DOMAIN Host : \A f \in DOMAIN Host[p] :
        RepliesFit(Host[p][f], Device[p][f]) /\ RepliesFit(Rust[p][f], Device[p][f])
<1>. USE SameReply, NotMirrors
<1>1. \A f \in DOMAIN HostI2c : RepliesFit(HostI2c[f], DeviceI2c[f])
  BY DEF HostI2c, DeviceI2c
<1>2. \A f \in DOMAIN HostI2c : RepliesFit(RustI2c[f], DeviceI2c[f])
  BY AnythingReply DEF HostI2c, RustI2c, DeviceI2c
<1>3. \A f \in DOMAIN HostGpio : RepliesFit(HostGpio[f], DeviceGpio[f])
  BY DEF HostGpio, DeviceGpio
<1>4. \A f \in DOMAIN HostGpio : RepliesFit(RustGpio[f], DeviceGpio[f])
  BY DEF HostGpio, RustGpio, DeviceGpio
<1>5. \A f \in DOMAIN HostPwm : RepliesFit(HostPwm[f], DevicePwm[f])
  BY DEF HostPwm, DevicePwm
<1>6. \A f \in DOMAIN HostPwm : RepliesFit(RustPwm[f], DevicePwm[f])
  BY DEF HostPwm, RustPwm, DevicePwm
<1>7. \A f \in DOMAIN HostAdc : RepliesFit(HostAdc[f], DeviceAdc[f])
  BY DEF HostAdc, DeviceAdc
<1>8. \A f \in DOMAIN HostAdc : RepliesFit(RustAdc[f], DeviceAdc[f])
  BY DEF HostAdc, RustAdc, DeviceAdc
<1>9. \A f \in DOMAIN HostDac : RepliesFit(HostDac[f], DeviceDac[f])
  BY DEF HostDac, DeviceDac
<1>10. \A f \in DOMAIN HostDac : RepliesFit(RustDac[f], DeviceDac[f])
  BY DEF HostDac, RustDac, DeviceDac
<1>11. \A f \in DOMAIN HostSpi : RepliesFit(HostSpi[f], DeviceSpi[f])
  BY DEF HostSpi, DeviceSpi
<1>12. \A f \in DOMAIN HostSpi : RepliesFit(RustSpi[f], DeviceSpi[f])
  BY AnythingReply DEF HostSpi, RustSpi, DeviceSpi
<1>13. \A f \in DOMAIN HostUart : RepliesFit(HostUart[f], DeviceUart[f])
  BY DEF HostUart, DeviceUart
<1>14. \A f \in DOMAIN HostUart : RepliesFit(RustUart[f], DeviceUart[f])
  BY AnythingReply DEF HostUart, RustUart, DeviceUart
<1>15. \A f \in DOMAIN HostCan : RepliesFit(HostCan[f], DeviceCan[f])
  BY DEF HostCan, DeviceCan, CAN_MAX_LEN
<1>16. \A f \in DOMAIN HostCan : RepliesFit(RustCan[f], DeviceCan[f])
  BY MessageReply DEF HostCan, RustCan, DeviceCan, CAN_MAX_LEN
<1>17. \A f \in DOMAIN HostLin : RepliesFit(HostLin[f], DeviceLin[f])
  BY DEF HostLin, DeviceLin, LIN_MAX_LEN
<1>18. \A f \in DOMAIN HostLin : RepliesFit(RustLin[f], DeviceLin[f])
  BY MessageReply DEF HostLin, RustLin, DeviceLin, LIN_MAX_LEN
<1>19. \A f \in DOMAIN HostMetadata : RepliesFit(HostMetadata[f], DeviceMetadata[f])
  BY AnythingReply DEF HostMetadata, DeviceMetadata
<1>20. \A f \in DOMAIN HostMetadata : RepliesFit(RustMetadata[f], DeviceMetadata[f])
  BY AnythingReply DEF HostMetadata, RustMetadata, DeviceMetadata
<1>. QED
  BY <1>1, <1>2, <1>3, <1>4, <1>5, <1>6, <1>7, <1>8, <1>9, <1>10,
     <1>11, <1>12, <1>13, <1>14, <1>15, <1>16, <1>17, <1>18, <1>19, <1>20
     DEF Host, Rust, Device

\* A request is not refused for its length, but for an empty lin_write.
LEMMA LensAgree ==
    ASSUME NEW c \in NamedCalls, NEW app, ~TooLong(Library(app), c, REQ_PAYLOAD_MAX_SIZE)
    PROVE  \/ PayloadLen(Library(app), c) \in Device[c.periph][c.fn].lens
           \/ c.fn = "lin_write" /\ c.data = 0
<1>. DEFINE h == Host[c.periph][c.fn]
            e == HostFn(Library(app), c)
<1>1. e.args = h.args /\ (e.data <=> h.data) /\ e.cap = h.cap
  <2>1. CASE Library(app) = Host
    BY <2>1 DEF HostFn
  <2>2. CASE Library(app) = Rust
    <3>1. SameForm(h, Rust[c.periph][c.fn])
      BY CallFacts, RustRequests
    <3>2. e = Rust[c.periph][c.fn]
      BY <2>2 DEF HostFn
    <3>3. SameForm(h, e)
      BY <3>1, <3>2
    <3>. HIDE DEF e, h
    <3>. QED
      BY <3>3 DEF SameForm
  <2>. QED
    BY <2>1, <2>2 DEF Library
<1>2. /\ h.args \in 0..9
      /\ h.cap \in {0, 8, 64}
      /\ ~h.data => c.data = 0
      /\ c.data \in Nat
      /\ h.args + c.data \in 0..REQ_PAYLOAD_MAX_SIZE
  BY <1>1, CallFacts, HostFits, PayloadFits DEF Fits, PayloadLen
<1>3. h.cap > 0 => c.data <= h.cap
  BY <1>1, <1>2 DEF TooLong
<1>4. CASE c.fn # "lin_write"
  <2>1. LensFit(h, Device[c.periph][c.fn])
    BY <1>4, CallFacts, HostLens
  <2>2. h.args + c.data \in Device[c.periph][c.fn].lens
    BY <2>1, <1>2, <1>3, LargeEnough DEF LensFit
  <2>. QED
    BY <2>2, <1>1 DEF PayloadLen
<1>5. CASE c.fn = "lin_write" /\ c.data # 0
  <2>1. c.periph = "lin"
    BY <1>5, CallFacts DEF Host, HostI2c, HostGpio, HostPwm, HostAdc, HostDac, HostSpi, HostUart,
       HostCan, HostMetadata
  <2>2. h = HostLin.lin_write /\ Device[c.periph][c.fn] = DeviceLin.lin_write
    BY <2>1, <1>5 DEF Host, Device
  <2>3. HostLin.lin_write.cap = 8
    BY DEF HostLin, CallData, LIN_MAX_LEN
  <2>4. c.data \in 1..HostLin.lin_write.cap
    BY <2>2, <2>3, <1>2, <1>3, <1>5
  <2>. QED
    BY <2>2, <2>4, <1>1, LinWriteLens DEF PayloadLen
<1>. QED
  BY <1>4, <1>5

\* What lengths the forms of answers stand for.
LEMMA NotGiven ==
    ASSUME NEW a, ~Mirrors(a), NEW n, NEW g, NEW r
    PROVE  AnswerLens(a, n, r) = AnswerLens(a, g, r)
BY DEF Mirrors, AnswerLens

LEMMA FormLens ==
    ASSUME NEW g, NEW r
    PROVE  /\ AnswerLens(Anything, g, r) = 0..UINT16 - 1
           /\ AnswerLens(AsGiven, g, r) = {g}
           /\ AnswerLens(AsAsked, g, r) = {r}
           /\ AnswerLens(UpToAsked, g, r) = 0..r
           /\ AnswerLens(Nothing, g, r) = {}
<1>1. AnswerLens(Anything, g, r) = 0..UINT16 - 1
  BY DEF AnswerLens, Anything, Form
<1>2. AnswerLens(AsGiven, g, r) = {g}
  BY DEF AnswerLens, AsGiven, Form
<1>3. AnswerLens(AsAsked, g, r) = {r}
  BY DEF AnswerLens, AsAsked, Form
<1>4. AnswerLens(UpToAsked, g, r) = 0..r
  BY DEF AnswerLens, UpToAsked, Form
<1>5. AnswerLens(Nothing, g, r) = {}
  BY DEF AnswerLens, Nothing, Form
<1>. QED
  BY <1>1, <1>2, <1>3, <1>4, <1>5

LEMMA ExactlyLens == ASSUME NEW n, NEW g, NEW r PROVE AnswerLens(Exactly(n), g, r) = {n}
BY DEF AnswerLens, Exactly

LEMMA AtLeastLens ==
    ASSUME NEW n, NEW g, NEW r
    PROVE  AnswerLens(AtLeast(n), g, r) = {0} \union n..UINT16 - 1
BY DEF AnswerLens, AtLeast

LEMMA MessageLens ==
    ASSUME NEW n, NEW m, NEW g, NEW r
    PROVE  AnswerLens(Message(n, m), g, r) = {0} \union n..n + m
BY DEF AnswerLens, Message

\* A library accepts every length of an answer of a form that fits.
LEMMA LengthAccepted ==
    ASSUME NEW h, NEW d, RepliesFit(h, d), NEW g \in Nat, NEW r \in Nat, h.args \in Nat,
           NEW k \in AnswerLens(d.reply, h.args + g, r),
           d.reply \in {AsGiven, AsAsked, UpToAsked} =>
              (IF d.reply = AsGiven THEN h.args + g ELSE r) <= RESP_PAYLOAD_MAX_SIZE
    PROVE  k \in AnswerLens(h.answer, g, r)
<1>1. /\ RESP_PAYLOAD_MAX_SIZE \in Nat /\ RESP_PAYLOAD_MAX_SIZE >= 128
      /\ UINT16 \in Nat /\ RESP_PAYLOAD_MAX_SIZE < UINT16
  <2>1. UINT16 \in Nat
    BY DEF UINT16
  <2>. QED
    BY <2>1, LengthAssumption
<1>2. CASE h.answer = d.reply /\ (Mirrors(d.reply) => h.args = 0)
  <2>1. CASE Mirrors(d.reply)
    <3>1. h.args + g = g
      BY <1>2, <2>1
    <3>. QED
      BY <3>1, <1>2
  <2>2. CASE ~Mirrors(d.reply)
    BY <1>2, <2>2, NotGiven
  <2>. QED
    BY <2>1, <2>2
<1>3. CASE h.answer = Anything /\ d.reply \in {Exactly(SerialLen), Exactly(2), AsGiven, AsAsked, UpToAsked, Nothing}
  <2>1. AnswerLens(h.answer, g, r) = 0..UINT16 - 1
    BY <1>3, FormLens
  <2>2. CASE d.reply = Exactly(SerialLen) \/ d.reply = Exactly(2)
    <3>1. k \in {SerialLen, 2}
      <4>1. /\ AnswerLens(Exactly(SerialLen), h.args + g, r) = {SerialLen}
            /\ AnswerLens(Exactly(2), h.args + g, r) = {2}
        BY ExactlyLens
      <4>. QED
        BY <4>1, <2>2
    <3>2. SerialLen \in 1..RESP_PAYLOAD_MAX_SIZE
      BY LengthAssumption
    <3>. QED
      BY <3>1, <3>2, <2>1, <1>1
  <2>3. CASE d.reply = AsGiven
    <3>1. k = h.args + g
      BY <2>3, FormLens
    <3>. QED
      BY <3>1, <2>1, <2>3, <1>1
  <2>4. CASE d.reply = AsAsked \/ d.reply = UpToAsked
    <3>1. k \in 0..r
      BY <2>4, FormLens
    <3>2. d.reply # AsGiven
      BY <2>4, NotMirrors
    <3>. QED
      BY <3>1, <3>2, <2>1, <2>4, <1>1
  <2>5. CASE d.reply = Nothing
    BY <2>5, FormLens
  <2>. QED
    BY <1>3, <2>2, <2>3, <2>4, <2>5
<1>4. ASSUME NEW n \in {4, 11}, NEW m \in {CAN_MAX_LEN, LIN_MAX_LEN},
             h.answer = AtLeast(n), d.reply = Message(n, m)
      PROVE  k \in AnswerLens(h.answer, g, r)
  <2>1. m \in 0..64 /\ n \in Nat
    BY DEF CAN_MAX_LEN, LIN_MAX_LEN
  <2>2. AnswerLens(AtLeast(n), g, r) = {0} \union n..UINT16 - 1
    BY AtLeastLens
  <2>3. AnswerLens(Message(n, m), h.args + g, r) = {0} \union n..n + m
    BY MessageLens
  <2>4. k \in {0} \union n..n + m
    BY <1>4, <2>3
  <2>5. k \in {0} \union n..UINT16 - 1
    BY <2>1, <2>4, <1>1
  <2>. QED
    BY <1>4, <2>2, <2>5
<1>. QED
  BY <1>2, <1>3, <1>4 DEF RepliesFit

(***************************************************************************)
(* The tables of enumerations: the number that a client sends for a name   *)
(* is the case of the firmware's switch that has this name.                *)
(***************************************************************************)

\* Every table of an enumeration has the names of libjabi in the same order.
Copies(t) == \A e \in DOMAIN t : e \in DOMAIN CppEnums /\ t[e] = CppEnums[e]

\* All of them copy those of device.h, and leave none out.
LEMMA ProtoCopies == \A t \in Proto : Copies(t)
BY DEF Proto, ProtoMetadata, ProtoCan, ProtoI2c, ProtoGpio, ProtoUart, ProtoLin, Copies, CppEnums

LEMMA RustCopies == \A t \in RustEnums : Copies(t)
BY DEF RustEnums, RustMetadataEnums, RustCanEnums, RustI2cEnums, RustGpioEnums, RustUartEnums,
   RustLinEnums, Copies, CppEnums

LEMMA Complete ==
    ASSUME NEW e \in DOMAIN CppEnums
    PROVE  (\E t \in Proto : e \in DOMAIN t) /\ (\E t \in RustEnums : e \in DOMAIN t)
<1>1. \E t \in Proto : e \in DOMAIN t
  BY DEF Proto, ProtoMetadata, ProtoCan, ProtoI2c, ProtoGpio, ProtoUart, ProtoLin, CppEnums
<1>2. \E t \in RustEnums : e \in DOMAIN t
  BY DEF RustEnums, RustMetadataEnums, RustCanEnums, RustI2cEnums, RustGpioEnums, RustUartEnums,
     RustLinEnums, CppEnums
<1>. QED
  BY <1>1, <1>2

\* Numbers are natural.
LEMMA Numbers == \A e \in DOMAIN CppEnums : DOMAIN CppEnums[e] \subseteq Nat
BY DEF CppEnums

\* The number of a value is that of libjabi in every set of tables.
LEMMA NumberRight ==
    ASSUME NEW tables, \A t \in tables : Copies(t),
           NEW v, v.enum \in DOMAIN CppEnums, \E t \in tables : v.enum \in DOMAIN t,
           \E k \in DOMAIN CppEnums[v.enum] : CppEnums[v.enum][k] = v.name
    PROVE  /\ NumberIn(tables, v) + 1 \in DOMAIN CppEnums[v.enum]
           /\ CppEnums[v.enum][NumberIn(tables, v) + 1] = v.name
<1>. DEFINE enums == CHOOSE t \in tables : v.enum \in DOMAIN t
            k == CHOOSE k \in DOMAIN enums[v.enum] : enums[v.enum][k] = v.name
<1>1. enums \in tables /\ v.enum \in DOMAIN enums
  OBVIOUS
<1>2. enums[v.enum] = CppEnums[v.enum]
  BY <1>1 DEF Copies
<1>. HIDE DEF enums
<1>3. k \in DOMAIN CppEnums[v.enum] /\ CppEnums[v.enum][k] = v.name
  BY <1>2
<1>4. NumberIn(tables, v) = k - 1
  BY DEF NumberIn, enums
<1>. HIDE DEF k
<1>5. k \in Nat
  BY <1>3, Numbers
<1>6. NumberIn(tables, v) + 1 = k
  BY <1>4, <1>5
<1>. QED
  BY <1>3, <1>6

\* The cases of a switch are the names in their order; one switch lacks a case.
Prefix(fn, s) ==
    \A e \in DOMAIN s :
        /\ e \in DOMAIN CppEnums
        /\ \A k \in DOMAIN CppEnums[e] :
              IF k \in DOMAIN s[e] THEN s[e][k] = CppEnums[e][k]
              ELSE fn = "lin_write" /\ CppEnums[e][k] = "AUTO"

\* All switches have the cases of device.h; lin_write's lacks AUTO.
LEMMA Prefixes ==
    \A p \in DOMAIN Switches : \A fn \in DOMAIN Switches[p] : Prefix(fn, Switches[p][fn])
<1>1. \A fn \in DOMAIN SwitchMetadata : Prefix(fn, SwitchMetadata[fn])
  BY DEF SwitchMetadata, Prefix, CppEnums
<1>2. \A fn \in DOMAIN SwitchCan : Prefix(fn, SwitchCan[fn])
  BY DEF SwitchCan, Prefix, CppEnums
<1>3. \A fn \in DOMAIN SwitchI2c : Prefix(fn, SwitchI2c[fn])
  BY DEF SwitchI2c, Prefix, CppEnums
<1>4. \A fn \in DOMAIN SwitchGpio : Prefix(fn, SwitchGpio[fn])
  BY DEF SwitchGpio, Prefix, CppEnums
<1>5. \A fn \in DOMAIN SwitchUart : Prefix(fn, SwitchUart[fn])
  BY DEF SwitchUart, Prefix, CppEnums
<1>6. \A fn \in DOMAIN SwitchLin : Prefix(fn, SwitchLin[fn])
  <2>1. Prefix("lin_set_mode", SwitchLinMode)
    BY DEF SwitchLinMode, Prefix, CppEnums
  <2>2. Prefix("lin_set_filter", SwitchLinFilter)
    BY DEF SwitchLinFilter, Prefix, CppEnums
  <2>3. Prefix("lin_write", SwitchLinWrite)
    BY DEF SwitchLinWrite, Prefix, CppEnums
  <2>. QED
    BY <2>1, <2>2, <2>3 DEF SwitchLin
<1>. QED
  BY <1>1, <1>2, <1>3, <1>4, <1>5, <1>6 DEF Switches

\* What is known of the enumerated argument of a call.
LEMMA ValueFacts ==
    ASSUME NEW c \in NamedCalls, c.value # NoValue
    PROVE  /\ c.periph \in DOMAIN Switches
           /\ c.fn \in DOMAIN Switches[c.periph]
           /\ c.value.enum \in DOMAIN Switches[c.periph][c.fn]
           /\ c.value.enum \in DOMAIN CppEnums
           /\ c.value = [enum |-> c.value.enum, name |-> c.value.name]
           /\ \E k \in DOMAIN CppEnums[c.value.enum] : CppEnums[c.value.enum][k] = c.value.name
<1>1. PICK d \in Calls :
          \E v \in IF Enumerated(d) THEN UNION {ValuesOf(e) : e \in DOMAIN Switches[d.periph][d.fn]}
                   ELSE {NoValue} : c = With(d, v)
  BY DEF NamedCalls
<1>2. PICK v \in IF Enumerated(d) THEN UNION {ValuesOf(e) : e \in DOMAIN Switches[d.periph][d.fn]}
                 ELSE {NoValue} : c = With(d, v)
  BY <1>1
<1>3. c.periph = d.periph /\ c.fn = d.fn /\ c.value = v
  BY <1>2 DEF With
<1>4. Enumerated(d)
  BY <1>2, <1>3
<1>5. PICK e \in DOMAIN Switches[d.periph][d.fn] : v \in ValuesOf(e)
  BY <1>2, <1>4
<1>6. PICK k \in DOMAIN CppEnums[e] : v = [enum |-> e, name |-> CppEnums[e][k]]
  BY <1>5 DEF ValuesOf
<1>7. v.enum = e /\ v.name = CppEnums[e][k]
  BY <1>6
<1>8. e \in DOMAIN CppEnums
  BY <1>4, <1>5, Prefixes DEF Prefix, Enumerated
<1>. QED
  BY <1>3, <1>4, <1>5, <1>6, <1>7, <1>8 DEF Enumerated

\* The bindings' slip.
Slip(app, v) == app = "python" /\ v = [enum |-> "UARTStop", name |-> "B1_5"]

\* The number a client sends is that of the name, but for the slip.
LEMMA NumberOfName ==
    ASSUME NEW c \in NamedCalls, c.value # NoValue, NEW app \in Clients
    PROVE  /\ NumberSent(app, c.value) + 1 \in DOMAIN CppEnums[c.value.enum]
           /\ \/ CppEnums[c.value.enum][NumberSent(app, c.value) + 1] = c.value.name
              \/ Slip(app, c.value) /\ c.value.enum = "UARTStop"
<1>. DEFINE v == c.value
<1>1. /\ v.enum \in DOMAIN CppEnums
      /\ v = [enum |-> v.enum, name |-> v.name]
      /\ \E k \in DOMAIN CppEnums[v.enum] : CppEnums[v.enum][k] = v.name
  BY ValueFacts
<1>. HIDE DEF v
<1>2. \A t \in {CppEnums} : Copies(t)
  BY DEF Copies
<1>3. /\ NumberIn({CppEnums}, v) + 1 \in DOMAIN CppEnums[v.enum]
      /\ CppEnums[v.enum][NumberIn({CppEnums}, v) + 1] = v.name
  BY <1>1, <1>2, NumberRight
<1>4. CASE app = "rust"
  <2>1. NumberSent(app, v) = NumberIn(RustEnums, v)
    BY <1>4 DEF NumberSent
  <2>. QED
    BY <1>1, <2>1, NumberRight, RustCopies, Complete DEF v
<1>5. CASE app = "cpp"
  <2>1. NumberSent(app, v) = NumberIn({CppEnums}, v)
    BY <1>5 DEF NumberSent
  <2>. QED
    BY <1>3, <2>1 DEF v
<1>6. CASE app = "python"
  <2>1. NumberSent(app, v) = NumberIn({CppEnums}, Python(v))
    BY <1>6 DEF NumberSent
  <2>2. CASE Slip(app, v)
    <3>1. Python(v) = [enum |-> "UARTStop", name |-> "B0_5"]
      BY <2>2 DEF Python, Slip
    <3>. DEFINE w == Python(v)
    <3>2. w.enum = "UARTStop" /\ w.name = "B0_5"
      BY <3>1
    <3>3. /\ "UARTStop" \in DOMAIN CppEnums
          /\ 1 \in DOMAIN CppEnums["UARTStop"] /\ CppEnums["UARTStop"][1] = "B0_5"
      BY DEF CppEnums
    <3>. HIDE DEF w
    <3>4. NumberIn({CppEnums}, w) + 1 \in DOMAIN CppEnums[w.enum]
      BY <3>2, <3>3, <1>2, NumberRight
    <3>5. v.enum = "UARTStop"
      BY <2>2 DEF Slip
    <3>. QED
      BY <2>1, <2>2, <3>2, <3>4, <3>5 DEF v, w
  <2>3. CASE ~Slip(app, v)
    <3>1. Python(v) = v
      BY <1>6, <2>3 DEF Python, Slip
    <3>. QED
      BY <1>3, <2>1, <3>1 DEF v
  <2>. QED
    BY <2>2, <2>3
<1>7. CASE app = "grpc"
  <2>1. NumberSent(app, v) = NumberIn({CppEnums}, Grpc(v))
    BY <1>7 DEF NumberSent
  <2>2. CppEnums[v.enum][NumberIn(Proto, v) + 1] = v.name
    BY <1>1, NumberRight, ProtoCopies, Complete
  <2>3. Grpc(v) = [v EXCEPT !.name = v.name]
    BY <2>2 DEF Grpc
  <2>4. [v EXCEPT !.name = v.name] = v
    BY <1>1
  <2>. QED
    BY <1>3, <2>1, <2>3, <2>4 DEF v
<1>. QED
  BY <1>4, <1>5, <1>6, <1>7 DEF Clients

(***************************************************************************)
(* What the tables make of one call.                                       *)
(***************************************************************************)

\* The number of bytes asked for, and what uint16_t makes of a small one.
LEMMA ReadFacts == ASSUME NEW c \in NamedCalls PROVE c.read \in Nat
<1>1. PICK d \in Calls : \E v : c = With(d, v)
  BY DEF NamedCalls
<1>2. PICK p \in DOMAIN Host : \E f \in DOMAIN Host[p] : d \in CallsOf(p, f)
  BY <1>1 DEF Calls
<1>3. d.read \in Lengths \union {0}
  BY <1>2 DEF CallsOf
<1>4. c.read = d.read
  BY <1>1 DEF With
<1>. QED
  BY <1>3, <1>4, LengthAssumption

LEMMA SmallNumber == ASSUME NEW n \in Nat, n < UINT16 PROVE n % UINT16 = n
<1>1. UINT16 \in Nat \ {0}
  BY DEF UINT16
<1>2. n \in 0..UINT16 - 1 /\ n = UINT16 * 0 + n
  BY <1>1, Z3
<1>. QED
  BY <1>1, <1>2, Rest

\* What an answer says of its request.
LEMMA AnswerKinds ==
    ASSUME NEW c, NEW lib, NEW a \in Answers(lib, c)
    PROVE  LET d     == Device[c.periph][c.fn]
               n     == PayloadLen(lib, c)
               asked == c.read % UINT16
           IN  \/ n \notin d.lens /\ Answers(lib, c) = {Error(FormatErr)}
               \/ n \in d.lens /\ a.retcode = OtherErr
               \/ n \in d.lens /\ a.retcode = InvalidArgsErr /\ d.reply \in {AsGiven, AsAsked, UpToAsked}
               \/ /\ n \in d.lens
                  /\ a.retcode = NoErr
                  /\ a.len \in AnswerLens(d.reply, n, asked)
                  /\ d.reply \in {AsGiven, AsAsked, UpToAsked} =>
                        ~((IF d.reply = AsGiven THEN n ELSE asked) > RESP_PAYLOAD_MAX_SIZE)
<1>. DEFINE d == Device[c.periph][c.fn]
            n == PayloadLen(lib, c)
            asked == c.read % UINT16
            varies == d.reply \in {AsGiven, AsAsked, UpToAsked}
            tooLong == (IF d.reply = AsGiven THEN n ELSE asked) > RESP_PAYLOAD_MAX_SIZE
            lens == AnswerLens(d.reply, n, asked)
<1>1. Answers(lib, c) = IF n \notin d.lens THEN {Error(FormatErr)}
                        ELSE IF varies /\ tooLong THEN {Error(InvalidArgsErr)}
                             ELSE {Answer(NoErr, k) : k \in lens} \union {Error(OtherErr)}
  BY DEF Answers
<1>. HIDE DEF d, n, asked, lens, varies, tooLong
<1>2. CASE n \notin d.lens
  BY <1>1, <1>2 DEF d, n
<1>3. CASE n \in d.lens /\ varies /\ tooLong
  <2>1. a = Error(InvalidArgsErr)
    BY <1>1, <1>3
  <2>2. a.retcode = InvalidArgsErr
    BY <2>1 DEF Error, Answer
  <2>. QED
    BY <1>3, <2>2 DEF d, n, varies
<1>4. CASE n \in d.lens /\ ~(varies /\ tooLong)
  <2>1. a \in {Answer(NoErr, k) : k \in lens} \union {Error(OtherErr)}
    BY <1>1, <1>4
  <2>2. CASE a = Error(OtherErr)
    <3>1. a.retcode = OtherErr
      BY <2>2 DEF Error, Answer
    <3>. QED
      BY <1>4, <3>1 DEF d, n
  <2>3. CASE a # Error(OtherErr)
    <3>1. PICK k \in lens : a = Answer(NoErr, k)
      BY <2>1, <2>3
    <3>2. a.retcode = NoErr /\ a.len = k
      BY <3>1 DEF Answer
    <3>3. a.len \in lens
      BY <3>2
    <3>. QED
      BY <1>4, <3>2, <3>3 DEF d, n, varies, tooLong, lens, asked
  <2>. QED
    BY <2>2, <2>3
<1>. QED
  BY <1>2, <1>3, <1>4

\* The return codes differ.
LEMMA Codes == /\ FormatErr # NoErr /\ FormatErr # InvalidArgsErr /\ FormatErr # OtherErr
               /\ NoErr # InvalidArgsErr /\ NoErr # OtherErr /\ InvalidArgsErr # OtherErr
BY DEF FormatErr, NoErr, InvalidArgsErr, OtherErr

\* What libraries and firmware make of lengths fits together.
LEMMA AnswersAgree ==
    ASSUME NEW c \in NamedCalls, NEW app, ~TooLong(Library(app), c, REQ_PAYLOAD_MAX_SIZE),
           NEW a \in Answers(Library(app), c)
    PROVE  /\ a.retcode = FormatErr => c.fn = "lin_write" /\ c.data = 0
           /\ a.retcode = NoErr /\ c.read < UINT16 => Accepts(Library(app), c, a.len)
<1>. DEFINE lib == Library(app)
            d == Device[c.periph][c.fn]
            h == HostFn(lib, c)
            n == PayloadLen(lib, c)
            asked == c.read % UINT16
<1>1. a.retcode = FormatErr => n \notin d.lens
  BY AnswerKinds, Codes
<1>2. n \in d.lens \/ (c.fn = "lin_write" /\ c.data = 0)
  BY LensAgree
<1>3. ASSUME a.retcode = NoErr, c.read < UINT16
      PROVE  Accepts(lib, c, a.len)
  <2>1. /\ a.len \in AnswerLens(d.reply, n, asked)
        /\ d.reply \in {AsGiven, AsAsked, UpToAsked} =>
              ~((IF d.reply = AsGiven THEN n ELSE asked) > RESP_PAYLOAD_MAX_SIZE)
    <3>1. CASE n \notin d.lens
      <4>1. a = Error(FormatErr)
        BY <3>1, AnswerKinds
      <4>2. a.retcode = FormatErr
        BY <4>1 DEF Error, Answer
      <4>. QED
        BY <4>2, <1>3, Codes
    <3>2. CASE n \in d.lens
      BY <3>2, <1>3, AnswerKinds, Codes
    <3>. QED
      BY <3>1, <3>2
  <2>2. asked = c.read /\ c.read \in Nat
    BY <1>3, ReadFacts, SmallNumber
  <2>3. n = h.args + c.data /\ c.data \in Nat
    BY CallFacts DEF PayloadLen
  <2>4. h.args \in Nat
    <3>1. h.args \in 0..9
      BY CallFacts, HostFits, RustFits DEF Fits, HostFn, Library
    <3>. QED
      BY <3>1
  <2>5. RepliesFit(h, d)
    BY CallFacts, LibraryReplies DEF HostFn, Library
  <2>6. RESP_PAYLOAD_MAX_SIZE \in Nat
    <3>1. UINT16 \in Nat
      BY DEF UINT16
    <3>. QED
      BY <3>1, LengthAssumption
  <2>7. d.reply \in {AsGiven, AsAsked, UpToAsked} =>
           (IF d.reply = AsGiven THEN h.args + c.data ELSE c.read) <= RESP_PAYLOAD_MAX_SIZE
    <3>. HIDE DEF d, h, n, asked
    <3>. QED
      BY <2>1, <2>2, <2>3, <2>4, <2>6
  <2>8. a.len \in AnswerLens(d.reply, h.args + c.data, c.read)
    BY <2>1, <2>2, <2>3
  <2>. HIDE DEF d, h, n, asked, lib
  <2>9. a.len \in AnswerLens(h.answer, c.data, c.read)
    BY <2>2, <2>3, <2>4, <2>5, <2>7, <2>8, LengthAccepted
  <2>. QED
    BY <2>9 DEF Accepts, h
<1>. QED
  BY <1>1, <1>2, <1>3

\* Functions with an enumerated argument answer with as many bytes each time.
LEMMA FixedReplies ==
    \A p \in DOMAIN Switches : \A f \in DOMAIN Switches[p] :
        Device[p][f].reply \notin {AsGiven, AsAsked, UpToAsked}
<1>1. \A n : Exactly(n) \notin {AsGiven, AsAsked, UpToAsked}
  BY DEF Exactly, AsGiven, AsAsked, UpToAsked, Form
<1>2. \A f \in DOMAIN SwitchMetadata : DeviceMetadata[f].reply \notin {AsGiven, AsAsked, UpToAsked}
  BY <1>1 DEF SwitchMetadata, DeviceMetadata, Takes
<1>3. \A f \in DOMAIN SwitchCan : DeviceCan[f].reply \notin {AsGiven, AsAsked, UpToAsked}
  BY <1>1 DEF SwitchCan, DeviceCan, Takes
<1>4. \A f \in DOMAIN SwitchI2c : DeviceI2c[f].reply \notin {AsGiven, AsAsked, UpToAsked}
  BY <1>1 DEF SwitchI2c, DeviceI2c, Takes
<1>5. \A f \in DOMAIN SwitchGpio : DeviceGpio[f].reply \notin {AsGiven, AsAsked, UpToAsked}
  BY <1>1 DEF SwitchGpio, DeviceGpio, Takes
<1>6. \A f \in DOMAIN SwitchUart : DeviceUart[f].reply \notin {AsGiven, AsAsked, UpToAsked}
  BY <1>1 DEF SwitchUart, DeviceUart, Takes
<1>7. \A f \in DOMAIN SwitchLin : DeviceLin[f].reply \notin {AsGiven, AsAsked, UpToAsked}
  BY <1>1 DEF SwitchLin, DeviceLin, Takes
<1>. QED
  BY <1>2, <1>3, <1>4, <1>5, <1>6, <1>7 DEF Switches, Device

\* A reply that both ends understand: FormatsAgree and ValuesAgree of one reply.
GoodReply(app, c, a) ==
    /\ a.retcode = FormatErr => c.fn = "lin_write" /\ c.data = 0
    /\ a.retcode = NoErr /\ c.read < UINT16 => Accepts(Library(app), c, a.len)
    /\ c.value # NoValue /\ a.retcode = NoErr => a.meant = c.value.name \/ Slip(app, c.value)
    /\ c.value # NoValue /\ a.retcode = InvalidArgsErr => c.fn = "lin_write" /\ c.value.name = "AUTO"

\* The switch takes the number for the name, or refuses a checksum.
LEMMA ValueArrives ==
    ASSUME NEW c \in NamedCalls, c.value # NoValue, NEW app \in Clients
    PROVE  LET k == NumberSent(app, c.value) + 1
           IN  IF k \in DOMAIN Cases(c) THEN Cases(c)[k] = c.value.name \/ Slip(app, c.value)
               ELSE c.fn = "lin_write" /\ c.value.name = "AUTO"
<1>. DEFINE k == NumberSent(app, c.value) + 1
            e == c.value.enum
<1>1. /\ k \in DOMAIN CppEnums[e]
      /\ CppEnums[e][k] = c.value.name \/ (Slip(app, c.value) /\ e = "UARTStop")
  BY NumberOfName
<1>2. /\ c.periph \in DOMAIN Switches
      /\ c.fn \in DOMAIN Switches[c.periph]
      /\ e \in DOMAIN Switches[c.periph][c.fn]
  BY ValueFacts
<1>3. Prefix(c.fn, Switches[c.periph][c.fn])
  BY <1>2, Prefixes
<1>. HIDE DEF k, e
<1>4. IF k \in DOMAIN Switches[c.periph][c.fn][e]
      THEN Switches[c.periph][c.fn][e][k] = CppEnums[e][k]
      ELSE c.fn = "lin_write" /\ CppEnums[e][k] = "AUTO"
  BY <1>1, <1>2, <1>3 DEF Prefix
<1>5. Cases(c) = Switches[c.periph][c.fn][e]
  BY DEF Cases, e
<1>6. CASE k \in DOMAIN Cases(c)
  BY <1>1, <1>4, <1>5, <1>6 DEF k
<1>7. CASE k \notin DOMAIN Cases(c)
  <2>1. c.fn = "lin_write" /\ CppEnums[e][k] = "AUTO"
    BY <1>4, <1>5, <1>7
  <2>2. e # "UARTStop"
    BY <2>1, <1>1 DEF CppEnums
  <2>. QED
    BY <1>1, <1>7, <2>1, <2>2 DEF k
<1>. QED
  BY <1>6, <1>7 DEF k

\* A reply is an answer with a meaning.
LEMMA MeaningFields ==
    ASSUME NEW a, NEW name
    PROVE  /\ Meaning(a, name).retcode = a.retcode
           /\ Meaning(a, name).len = a.len
           /\ Meaning(a, name).own = TRUE
           /\ a.retcode = NoErr => Meaning(a, name).meant = name
BY DEF Meaning

\* Every reply to a call is one both ends understand.
LEMMA RepliesAgree ==
    ASSUME NEW app \in Clients, NEW c \in NamedCalls, ~TooLong(Library(app), c, REQ_PAYLOAD_MAX_SIZE),
           NEW rep \in Replies(app, c)
    PROVE  GoodReply(app, c, rep)
<1>. DEFINE answers == Answers(Library(app), c)
            case == NumberSent(app, c.value) + 1
<1>1. CASE c.value = NoValue \/ Error(FormatErr) \in answers
  <2>1. PICK a \in answers : rep = Meaning(a, "none")
    BY <1>1 DEF Replies
  <2>2. rep.retcode = a.retcode /\ rep.len = a.len
    BY <2>1, MeaningFields
  <2>3. /\ a.retcode = FormatErr => c.fn = "lin_write" /\ c.data = 0
        /\ a.retcode = NoErr /\ c.read < UINT16 => Accepts(Library(app), c, a.len)
    BY AnswersAgree
  <2>4. CASE c.value = NoValue
    BY <2>2, <2>3, <2>4 DEF GoodReply
  <2>5. CASE Error(FormatErr) \in answers
    <3>1. Error(FormatErr).retcode = FormatErr
      BY DEF Error, Answer
    <3>2. answers = {Error(FormatErr)}
      BY <2>5, <3>1, AnswerKinds, Codes
    <3>3. rep.retcode = FormatErr
      BY <2>2, <3>1, <3>2
    <3>. QED
      BY <2>2, <2>3, <3>3, Codes DEF GoodReply
  <2>. QED
    BY <1>1, <2>4, <2>5
<1>2. CASE c.value # NoValue /\ Error(FormatErr) \notin answers /\ case \in DOMAIN Cases(c)
  <2>1. PICK a \in answers : rep = Meaning(a, Cases(c)[case])
    BY <1>2 DEF Replies
  <2>2. /\ rep.retcode = a.retcode
        /\ rep.len = a.len
        /\ a.retcode = NoErr => rep.meant = Cases(c)[case]
    BY <2>1, MeaningFields
  <2>3. /\ a.retcode = FormatErr => c.fn = "lin_write" /\ c.data = 0
        /\ a.retcode = NoErr /\ c.read < UINT16 => Accepts(Library(app), c, a.len)
    BY AnswersAgree
  <2>4. Device[c.periph][c.fn].reply \notin {AsGiven, AsAsked, UpToAsked}
    BY <1>2, ValueFacts, FixedReplies
  <2>5. a.retcode # InvalidArgsErr
    <3>1. Error(FormatErr) \in {Error(FormatErr)}
      OBVIOUS
    <3>. QED
      BY <1>2, <2>4, <3>1, AnswerKinds, Codes
  <2>6. Cases(c)[case] = c.value.name \/ Slip(app, c.value)
    BY <1>2, ValueArrives
  <2>. HIDE DEF case, answers
  <2>. QED
    BY <2>2, <2>3, <2>5, <2>6 DEF GoodReply
<1>3. CASE c.value # NoValue /\ Error(FormatErr) \notin answers /\ case \notin DOMAIN Cases(c)
  <2>1. PICK rc \in {InvalidArgsErr, OtherErr} : rep = Meaning(Error(rc), "none")
    BY <1>3 DEF Replies
  <2>2. Error(rc).retcode = rc
    BY DEF Error, Answer
  <2>3. rep.retcode = rc
    BY <2>1, <2>2, MeaningFields
  <2>4. c.fn = "lin_write" /\ c.value.name = "AUTO"
    BY <1>3, ValueArrives
  <2>. QED
    BY <2>1, <2>3, <2>4, Codes DEF GoodReply
<1>. QED
  BY <1>1, <1>2, <1>3

\* The call in progress is not too long, and an answer to it is a good one.
AgreeInv == /\ client \in Clients
            /\ pc # "idle" => call \in NamedCalls /\ ~TooLong(Lib, call, REQ_PAYLOAD_MAX_SIZE)
            /\ loaded /\ answer.own => GoodReply(client, call, answer)

\* It holds at the start, and every step keeps it.
LEMMA AgreeInit == Init => AgreeInv
BY DEF Init, AgreeInv

\* The probes of list_devices are short.
LEMMA ProbeShort ==
    ASSUME NEW fn \in {"req_max_size", "resp_max_size"}, NEW app
    PROVE  ~TooLong(Library(app), Probe(fn), REQ_PAYLOAD_MAX_SIZE)
<1>1. /\ HostMetadata[fn].cap = 0 /\ ~HostMetadata[fn].data
      /\ RustMetadata[fn].cap = 0 /\ ~RustMetadata[fn].data
  BY DEF HostMetadata, RustMetadata, Call
<1>2. Probe(fn).periph = "metadata" /\ Probe(fn).fn = fn
  BY DEF Probe, With
<1>3. Host["metadata"] = HostMetadata /\ Rust["metadata"] = RustMetadata
  BY DEF Host, Rust
<1>4. HostFn(Library(app), Probe(fn)) \in {HostMetadata[fn], RustMetadata[fn]}
  BY <1>2, <1>3 DEF HostFn, Library
<1>5. HostFn(Library(app), Probe(fn)).cap = 0 /\ ~HostFn(Library(app), Probe(fn)).data
  BY <1>1, <1>4
<1>. QED
  BY <1>5 DEF TooLong

LEMMA AgreeStep == LinkInv /\ LinkInv' /\ AgreeInv /\ [Next]_vars => AgreeInv'
<1>. SUFFICES ASSUME LinkInv, LinkInv', AgreeInv, [Next]_vars PROVE AgreeInv'
  OBVIOUS
<1>1. client' = client
  BY DEF vars, host, firmware, Next, BeginProbe, BeginCall, Begin, Packet, EmptyPacket, OutTimeout, Respond,
     RespondFails, Receive, ReceiveEmpty, InTimeout, ListDevices, Succeed, Fail
<1>2. client' \in Clients
  BY <1>1 DEF AgreeInv
<1>3. Lib' = Lib
  BY <1>1 DEF Lib
<1>4. ASSUME pc' = "idle", answer'.own = FALSE PROVE AgreeInv'
  BY <1>2, <1>4 DEF AgreeInv
<1>5. ASSUME UNCHANGED <<pc, call, loaded, answer>> PROVE AgreeInv'
  BY <1>1, <1>2, <1>3, <1>5 DEF AgreeInv
<1>6. CASE BeginProbe
  <2>1. answer'.own = FALSE
    BY <1>6 DEF BeginProbe, Begin, firmware, LinkInv, Serving, Types
  <2>2. call' \in NamedCalls /\ ~TooLong(Lib, call', REQ_PAYLOAD_MAX_SIZE)
    BY <1>6, Probes, ProbeShort DEF BeginProbe, Begin, Lib
  <2>. QED
    BY <1>2, <1>3, <2>1, <2>2 DEF AgreeInv
<1>7. CASE BeginCall
  <2>1. answer'.own = FALSE
    BY <1>7 DEF BeginCall, Begin, firmware, LinkInv, Serving, Types
  <2>2. call' \in NamedCalls /\ ~TooLong(Lib, call', REQ_PAYLOAD_MAX_SIZE)
    BY <1>7 DEF BeginCall, Begin, LinkInv, Sizes
  <2>. QED
    BY <1>2, <1>3, <2>1, <2>2 DEF AgreeInv
<1>8. CASE Packet
  <2>1. UNCHANGED <<call, loaded, answer>> /\ pc = "out"
    BY <1>8 DEF Packet
  <2>. QED
    BY <1>1, <1>2, <1>3, <2>1 DEF AgreeInv
<1>9. CASE EmptyPacket
  <2>1. UNCHANGED <<call, loaded, answer>> /\ pc = "zlp"
    BY <1>9 DEF EmptyPacket
  <2>. QED
    BY <1>1, <1>2, <1>3, <2>1 DEF AgreeInv
<1>10. CASE Respond
  <2>1. UNCHANGED <<pc, call>>
    BY <1>10 DEF Respond, host
  <2>2. CASE mine
    <3>1. answer' \in Replies(client, call)
      BY <1>10, <2>2 DEF Respond
    <3>2. call \in NamedCalls /\ ~TooLong(Lib, call, REQ_PAYLOAD_MAX_SIZE)
      BY <2>2 DEF LinkInv, Serving, AgreeInv
    <3>3. GoodReply(client, call, answer')
      BY <3>1, <3>2, RepliesAgree DEF AgreeInv, Lib
    <3>. QED
      BY <1>1, <1>2, <1>3, <2>1, <3>2, <3>3 DEF AgreeInv
  <2>3. CASE ~mine
    <3>1. answer'.own = FALSE
      BY <1>10, <2>3 DEF Respond, NoAnswer
    <3>. QED
      BY <1>2, <1>3, <2>1, <3>1 DEF AgreeInv
  <2>. QED
    BY <2>2, <2>3
<1>11. CASE OutTimeout \/ Receive \/ ReceiveEmpty \/ InTimeout
  <2>1. Over
    BY <1>11 DEF OutTimeout, Receive, ReceiveEmpty, InTimeout, Succeed, Fail
  <2>. QED
    BY <2>1, <1>4 DEF Over, NoAnswer
<1>12. CASE RespondFails \/ ListDevices \/ UNCHANGED vars
  BY <1>5, <1>12 DEF RespondFails, ListDevices, vars, host, firmware
<1>. QED
  BY <1>6, <1>7, <1>8, <1>9, <1>10, <1>11, <1>12 DEF Next

(***************************************************************************)
(* Clients and firmware agree on every call: the firmware understands each *)
(* request a library lets through, the library what it answers, and names  *)
(* of enumerated arguments mean what they say, but for the exceptions that *)
(* ApiAgrees names; for all lengths of data.                               *)
(***************************************************************************)
THEOREM Agreement == Spec => []ApiAgrees
<1>1. Init => AgreeInv
  BY AgreeInit
<1>2. LinkInv /\ LinkInv' /\ AgreeInv /\ [Next]_vars => AgreeInv'
  BY AgreeStep
<1>3. AgreeInv => ApiAgrees
  <2>. SUFFICES ASSUME AgreeInv, loaded, answer.own
                PROVE  ApiAgrees
    BY DEF ApiAgrees, FormatsAgree, ValuesAgree
  <2>1. GoodReply(client, call, answer)
    BY DEF AgreeInv
  <2>2. FormatsAgree
    BY <2>1 DEF GoodReply, FormatsAgree, Lib
  <2>3. ValuesAgree
    BY <2>1 DEF GoodReply, ValuesAgree, Slip, BadName, Refusable
  <2>. QED
    BY <2>2, <2>3 DEF ApiAgrees
<1>. QED
  BY <1>1, <1>2, <1>3, LinkInvariant, PTL DEF Spec

(***************************************************************************)
(* Types: calls stay calls, and what goes over the link fits its buffers.  *)
(***************************************************************************)

ReplyType == [retcode : {NoErr, FormatErr, InvalidArgsErr, OtherErr},
              len : 0..RESP_PAYLOAD_MAX_SIZE, own : BOOLEAN, meant : Names]

\* A switch has no cases beyond the names of its enumeration.
LEMMA CasesAreValues ==
    \A p \in DOMAIN Switches : \A f \in DOMAIN Switches[p] : \A e \in DOMAIN Switches[p][f] :
        \A k \in DOMAIN Switches[p][f][e] :
            k \in DOMAIN CppEnums[e] /\ Switches[p][f][e][k] = CppEnums[e][k]
<1>1. /\ \A e \in DOMAIN SwitchLinMode : \A k \in DOMAIN SwitchLinMode[e] :
            k \in DOMAIN CppEnums[e] /\ SwitchLinMode[e][k] = CppEnums[e][k]
      /\ \A e \in DOMAIN SwitchLinFilter : \A k \in DOMAIN SwitchLinFilter[e] :
            k \in DOMAIN CppEnums[e] /\ SwitchLinFilter[e][k] = CppEnums[e][k]
      /\ \A e \in DOMAIN SwitchLinWrite : \A k \in DOMAIN SwitchLinWrite[e] :
            k \in DOMAIN CppEnums[e] /\ SwitchLinWrite[e][k] = CppEnums[e][k]
  BY DEF SwitchLinMode, SwitchLinFilter, SwitchLinWrite, CppEnums
<1>2. \A f \in DOMAIN SwitchMetadata : \A e \in DOMAIN SwitchMetadata[f] :
         \A k \in DOMAIN SwitchMetadata[f][e] :
            k \in DOMAIN CppEnums[e] /\ SwitchMetadata[f][e][k] = CppEnums[e][k]
  BY DEF SwitchMetadata, CppEnums
<1>3. \A f \in DOMAIN SwitchCan : \A e \in DOMAIN SwitchCan[f] :
         \A k \in DOMAIN SwitchCan[f][e] :
            k \in DOMAIN CppEnums[e] /\ SwitchCan[f][e][k] = CppEnums[e][k]
  BY DEF SwitchCan, CppEnums
<1>4. \A f \in DOMAIN SwitchI2c : \A e \in DOMAIN SwitchI2c[f] :
         \A k \in DOMAIN SwitchI2c[f][e] :
            k \in DOMAIN CppEnums[e] /\ SwitchI2c[f][e][k] = CppEnums[e][k]
  BY DEF SwitchI2c, CppEnums
<1>5. \A f \in DOMAIN SwitchGpio : \A e \in DOMAIN SwitchGpio[f] :
         \A k \in DOMAIN SwitchGpio[f][e] :
            k \in DOMAIN CppEnums[e] /\ SwitchGpio[f][e][k] = CppEnums[e][k]
  BY DEF SwitchGpio, CppEnums
<1>6. \A f \in DOMAIN SwitchUart : \A e \in DOMAIN SwitchUart[f] :
         \A k \in DOMAIN SwitchUart[f][e] :
            k \in DOMAIN CppEnums[e] /\ SwitchUart[f][e][k] = CppEnums[e][k]
  BY DEF SwitchUart, CppEnums
<1>7. \A f \in DOMAIN SwitchLin : \A e \in DOMAIN SwitchLin[f] :
         \A k \in DOMAIN SwitchLin[f][e] :
            k \in DOMAIN CppEnums[e] /\ SwitchLin[f][e][k] = CppEnums[e][k]
  BY <1>1 DEF SwitchLin
<1>. QED
  BY <1>1, <1>2, <1>3, <1>4, <1>5, <1>6, <1>7 DEF Switches

\* What a function takes a value for is a name.
LEMMA NoneIsName == "none" \in Names
BY DEF Names

LEMMA CaseNames ==
    ASSUME NEW c \in NamedCalls, c.value # NoValue, NEW k \in DOMAIN Cases(c)
    PROVE  Cases(c)[k] \in Names
<1>. DEFINE e == c.value.enum
<1>1. /\ c.periph \in DOMAIN Switches
      /\ c.fn \in DOMAIN Switches[c.periph]
      /\ e \in DOMAIN Switches[c.periph][c.fn]
      /\ e \in DOMAIN CppEnums
  BY ValueFacts
<1>2. Cases(c) = Switches[c.periph][c.fn][e]
  BY DEF Cases
<1>3. k \in DOMAIN CppEnums[e] /\ Cases(c)[k] = CppEnums[e][k]
  BY <1>1, <1>2, CasesAreValues
<1>. DEFINE v == [enum |-> e, name |-> CppEnums[e][k]]
<1>4. v \in ValuesOf(e) /\ v.name = CppEnums[e][k]
  BY <1>3 DEF ValuesOf
<1>. HIDE DEF e, v
<1>. QED
  BY <1>1, <1>3, <1>4 DEF Names

\* What a call is reset to is a call.
LEMMA NoCallIsCall == NoCall \in NamedCalls
<1>. DEFINE c == [periph |-> "metadata", fn |-> "serial", data |-> 0, read |-> 0]
<1>1. /\ "metadata" \in DOMAIN Host
      /\ "serial" \in DOMAIN Host["metadata"]
      /\ Host["metadata"] = HostMetadata
  BY DEF Host, HostMetadata
<1>2. ~HostMetadata["serial"].data
  BY DEF HostMetadata, Call
<1>3. c \in CallsOf("metadata", "serial")
  <2>1. "serial" \notin Reads
    BY DEF Reads
  <2>. QED
    BY <1>1, <1>2, <2>1 DEF CallsOf
<1>4. c \in Calls
  BY <1>1, <1>3 DEF Calls
<1>5. ~Enumerated(c)
  BY DEF Enumerated, Switches, SwitchMetadata
<1>6. With(c, NoValue) \in NamedCalls
  BY <1>4, <1>5 DEF NamedCalls
<1>. QED
  BY <1>6 DEF NoCall, Probe

\* The forms of the device's answers.
LEMMA DeviceForms ==
    \A p \in DOMAIN Host : \A f \in DOMAIN Host[p] :
        LET r == Device[p][f].reply
        IN  \/ r \in {AsGiven, AsAsked, UpToAsked, Nothing}
            \/ \E k \in 0..4 : r = Exactly(k)
            \/ r = Exactly(SerialLen)
            \/ \E k \in {4, 11}, m \in {8, 64} : r = Message(k, m)
<1>. DEFINE Known(r) == \/ r \in {AsGiven, AsAsked, UpToAsked, Nothing}
                        \/ \E k \in 0..4 : r = Exactly(k)
                        \/ r = Exactly(SerialLen)
                        \/ \E k \in {4, 11}, m \in {8, 64} : r = Message(k, m)
<1>1. /\ \A k \in 0..4 : Known(Exactly(k))
      /\ Known(Exactly(SerialLen))
      /\ \A k \in {4, 11}, m \in {8, 64} : Known(Message(k, m))
      /\ Known(AsGiven) /\ Known(AsAsked) /\ Known(UpToAsked) /\ Known(Nothing)
  OBVIOUS
<1>. HIDE DEF Known
<1>2. \A f \in DOMAIN HostI2c : Known(DeviceI2c[f].reply)
  BY <1>1 DEF HostI2c, DeviceI2c, Takes
<1>3. \A f \in DOMAIN HostGpio : Known(DeviceGpio[f].reply)
  BY <1>1 DEF HostGpio, DeviceGpio, Takes
<1>4. \A f \in DOMAIN HostPwm : Known(DevicePwm[f].reply)
  BY <1>1 DEF HostPwm, DevicePwm, Takes
<1>5. \A f \in DOMAIN HostAdc : Known(DeviceAdc[f].reply)
  BY <1>1 DEF HostAdc, DeviceAdc, Takes
<1>6. \A f \in DOMAIN HostDac : Known(DeviceDac[f].reply)
  BY <1>1 DEF HostDac, DeviceDac, Takes
<1>7. \A f \in DOMAIN HostSpi : Known(DeviceSpi[f].reply)
  BY <1>1 DEF HostSpi, DeviceSpi, Takes
<1>8. \A f \in DOMAIN HostUart : Known(DeviceUart[f].reply)
  BY <1>1 DEF HostUart, DeviceUart, Takes
<1>9. \A f \in DOMAIN HostCan : Known(DeviceCan[f].reply)
  BY <1>1 DEF HostCan, DeviceCan, Takes, CAN_MAX_LEN
<1>10. \A f \in DOMAIN HostLin : Known(DeviceLin[f].reply)
  BY <1>1 DEF HostLin, DeviceLin, Takes, LIN_MAX_LEN
<1>11. \A f \in DOMAIN HostMetadata : Known(DeviceMetadata[f].reply)
  BY <1>1 DEF HostMetadata, DeviceMetadata, Takes
<1>12. \A p \in DOMAIN Host : \A f \in DOMAIN Host[p] : Known(Device[p][f].reply)
  BY <1>2, <1>3, <1>4, <1>5, <1>6, <1>7, <1>8, <1>9, <1>10, <1>11 DEF Host, Device
<1>. QED
  BY <1>12 DEF Known

\* The buffer of answers has a size.
LEMMA RespSize == RESP_PAYLOAD_MAX_SIZE \in Nat /\ 0 \in 0..RESP_PAYLOAD_MAX_SIZE
<1>1. UINT16 \in Nat
  BY DEF UINT16
<1>. QED
  BY <1>1, LengthAssumption

\* No answer is longer than RESP_PAYLOAD_MAX_SIZE.
LEMMA AnswersFit ==
    ASSUME NEW c \in NamedCalls, NEW app, ~TooLong(Library(app), c, REQ_PAYLOAD_MAX_SIZE),
           NEW a \in Answers(Library(app), c)
    PROVE  /\ a.retcode \in {NoErr, FormatErr, InvalidArgsErr, OtherErr}
           /\ a.len \in 0..RESP_PAYLOAD_MAX_SIZE
<1>. DEFINE d == Device[c.periph][c.fn]
            r == d.reply
            n == PayloadLen(Library(app), c)
            asked == c.read % UINT16
            varies == r \in {AsGiven, AsAsked, UpToAsked}
            tooLong == (IF r = AsGiven THEN n ELSE asked) > RESP_PAYLOAD_MAX_SIZE
            lens == AnswerLens(r, n, asked)
<1>1. Answers(Library(app), c) =
         IF n \notin d.lens THEN {Error(FormatErr)}
         ELSE IF varies /\ tooLong THEN {Error(InvalidArgsErr)}
              ELSE {Answer(NoErr, k) : k \in lens} \union {Error(OtherErr)}
  BY DEF Answers
<1>2. /\ r \in {AsGiven, AsAsked, UpToAsked, Nothing}
         \/ (\E k \in 0..4 : r = Exactly(k))
         \/ r = Exactly(SerialLen)
         \/ (\E k \in {4, 11}, m \in {8, 64} : r = Message(k, m))
  BY CallFacts, DeviceForms
<1>3. /\ RESP_PAYLOAD_MAX_SIZE \in Nat /\ RESP_PAYLOAD_MAX_SIZE >= 128
      /\ n \in Nat
      /\ asked \in Nat
  <2>1. UINT16 \in Nat \ {0}
    BY DEF UINT16
  <2>2. n \in 0..REQ_PAYLOAD_MAX_SIZE
    BY PayloadFits
  <2>3. asked \in 0..UINT16 - 1
    BY <2>1, ReadFacts, Divided
  <2>. HIDE DEF n, asked
  <2>. QED
    BY <2>1, <2>2, <2>3, LengthAssumption
<1>. HIDE DEF d, n, asked, lens, varies, tooLong, r
<1>4. ASSUME NEW rc \in {FormatErr, InvalidArgsErr, OtherErr}, a = Error(rc)
      PROVE  a.retcode = rc /\ a.len = 0
  BY <1>4 DEF Error, Answer
<1>5. ASSUME ~(varies /\ tooLong), NEW k \in lens
      PROVE  k \in 0..RESP_PAYLOAD_MAX_SIZE
  <2>1. CASE r = AsGiven
    <3>1. k = n
      BY <1>5, <2>1, FormLens DEF lens
    <3>. QED
      BY <3>1, <2>1, <1>3, <1>5 DEF varies, tooLong
  <2>2. CASE r # AsGiven /\ (r = AsAsked \/ r = UpToAsked)
    <3>1. k \in 0..asked
      BY <1>3, <1>5, <2>2, FormLens DEF lens
    <3>2. ~(asked > RESP_PAYLOAD_MAX_SIZE)
      BY <1>5, <2>2 DEF varies, tooLong
    <3>. QED
      BY <3>1, <3>2, <1>3
  <2>3. CASE r = Nothing
    BY <1>5, <2>3, FormLens DEF lens
  <2>4. ASSUME NEW j \in 0..4, r = Exactly(j) PROVE k \in 0..RESP_PAYLOAD_MAX_SIZE
    <3>1. k = j
      BY <1>5, <2>4, ExactlyLens DEF lens
    <3>. QED
      BY <3>1, <1>3
  <2>6. CASE r = Exactly(SerialLen)
    <3>1. k = SerialLen
      BY <1>5, <2>6, ExactlyLens DEF lens
    <3>. QED
      BY <3>1, LengthAssumption
  <2>5. ASSUME NEW j \in {4, 11}, NEW m \in {8, 64}, r = Message(j, m)
        PROVE  k \in 0..RESP_PAYLOAD_MAX_SIZE
    <3>1. k \in {0} \union j..j + m
      BY <1>5, <2>5, MessageLens DEF lens
    <3>. QED
      BY <3>1, <1>3
  <2>. QED
    BY <1>2, <2>1, <2>2, <2>3, <2>4, <2>5, <2>6
<1>6. CASE a \in {Error(FormatErr), Error(InvalidArgsErr), Error(OtherErr)}
  <2>1. a.len = 0 /\ a.retcode \in {FormatErr, InvalidArgsErr, OtherErr}
    BY <1>4, <1>6
  <2>. QED
    BY <2>1, <1>3
<1>7. CASE a \notin {Error(FormatErr), Error(InvalidArgsErr), Error(OtherErr)}
  <2>1. ~(varies /\ tooLong) /\ \E k \in lens : a = Answer(NoErr, k)
    BY <1>1, <1>7
  <2>2. PICK k \in lens : a = Answer(NoErr, k)
    BY <2>1
  <2>3. a.retcode = NoErr /\ a.len = k
    BY <2>2 DEF Answer
  <2>. QED
    BY <2>1, <2>3, <1>5
<1>. QED
  BY <1>6, <1>7

\* Replies have the type of answers.
LEMMA MeaningType ==
    ASSUME NEW a, NEW name \in Names,
           a.retcode \in {NoErr, FormatErr, InvalidArgsErr, OtherErr},
           a.len \in 0..RESP_PAYLOAD_MAX_SIZE
    PROVE  Meaning(a, name) \in ReplyType
<1>1. (IF a.retcode = NoErr THEN name ELSE "none") \in Names
  BY NoneIsName
<1>. QED
  BY <1>1 DEF Meaning, ReplyType

LEMMA ReplyTypes ==
    ASSUME NEW app \in Clients, NEW c \in NamedCalls,
           ~TooLong(Library(app), c, REQ_PAYLOAD_MAX_SIZE), NEW rep \in Replies(app, c)
    PROVE  rep \in ReplyType
<1>. DEFINE answers == Answers(Library(app), c)
            case == NumberSent(app, c.value) + 1
<1>1. CASE c.value = NoValue \/ Error(FormatErr) \in answers
  <2>1. PICK a \in answers : rep = Meaning(a, "none")
    BY <1>1 DEF Replies
  <2>. QED
    BY <2>1, NoneIsName, AnswersFit, MeaningType
<1>2. CASE c.value # NoValue /\ Error(FormatErr) \notin answers /\ case \in DOMAIN Cases(c)
  <2>1. PICK a \in answers : rep = Meaning(a, Cases(c)[case])
    BY <1>2 DEF Replies
  <2>2. Cases(c)[case] \in Names
    BY <1>2, CaseNames
  <2>. HIDE DEF case
  <2>. QED
    BY <2>1, <2>2, AnswersFit, MeaningType
<1>3. CASE c.value # NoValue /\ Error(FormatErr) \notin answers /\ case \notin DOMAIN Cases(c)
  <2>1. PICK rc \in {InvalidArgsErr, OtherErr} : rep = Meaning(Error(rc), "none")
    BY <1>3 DEF Replies
  <2>2. Error(rc).retcode = rc /\ Error(rc).len = 0
    BY DEF Error, Answer
  <2>3. 0 \in 0..RESP_PAYLOAD_MAX_SIZE
    BY RespSize
  <2>. QED
    BY <2>1, <2>2, <2>3, NoneIsName, MeaningType
<1>. QED
  BY <1>1, <1>2, <1>3

\* What LinkInv and AgreeInv do not say of types.
TypeInv == /\ phase \in {"req_size", "resp_size", "ready", "closed"}
           /\ tried \in BOOLEAN
           /\ req_max_size \in 0..UINT16 - 1
           /\ call \in NamedCalls
           /\ pc # "out" => left = 0
           /\ answer \in ReplyType
           /\ empty \in BOOLEAN
           /\ result \in {"none", "ok", "error"}

\* And so has none.
LEMMA NoAnswerType == NoAnswer \in ReplyType
<1>1. 0 \in 0..RESP_PAYLOAD_MAX_SIZE
  BY RespSize
<1>. QED
  BY <1>1, NoneIsName DEF NoAnswer, ReplyType

\* The sizes that libraries believe in fit a uint16_t.
LEMMA MaxSizes == {UINT16 - 1, DefaultMax, REQ_PAYLOAD_MAX_SIZE} \subseteq 0..UINT16 - 1
<1>1. UINT16 \in Nat /\ UINT16 - 1 >= 128
  BY DEF UINT16
<1>2. DefaultMax = 128
  BY DEF DefaultMax
<1>. QED
  BY <1>1, <1>2, LengthAssumption

\* It holds at the start, and every step keeps it.
LEMMA TypeInit == Init => TypeInv
<1>. SUFFICES ASSUME Init PROVE TypeInv
  OBVIOUS
<1>1. req_max_size \in 0..UINT16 - 1
  BY MaxSizes DEF Init
<1>2. call \in NamedCalls /\ answer \in ReplyType
  BY NoCallIsCall, NoAnswerType DEF Init
<1>. QED
  BY <1>1, <1>2 DEF Init, TypeInv

LEMMA TypeStep == LinkInv /\ LinkInv' /\ AgreeInv /\ TypeInv /\ [Next]_vars => TypeInv'
<1>. SUFFICES ASSUME LinkInv, LinkInv', AgreeInv, TypeInv, [Next]_vars PROVE TypeInv'
  OBVIOUS
<1>1. CASE BeginProbe \/ BeginCall
  <2>1. /\ call' \in NamedCalls
        /\ pc' = "out"
        /\ UNCHANGED <<phase, tried, req_max_size, result, answer, empty>>
    BY <1>1, Probes DEF BeginProbe, BeginCall, Begin, firmware
  <2>. QED
    BY <2>1 DEF TypeInv
<1>2. CASE Packet
  <2>1. UNCHANGED <<phase, tried, req_max_size, call, answer, empty, result>>
    BY <1>2 DEF Packet
  <2>2. pc' # "out" => left' = 0
    <3>. DEFINE n == IF left < MPS THEN left ELSE MPS
    <3>1. left' = left - n /\ pc' = IF left = n THEN AfterRequest(RequestLen(call)) ELSE pc
      BY <1>2 DEF Packet
    <3>2. pc = "out" /\ left \in Nat
      BY <1>2 DEF Packet, LinkInv, Types
    <3>. HIDE DEF n
    <3>3. CASE left = n
      BY <3>1, <3>2, <3>3
    <3>4. CASE left # n
      BY <3>1, <3>2, <3>4
    <3>. QED
      BY <3>3, <3>4
  <2>. QED
    BY <2>1, <2>2 DEF TypeInv
<1>3. CASE EmptyPacket
  BY <1>3 DEF EmptyPacket, TypeInv
<1>4. CASE OutTimeout \/ Receive \/ ReceiveEmpty \/ InTimeout
  <2>3. empty' \in BOOLEAN
    BY <1>4 DEF OutTimeout, Receive, ReceiveEmpty, InTimeout, Cancelled, Reset, Drained, LeavesEmpty,
       TypeInv
  <2>1. CASE \E t \in BOOLEAN : Fail(t)
    <3>1. Over
      BY <2>1 DEF Fail
    <3>2. /\ phase' \in {"req_size", "resp_size", "ready", "closed"}
          /\ tried' \in BOOLEAN
          /\ req_max_size' \in 0..UINT16 - 1
          /\ result' = "error"
      BY <2>1 DEF Fail, TypeInv
    <3>. QED
      BY <2>3, <3>1, <3>2, NoCallIsCall, NoAnswerType DEF Over, TypeInv
  <2>2. CASE Succeed
    <3>1. phase' \in {"req_size", "resp_size", "ready", "closed"}
      BY <2>2 DEF Succeed, TypeInv
    <3>2. req_max_size' \in 0..UINT16 - 1
      BY <2>2, MaxSizes DEF Succeed, TypeInv
    <3>. QED
      BY <2>2, <2>3, <3>1, <3>2, NoCallIsCall, NoAnswerType DEF Succeed, Over, TypeInv
  <2>. QED
    BY <1>4, <2>1, <2>2 DEF OutTimeout, Receive, ReceiveEmpty, InTimeout
<1>5. CASE Respond
  <2>1. UNCHANGED <<phase, tried, req_max_size, call, pc, left, result, empty>>
    BY <1>5 DEF Respond, host
  <2>2. answer' \in ReplyType
    <3>1. CASE mine
      <4>1. answer' \in Replies(client, call)
        BY <1>5, <3>1 DEF Respond
      <4>2. /\ call \in NamedCalls
            /\ ~TooLong(Library(client), call, REQ_PAYLOAD_MAX_SIZE)
            /\ client \in Clients
        BY <3>1 DEF LinkInv, Serving, AgreeInv, Lib
      <4>. QED
        BY <4>1, <4>2, ReplyTypes
    <3>2. CASE ~mine
      BY <1>5, <3>2, NoAnswerType DEF Respond
    <3>. QED
      BY <3>1, <3>2
  <2>. QED
    BY <2>1, <2>2 DEF TypeInv
<1>6. CASE ListDevices
  <2>1. req_max_size' \in 0..UINT16 - 1
    BY <1>6, MaxSizes DEF ListDevices
  <2>. QED
    BY <1>6, <2>1 DEF ListDevices, firmware, TypeInv
<1>7. CASE RespondFails \/ UNCHANGED vars
  BY <1>7 DEF RespondFails, vars, host, firmware, TypeInv
<1>. QED
  BY <1>1, <1>2, <1>3, <1>4, <1>5, <1>6, <1>7 DEF Next

(***************************************************************************)
(* Type correctness of the link: in particular neither the buffer of       *)
(* requests nor that of answers ever gets more than it holds (usb.c:152,   *)
(* and the checks of the functions).                                       *)
(***************************************************************************)
THEOREM TypeCorrect == Spec => []TypeOK
<1>1. Init => TypeInv /\ AgreeInv
  BY TypeInit, AgreeInit
<1>2. LinkInv /\ LinkInv' /\ AgreeInv /\ TypeInv /\ [Next]_vars => AgreeInv' /\ TypeInv'
  BY AgreeStep, TypeStep
<1>3. LinkInv /\ AgreeInv /\ TypeInv => TypeOK
  <2>. SUFFICES ASSUME LinkInv, AgreeInv, TypeInv PROVE TypeOK
    OBVIOUS
  <2>. DEFINE size == IFACE_REQ_HDR_SIZE + REQ_PAYLOAD_MAX_SIZE
  <2>1. size \in Nat
    BY Constants, LargeEnough
  <2>2. pc # "idle" => RequestLen(call) \in 0..size
    BY Constants, LargeEnough DEF LinkInv, Sizes, RequestLen
  <2>3. left \in 0..size /\ got \in 0..size
    <3>. HIDE DEF size
    <3>4. 0 \in 0..size
      BY <2>1
    <3>1. CASE pc = "out"
      BY <3>1, <2>1, <2>2 DEF LinkInv, Types, Sending
    <3>2. CASE pc = "zlp"
      BY <3>2, <3>4, <2>2 DEF LinkInv, Types, Sending, TypeInv
    <3>3. CASE pc \in {"idle", "in"}
      BY <3>3, <2>1 DEF LinkInv, Types, Sending, TypeInv
    <3>. QED
      BY <3>1, <3>2, <3>3 DEF LinkInv, Types
  <2>. QED
    BY <2>3 DEF TypeOK, LinkInv, Types, AgreeInv, TypeInv, ReplyType
<1>. QED
  BY <1>1, <1>2, <1>3, LinkInvariant, PTL DEF Spec
=============================================================================
