----------------------------- MODULE DeviceApi ------------------------------
(***************************************************************************)
(* The functions of the peripherals from both ends: how long a request     *)
(* libjabi builds and which answers it accepts (the files of               *)
(* clients/cpp/libjabi/peripherals), and which requests the firmware takes *)
(* and what it answers (those of firmware/src/peripherals).  The two are   *)
(* written by hand, in C and in C++, against the packed structs of         *)
(* include/jabi/peripherals; here they are two tables.  The operators take *)
(* the table of a library, lib: RustApi has that of the Rust client.       *)
(*                                                                         *)
(* Values are left out: a call is a function, the number of bytes the      *)
(* caller gives and the number it asks for.                                *)
(***************************************************************************)
EXTENDS Integers

CONSTANTS
    Lengths,                \* bound: the numbers of bytes given and asked for
    REQ_PAYLOAD_MAX_SIZE,   \* of the device
    RESP_PAYLOAD_MAX_SIZE,  \* of the device
    SerialLen               \* strlen(CONFIG_JABI_SERIAL)

UINT16 == 65536

\* Kconfig wants a serial number that is not empty.  Nothing checks that it fits an
\* answer: one that does not is cut when it is copied, but not in *resp_len.
ASSUME LengthAssumption == /\ Lengths \subseteq Nat /\ 0 \in Lengths
                           /\ REQ_PAYLOAD_MAX_SIZE \in 128..UINT16 - 1
                           /\ RESP_PAYLOAD_MAX_SIZE \in 128..UINT16 - 1
                           /\ SerialLen \in 1..RESP_PAYLOAD_MAX_SIZE

CAN_MAX_LEN == 64
LIN_MAX_LEN == 8

(***************************************************************************)
(* The lengths an answer may have when g bytes were given and r asked for. *)
(***************************************************************************)
Exactly(n)         == [form |-> "exactly", least |-> n, most |-> n]
Message(header, n) == [form |-> "message", least |-> header, most |-> header + n]
Form(f)            == [form |-> f, least |-> 0, most |-> 0]
AsGiven   == Form("as given")
AsAsked   == Form("as asked")
UpToAsked == Form("up to asked")
Anything  == Form("anything")
Nothing   == Form("nothing")
AtLeast(n) == [form |-> "at least", least |-> n, most |-> n]

AnswerLens(a, g, r) ==
    CASE a.form = "exactly"     -> {a.least}
      [] a.form = "message"     -> {0} \union a.least..a.most
      [] a.form = "as given"    -> {g}
      [] a.form = "as asked"    -> {r}
      [] a.form = "up to asked" -> 0..r
      [] a.form = "anything"    -> 0..UINT16 - 1
      [] a.form = "at least"    -> {0} \union a.least..UINT16 - 1
      [] OTHER                  -> {}

(***************************************************************************)
(* The host's table: the bytes of the arguments; whether the caller's data *)
(* follow them, at most cap bytes of these, or with cap 0 as many as       *)
(* get_req_max_size() allows; and the answers accepted.                    *)
(***************************************************************************)
Call(args, accepted) == [args |-> args, data |-> FALSE, cap |-> 0, answer |-> accepted]
CallData(args, cap, accepted) == [args |-> args, data |-> TRUE, cap |-> cap, answer |-> accepted]

HostI2c == [i2c_set_freq   |-> Call(1, Exactly(0)),
            i2c_write      |-> CallData(2, 0, Exactly(0)),
            i2c_read       |-> Call(4, AsAsked),
            i2c_transceive |-> CallData(4, 0, AsAsked)]

HostGpio == [gpio_set_mode |-> Call(3, Exactly(0)),
             gpio_write    |-> Call(1, Exactly(0)),
             gpio_read     |-> Call(0, Exactly(1))]

HostPwm == [pwm_write |-> Call(8, Exactly(0))]
HostAdc == [adc_read  |-> Call(0, Exactly(4))]
HostDac == [dac_write |-> Call(4, Exactly(0))]

HostSpi == [spi_set_freq     |-> Call(4, Exactly(0)),
            spi_set_mode     |-> Call(1, Exactly(0)),
            spi_set_bitorder |-> Call(1, Exactly(0)),
            spi_write        |-> CallData(0, 0, Exactly(0)),
            spi_read         |-> Call(2, AsAsked),
            spi_transceive   |-> CallData(0, 0, AsGiven)]

HostUart == [uart_set_config |-> Call(7, Exactly(0)),
             uart_write      |-> CallData(0, 0, Exactly(0)),
             uart_read       |-> Call(2, UpToAsked)]

\* A remote frame has a length and no data.
HostCan == [can_set_filter   |-> Call(8, Exactly(0)),
            can_set_rate     |-> Call(8, Exactly(0)),
            can_set_style    |-> Call(1, Exactly(0)),
            can_state        |-> Call(0, Exactly(3)),
            can_write        |-> CallData(9, CAN_MAX_LEN, Exactly(0)),
            can_write_remote |-> Call(9, Exactly(0)),
            can_read         |-> Call(0, Message(11, CAN_MAX_LEN))]

HostLin == [lin_set_mode   |-> Call(1, Exactly(0)),
            lin_set_rate   |-> Call(4, Exactly(0)),
            lin_set_filter |-> Call(3, Exactly(0)),
            lin_mode       |-> Call(0, Exactly(1)),
            lin_status     |-> Call(0, Exactly(3)),
            lin_write      |-> CallData(2, LIN_MAX_LEN, Exactly(0)),
            lin_read       |-> Call(1, Message(4, LIN_MAX_LEN))]

HostMetadata == [serial        |-> Call(0, Anything),
                 num_inst      |-> Call(2, Exactly(2)),
                 echo          |-> CallData(0, 0, Anything),
                 req_max_size  |-> Call(0, Anything),
                 resp_max_size |-> Call(0, Anything),
                 custom        |-> CallData(0, 0, Anything)]

Host == [i2c |-> HostI2c, gpio |-> HostGpio, pwm |-> HostPwm, adc |-> HostAdc,
         dac |-> HostDac, spi |-> HostSpi, uart |-> HostUart, can |-> HostCan,
         lin |-> HostLin, metadata |-> HostMetadata]

\* The calls, without those that differ in a number their function does not take.
\* Bound: one that gives and asks for bytes does so for as many, or none.
Reads == {"i2c_read", "i2c_transceive", "spi_read", "uart_read"}

CallsOf(p, f) ==
    {c \in [periph : {p}, fn : {f},
            data : IF Host[p][f].data THEN Lengths ELSE {0},
            read : IF f \in Reads THEN Lengths ELSE {0}] :
        0 \in {c.data, c.read} \/ c.data = c.read}

Calls == UNION {UNION {CallsOf(p, f) : f \in DOMAIN Host[p]} : p \in DOMAIN Host}

HostFn(lib, c) == lib[c.periph][c.fn]

PayloadLen(lib, c) == HostFn(lib, c).args + c.data

\* Mutant of TooLong: the bytes of the arguments are not counted.
TooLongData(lib, c, limit) ==
    IF HostFn(lib, c).cap > 0 THEN c.data > HostFn(lib, c).cap
    ELSE HostFn(lib, c).data /\ c.data > limit

\* "data too long"
TooLong(lib, c, limit) ==
    IF HostFn(lib, c).cap > 0 THEN c.data > HostFn(lib, c).cap
    ELSE HostFn(lib, c).data /\ PayloadLen(lib, c) > limit

Accepts(lib, c, len) == len \in AnswerLens(HostFn(lib, c).answer, c.data, c.read)
-----------------------------------------------------------------------------
(***************************************************************************)
(* The device's table: the lengths of the requests it takes, and the form  *)
(* of its answers; what is given is the payload.                           *)
(***************************************************************************)
NoErr            == 0
FormatErr        == 1       \* JABI_INVALID_ARGS_FORMAT_ERR
InvalidArgsErr   == 2
OtherErr         == 3       \* the arguments, the peripheral or the lock

PayloadLens == 0..REQ_PAYLOAD_MAX_SIZE

Takes(lens, reply) == [lens |-> lens, reply |-> reply]

\* Mutant of DeviceI2c: sizeof(i2c_read_j_req_t) is required of a transceive.
DeviceI2cExact == [i2c_set_freq   |-> Takes({1}, Exactly(0)),
                   i2c_write      |-> Takes(PayloadLens \ 0..1, Exactly(0)),
                   i2c_read       |-> Takes({4}, AsAsked),
                   i2c_transceive |-> Takes({4}, AsAsked)]

DeviceI2c == [i2c_set_freq   |-> Takes({1}, Exactly(0)),
              i2c_write      |-> Takes(PayloadLens \ 0..1, Exactly(0)),
              i2c_read       |-> Takes({4}, AsAsked),
              i2c_transceive |-> Takes(PayloadLens \ 0..3, AsAsked)]

DeviceGpio == [gpio_set_mode |-> Takes({3}, Exactly(0)),
               gpio_write    |-> Takes({1}, Exactly(0)),
               gpio_read     |-> Takes({0}, Exactly(1))]

DevicePwm == [pwm_write |-> Takes({8}, Exactly(0))]
DeviceAdc == [adc_read  |-> Takes({0}, Exactly(4))]
DeviceDac == [dac_write |-> Takes({4}, Exactly(0))]

DeviceSpi == [spi_set_freq     |-> Takes({4}, Exactly(0)),
              spi_set_mode     |-> Takes({1}, Exactly(0)),
              spi_set_bitorder |-> Takes({1}, Exactly(0)),
              spi_write        |-> Takes(PayloadLens, Exactly(0)),
              spi_read         |-> Takes({2}, AsAsked),
              spi_transceive   |-> Takes(PayloadLens, AsGiven)]

DeviceUart == [uart_set_config |-> Takes({7}, Exactly(0)),
               uart_write      |-> Takes(PayloadLens, Exactly(0)),
               uart_read       |-> Takes({2}, UpToAsked)]

\* The data_len a host writes is the number of bytes it appends.
DeviceCan == [can_set_filter   |-> Takes({8}, Exactly(0)),
              can_set_rate     |-> Takes({8}, Exactly(0)),
              can_set_style    |-> Takes({1}, Exactly(0)),
              can_state        |-> Takes({0}, Exactly(3)),
              can_write        |-> Takes(PayloadLens \ 0..8, Exactly(0)),
              can_write_remote |-> Takes({9}, Exactly(0)),
              can_read         |-> Takes({0}, Message(11, CAN_MAX_LEN))]

DeviceLin == [lin_set_mode   |-> Takes({1}, Exactly(0)),
              lin_set_rate   |-> Takes({4}, Exactly(0)),
              lin_set_filter |-> Takes({3}, Exactly(0)),
              lin_mode       |-> Takes({0}, Exactly(1)),
              lin_status     |-> Takes({0}, Exactly(3)),
              lin_write      |-> Takes(3..2 + LIN_MAX_LEN, Exactly(0)),
              lin_read       |-> Takes({1}, Message(4, LIN_MAX_LEN))]

\* Boards that do not override custom refuse it.
DeviceMetadata == [serial        |-> Takes({0}, Exactly(SerialLen)),
                   num_inst      |-> Takes({2}, Exactly(2)),
                   echo          |-> Takes(PayloadLens, AsGiven),
                   req_max_size  |-> Takes({0}, Exactly(2)),
                   resp_max_size |-> Takes({0}, Exactly(2)),
                   custom        |-> Takes(PayloadLens, Nothing)]

Device == [i2c |-> DeviceI2c, gpio |-> DeviceGpio, pwm |-> DevicePwm, adc |-> DeviceAdc,
           dac |-> DeviceDac, spi |-> DeviceSpi, uart |-> DeviceUart, can |-> DeviceCan,
           lin |-> DeviceLin, metadata |-> DeviceMetadata]

Answer(rc, len) == [retcode |-> rc, len |-> len, own |-> TRUE]
Error(rc) == Answer(rc, 0)

\* The answers to the request of a call; an error carries no payload (main.c:78).
\* Functions whose answer varies refuse what is longer than RESP_PAYLOAD_MAX_SIZE.
Answers(lib, c) ==
    LET fn    == Device[c.periph][c.fn]
        n     == PayloadLen(lib, c)
        asked == c.read % UINT16        \* static_cast<uint16_t>, or as u16
    IN  IF n \notin fn.lens THEN {Error(FormatErr)}
        ELSE IF /\ fn.reply \in {AsGiven, AsAsked, UpToAsked}
                /\ (IF fn.reply = AsGiven THEN n ELSE asked) > RESP_PAYLOAD_MAX_SIZE
             THEN {Error(InvalidArgsErr)}
             ELSE {Answer(NoErr, k) : k \in AnswerLens(fn.reply, n, asked)} \union {Error(OtherErr)}
=============================================================================
