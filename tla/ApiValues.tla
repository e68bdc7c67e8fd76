----------------------------- MODULE ApiValues ------------------------------
(***************************************************************************)
(* The enumerated arguments of the device API on their way from an         *)
(* application to the switch statements of the firmware.  A C++ or Rust    *)
(* application calls its library; a Python one calls libjabi through the   *)
(* bindings, a gRPC one through the server.  The enumerations are written  *)
(* out five times; what is sent is a number.                               *)
(*                                                                         *)
(* An enumeration is the sequence of its names in the order of their       *)
(* numbers, from 0; names are those of C++.  Other values are left out,    *)
(* and of several enumerated arguments a call has one that matters.        *)
(***************************************************************************)
EXTENDS RustApi, Sequences

CppEnums == [
    InstID      |-> <<"METADATA", "CAN", "I2C", "GPIO", "PWM",
                      "ADC", "DAC", "SPI", "UART", "LIN">>,
    CANMode     |-> <<"NORMAL", "LOOPBACK", "LISTENONLY">>,
    I2CFreq     |-> <<"STANDARD", "FAST", "FAST_PLUS", "HIGH", "ULTRA">>,
    GPIODir     |-> <<"INPUT", "OUTPUT", "OPEN_DRAIN", "OPEN_SOURCE">>,
    GPIOPull    |-> <<"NONE", "UP", "DOWN", "BOTH">>,
    UARTParity  |-> <<"NONE", "ODD", "EVEN", "MARK", "SPACE">>,
    UARTStop    |-> <<"B0_5", "B1", "B1_5", "B2">>,
    LINMode     |-> <<"COMMANDER", "RESPONDER">>,
    LINChecksum |-> <<"CLASSIC", "ENHANCED", "AUTO">>]

\* Those of the protocol buffers, by peripheral.
ProtoMetadata == [InstID |-> <<"METADATA", "CAN", "I2C", "GPIO", "PWM",
                               "ADC", "DAC", "SPI", "UART", "LIN">>]
ProtoCan  == [CANMode     |-> <<"NORMAL", "LOOPBACK", "LISTENONLY">>]
ProtoI2c  == [I2CFreq     |-> <<"STANDARD", "FAST", "FAST_PLUS", "HIGH", "ULTRA">>]
ProtoGpio == [GPIODir     |-> <<"INPUT", "OUTPUT", "OPEN_DRAIN", "OPEN_SOURCE">>,
              GPIOPull    |-> <<"NONE", "UP", "DOWN", "BOTH">>]
ProtoUart == [UARTParity  |-> <<"NONE", "ODD", "EVEN", "MARK", "SPACE">>,
              UARTStop    |-> <<"B0_5", "B1", "B1_5", "B2">>]
ProtoLin  == [LINMode     |-> <<"COMMANDER", "RESPONDER">>,
              LINChecksum |-> <<"CLASSIC", "ENHANCED", "AUTO">>]

\* Those of the Rust client, a file each.
RustMetadataEnums == [InstID |-> <<"METADATA", "CAN", "I2C", "GPIO", "PWM",
                                   "ADC", "DAC", "SPI", "UART", "LIN">>]
RustCanEnums  == [CANMode     |-> <<"NORMAL", "LOOPBACK", "LISTENONLY">>]
RustI2cEnums  == [I2CFreq     |-> <<"STANDARD", "FAST", "FAST_PLUS", "HIGH", "ULTRA">>]
RustGpioEnums == [GPIODir     |-> <<"INPUT", "OUTPUT", "OPEN_DRAIN", "OPEN_SOURCE">>,
                  GPIOPull    |-> <<"NONE", "UP", "DOWN", "BOTH">>]
RustUartEnums == [UARTParity  |-> <<"NONE", "ODD", "EVEN", "MARK", "SPACE">>,
                  UARTStop    |-> <<"B0_5", "B1", "B1_5", "B2">>]
RustLinEnums  == [LINMode     |-> <<"COMMANDER", "RESPONDER">>,
                  LINChecksum |-> <<"CLASSIC", "ENHANCED", "AUTO">>]

(***************************************************************************)
(* What the firmware takes the numbers for: by function and argument, the  *)
(* cases of its switch.                                                    *)
(***************************************************************************)
SwitchMetadata == [num_inst |->
    [InstID |-> <<"METADATA", "CAN", "I2C", "GPIO", "PWM",
                  "ADC", "DAC", "SPI", "UART", "LIN">>]]
SwitchCan == [can_set_style |-> [CANMode |-> <<"NORMAL", "LOOPBACK", "LISTENONLY">>]]
SwitchI2c == [i2c_set_freq |->
    [I2CFreq |-> <<"STANDARD", "FAST", "FAST_PLUS", "HIGH", "ULTRA">>]]
SwitchGpio == [gpio_set_mode |->
    [GPIODir  |-> <<"INPUT", "OUTPUT", "OPEN_DRAIN", "OPEN_SOURCE">>,
     GPIOPull |-> <<"NONE", "UP", "DOWN", "BOTH">>]]
SwitchUart == [uart_set_config |->
    [UARTParity |-> <<"NONE", "ODD", "EVEN", "MARK", "SPACE">>,
     UARTStop   |-> <<"B0_5", "B1", "B1_5", "B2">>]]
SwitchLinMode   == [LINMode |-> <<"COMMANDER", "RESPONDER">>]
SwitchLinFilter == [LINChecksum |-> <<"CLASSIC", "ENHANCED", "AUTO">>]
SwitchLinWrite  == [LINChecksum |-> <<"CLASSIC", "ENHANCED">>]
SwitchLin == [lin_set_mode   |-> SwitchLinMode,  lin_set_filter |-> SwitchLinFilter,
              lin_write      |-> SwitchLinWrite]

Switches == [metadata |-> SwitchMetadata, can |-> SwitchCan, i2c |-> SwitchI2c,
             gpio |-> SwitchGpio, uart |-> SwitchUart, lin |-> SwitchLin]

Enumerated(c) == c.periph \in DOMAIN Switches /\ c.fn \in DOMAIN Switches[c.periph]
-----------------------------------------------------------------------------
NoValue == [enum |-> "none", name |-> "none"]

ValuesOf(e) == {[enum |-> e, name |-> CppEnums[e][k]] : k \in DOMAIN CppEnums[e]}

\* A call of the application: one of DeviceApi, and its enumerated argument.
With(c, v) == [periph |-> c.periph, fn |-> c.fn, data |-> c.data, read |-> c.read,
               value |-> v]

NamedCalls ==
    UNION {{With(c, v) : v \in IF Enumerated(c)
                               THEN UNION {ValuesOf(e) : e \in DOMAIN Switches[c.periph][c.fn]}
                               ELSE {NoValue}} : c \in Calls}

\* The number of a value in the one of several tables that has its enumeration.
NumberIn(tables, v) ==
    LET enums == CHOOSE t \in tables : v.enum \in DOMAIN t
    IN  (CHOOSE k \in DOMAIN enums[v.enum] : enums[v.enum][k] = v.name) - 1

Proto == {ProtoMetadata, ProtoCan, ProtoI2c, ProtoGpio, ProtoUart, ProtoLin}
RustEnums == {RustMetadataEnums, RustCanEnums, RustI2cEnums, RustGpioEnums,
              RustUartEnums, RustLinEnums}

\* The bindings: every function is libjabi's, called with the arguments it is
\* given, and every name of an enumeration stands for libjabi's, but for one.
Python(v) == IF v = [enum |-> "UARTStop", name |-> "B1_5"]
             THEN [v EXCEPT !.name = "B0_5"]
             ELSE v

\* The server: each handler makes the call of its name with the fields of the
\* request, of which a static_cast takes enumerations to those of libjabi.
Grpc(v) == [v EXCEPT !.name = CppEnums[v.enum][NumberIn(Proto, v) + 1]]

\* The number an application's value is sent as.
NumberSent(app, v) ==
    CASE app = "rust"   -> NumberIn(RustEnums, v)
      [] app = "cpp"    -> NumberIn({CppEnums}, v)
      [] app = "python" -> NumberIn({CppEnums}, Python(v))
      [] app = "grpc"   -> NumberIn({CppEnums}, Grpc(v))

(***************************************************************************)
(* The answers to a call of an application, with what the firmware took    *)
(* the enumerated argument for when it succeeds.  It refuses a number that *)
(* no case of its switch has, once the format is right.                    *)
(***************************************************************************)
Library(app) == IF app = "rust" THEN Rust ELSE Host

Meaning(a, name) == [retcode |-> a.retcode, len |-> a.len, own |-> TRUE,
                     meant |-> IF a.retcode = NoErr THEN name ELSE "none"]

Cases(c) == Switches[c.periph][c.fn][c.value.enum]

Replies(app, c) ==
    LET answers == Answers(Library(app), c)
        case    == NumberSent(app, c.value) + 1
    IN  IF c.value = NoValue \/ Error(FormatErr) \in answers
        THEN {Meaning(a, "none") : a \in answers}
        ELSE IF case \in DOMAIN Cases(c)
             THEN {Meaning(a, Cases(c)[case]) : a \in answers}
             ELSE {Meaning(Error(rc), "none") : rc \in {InvalidArgsErr, OtherErr}}
=============================================================================
