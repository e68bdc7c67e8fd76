------------------------------ MODULE RustApi -------------------------------
(***************************************************************************)
(* The functions of the Rust client (clients/rust/src/peripherals): the    *)
(* requests have the bytes of those of libjabi, and gen_req and send       *)
(* refuse the same ones, but fewer answers are refused.  What is read from *)
(* a bus goes to the caller whatever its number of bytes, and the length   *)
(* of a message is not checked against its type.                           *)
(***************************************************************************)
EXTENDS DeviceApi

RustI2c == [i2c_set_freq   |-> Call(1, Exactly(0)),
            i2c_write      |-> CallData(2, 0, Exactly(0)),
            i2c_read       |-> Call(4, Anything),
            i2c_transceive |-> CallData(4, 0, Anything)]

RustGpio == [gpio_set_mode |-> Call(3, Exactly(0)),
             gpio_write    |-> Call(1, Exactly(0)),
             gpio_read     |-> Call(0, Exactly(1))]

RustPwm == [pwm_write |-> Call(8, Exactly(0))]
RustAdc == [adc_read  |-> Call(0, Exactly(4))]
RustDac == [dac_write |-> Call(4, Exactly(0))]

RustSpi == [spi_set_freq     |-> Call(4, Exactly(0)),
            spi_set_mode     |-> Call(1, Exactly(0)),
            spi_set_bitorder |-> Call(1, Exactly(0)),
            spi_write        |-> CallData(0, 0, Exactly(0)),
            spi_read         |-> Call(2, Anything),
            spi_transceive   |-> CallData(0, 0, Anything)]

RustUart == [uart_set_config |-> Call(7, Exactly(0)),
             uart_write      |-> CallData(0, 0, Exactly(0)),
             uart_read       |-> Call(2, Anything)]

\* A message has the length it says, or is a remote frame, with anything after.
RustCan == [can_set_filter   |-> Call(8, Exactly(0)),
            can_set_rate     |-> Call(8, Exactly(0)),
            can_set_style    |-> Call(1, Exactly(0)),
            can_state        |-> Call(0, Exactly(3)),
            can_write        |-> CallData(9, CAN_MAX_LEN, Exactly(0)),
            can_write_remote |-> Call(9, Exactly(0)),
            can_read         |-> Call(0, AtLeast(11))]

RustLin == [lin_set_mode   |-> Call(1, Exactly(0)),
            lin_set_rate   |-> Call(4, Exactly(0)),
            lin_set_filter |-> Call(3, Exactly(0)),
            lin_mode       |-> Call(0, Exactly(1)),
            lin_status     |-> Call(0, Exactly(3)),
            lin_write      |-> CallData(2, LIN_MAX_LEN, Exactly(0)),
            lin_read       |-> Call(1, AtLeast(4))]

RustMetadata == [serial        |-> Call(0, Anything),
                 num_inst      |-> Call(2, Exactly(2)),
                 echo          |-> CallData(0, 0, Anything),
                 req_max_size  |-> Call(0, Exactly(2)),
                 resp_max_size |-> Call(0, Exactly(2)),
                 custom        |-> CallData(0, 0, Anything)]

Rust == [i2c |-> RustI2c, gpio |-> RustGpio, pwm |-> RustPwm, adc |-> RustAdc,
         dac |-> RustDac, spi |-> RustSpi, uart |-> RustUart, can |-> RustCan,
         lin |-> RustLin, metadata |-> RustMetadata]
=============================================================================
