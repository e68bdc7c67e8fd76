---------------------------- MODULE MCUartPeriph ----------------------------
(***************************************************************************)
(* UartPeriph for TLC: its constants are numbers and model values, which   *)
(* the configuration gives.                                                *)
(***************************************************************************)
EXTENDS UartPeriph
=============================================================================
