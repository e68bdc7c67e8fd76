----------------------------- MODULE MCUartLink -----------------------------
(***************************************************************************)
(* Values of UartLink's constants for TLC.                                 *)
(***************************************************************************)
EXTENDS UartLink

CONSTANTS t1, t2
=============================================================================
