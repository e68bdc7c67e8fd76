----------------------------- MODULE MCUsbLink ------------------------------
(***************************************************************************)
(* UsbLink for TLC: lengths around those of a CAN and a LIN frame, of full *)
(* packets of 64 bytes, of the two maximums 184 and 188, which fill three  *)
(* packets with their headers, and one that does not fit a uint16_t.       *)
(***************************************************************************)
EXTENDS UsbLink

MCLengths == {0, 1, 8, 9, 56, 64, 65, 120, 124, 182, 184, 185, 188, 189, UINT16 + 4}
=============================================================================
