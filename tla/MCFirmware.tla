----------------------------- MODULE MCFirmware -----------------------------
(* An instance of Firmware for TLC: a row with two pins of one port, an      *)
(* absent peripheral, a row with one bus.                                    *)
EXTENDS Firmware, TLC

CONSTANTS port, bus, a1, a2, u1, u2, u3

MCNumIdx == (0 :> 2) @@ (1 :> 0) @@ (2 :> 1)
MCNumFns == (0 :> 1) @@ (1 :> 1) @@ (2 :> 1)
MCGetDev == (<<0, 0>> :> port) @@ (<<0, 1>> :> port) @@ (<<2, 0>> :> bus)

Req(p, x, f) == [periph_id |-> p, periph_idx |-> x, periph_fn |-> f]

\* A request per instance, and one for the absent peripheral.
MCRequest == {Req(0, 0, 0), Req(0, 1, 0), Req(2, 0, 0), Req(1, 0, 0)}
=============================================================================
