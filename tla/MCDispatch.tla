----------------------------- MODULE MCDispatch -----------------------------
(* Instances of Dispatch for TLC: three interfaces, four peripheral         *)
(* instances of which two share a device, as two GPIO pins of a port do.    *)
EXTENDS Dispatch, TLC

CONSTANTS i1, i2, i3, port, bus

\* Peripheral 0 is a GPIO-like pair of pins on one port, peripheral 1 one bus.
MCNumIdx == (0 :> 2) @@ (1 :> 1)
MCNumFns == (0 :> 1) @@ (1 :> 1)
MCGetDev == (<<0, 0>> :> port) @@ (<<0, 1>> :> port) @@ (<<1, 0>> :> bus)

Req(p, x, f) == [periph_id |-> p, periph_idx |-> x, periph_fn |-> f]

\* A request per supported instance, and one that each check alone refuses.
MCRequest == {Req(0, 0, 0), Req(0, 1, 0), Req(1, 0, 0),
              Req(2, 0, 0), Req(1, 1, 0), Req(0, 1, 1)}

MCInterfaces == Permutations({i1, i2, i3})
=============================================================================
