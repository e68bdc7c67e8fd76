------------------------------ MODULE Firmware ------------------------------
(***************************************************************************)
(* The firmware as a whole: main() of Boot builds the table of locks and   *)
(* starts the threads one by one, and the threads that exist already run   *)
(* the dispatcher of Dispatch on that table.  What Dispatch calls a device *)
(* is the address of a semaphore here, so that nothing but the table       *)
(* relates a semaphore to the device it protects.                          *)
(***************************************************************************)
EXTENDS Boot, FiniteSets

CONSTANTS
    NumFns, Request, FnRetcode, MaxLen, LOCK_TIMEOUT, FnTime,   \* see Dispatch
    NoErr, NotSupportedErr, BusyErr, None

ASSUME HostAssumption ==
    /\ IsFiniteSet(Iface)
    /\ NumFns \in [Row -> Nat]
    /\ MaxLen \in Nat
    /\ LOCK_TIMEOUT \in Nat
    /\ FnTime \in Nat
    /\ \A r \in Request : /\ r.periph_id \in Nat
                          /\ r.periph_idx \in Nat
                          /\ r.periph_fn \in Nat
    /\ None \notin Request \cup Iface \cup Dev
    /\ None \notin [retcode : FnRetcode \cup {NoErr, NotSupportedErr, BusyErr},
                    payload_len : 0..MaxLen]

VARIABLES
    tpc, req, retcode, payload_len,     \* of the threads, see Dispatch
    sem,                                \* sem[a]: count of the semaphore at a
    waited, ran                         \* of the threads

threads == <<tpc, req, retcode, payload_len, waited, ran>>
system == <<vars, threads, sem>>

\* The dispatcher, given a table of locks.
Dispatcher(table) == INSTANCE Dispatch
                     WITH Dev <- Addr, GetDev <- table, NoDev <- NULL,
                          pc <- tpc, lock <- sem
-----------------------------------------------------------------------------
\* What malloc returns is not initialised.
SystemInit == /\ Init
              /\ sem = [a \in Addr |-> 0]
              /\ tpc = [f \in Iface |-> "init"]
              /\ req = [f \in Iface |-> None]
              /\ retcode = [f \in Iface |-> NoErr]
              /\ payload_len = [f \in Iface |-> 0]
              /\ waited = [f \in Iface |-> 0]
              /\ ran = [f \in Iface |-> 0]

\* Mutant of Main: the semaphores are initialised to 0.
MainNoCount == /\ Next
               /\ UNCHANGED <<threads, sem>>

\* A step of main(); k_sem_init(&d->lock, 1, 1) is part of NewLock.
Main == /\ Next
        /\ sem' = [a \in Addr |-> IF a \in Locks' \ Locks THEN 1 ELSE sem[a]]
        /\ UNCHANGED threads

Thread(f) == /\ f \in started
             /\ \E table \in {peripheral_locks} : Dispatcher(table)!Process(f)
             /\ UNCHANGED vars

Receive(f) == /\ f \in started
              /\ \E table \in {peripheral_locks} : Dispatcher(table)!GetReq(f)
              /\ UNCHANGED vars

Tick == /\ \E table \in {peripheral_locks} : Dispatcher(table)!Tick
        /\ UNCHANGED vars

SystemNext == Main \/ Tick \/ \E f \in Iface : Thread(f) \/ Receive(f)

SystemSpec == SystemInit /\ [][SystemNext]_system

\* The steps of a thread that are the firmware's own: from get_req to send_resp.
Handle(f) == tpc[f] # "send" /\ Thread(f)

\* A thread that can run does: all have one priority and block between requests.
\* Time passes: receiving a request takes some, so no infinity of requests is served
\* between two ticks.  Hosts need not do anything: neither Receive is fair, nor the
\* step out of send_resp, which over USB waits for ever for the host to read
\* (usb.c:177); and what is answered does not wait for main() to go on.
FairSystem == /\ SystemSpec
              /\ SF_system(Tick)
              /\ \A f \in Iface : WF_system(Handle(f))
-----------------------------------------------------------------------------
\* The device behind the request of interface f, and whether f runs its function.
DeviceOf(f) == GetDev[<<req[f].periph_id, req[f].periph_idx>>]
Runs(f, d) == tpc[f] = "call" /\ DeviceOf(f) = d

(***************************************************************************)
(* The locks that main() hands out do what they are for, and no more:      *)
(* functions of one device never run for two interfaces at once, whichever *)
(* instances they were called through, and a thread waits only for one     *)
(* that uses its own device, so a slow device holds up no users of others. *)
(***************************************************************************)
LocksProtectDevices ==
    /\ \A f, g \in Iface : \A d \in Dev : Runs(f, d) /\ Runs(g, d) => f = g
    /\ \A f \in Iface : tpc[f] = "pend" =>
          \E g \in Iface \ {f} : /\ tpc[g] \in {"call", "give"}
                                 /\ DeviceOf(g) = DeviceOf(f)

(***************************************************************************)
(* The firmware that main() sets up is the dispatcher of Dispatch.tla over *)
(* the devices themselves: to a thread, the semaphore it finds in the      *)
(* table is that of its device, and main(), which goes on while the first  *)
(* threads already run, is invisible to them.  A device without a node in  *)
(* the list counts as free.                                                *)
(***************************************************************************)
NodeOf(d) == CHOOSE n \in dev_locks : n.dev = d

LockCount == [d \in Dev |-> IF \E n \in dev_locks : n.dev = d THEN sem[NodeOf(d).lock] ELSE 1]

Devices == INSTANCE Dispatch WITH pc <- tpc, lock <- LockCount, NoDev <- None

ImplementsDispatch == Devices!Spec

(***************************************************************************)
(* LOCK_TIMEOUT is long enough for short functions: if even the functions  *)
(* of all other interfaces back to back end before LOCK_TIMEOUT, no thread *)
(* of the firmware ever reaches the BUSY answer of main.c:67-72.           *)
(***************************************************************************)
NoBusyWhenFast == Devices!NoBusyWhenFast

(***************************************************************************)
(* Every request an interface hands to the dispatcher gets to send_resp,   *)
(* on whichever path it takes through the checks, the lock and the         *)
(* function, and whatever the hosts do: one that never reads its answer    *)
(* keeps no device from the others, as the lock is given before            *)
(* (main.c:76-86).                                                         *)
(***************************************************************************)
EveryRequestAnswered == \A f \in Iface : (tpc[f] = "check") ~> (tpc[f] = "send")
=============================================================================
