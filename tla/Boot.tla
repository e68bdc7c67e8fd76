-------------------------------- MODULE Boot --------------------------------
(***************************************************************************)
(* main() of the firmware (firmware/src/main.c:89-139): it builds the      *)
(* table that gives every peripheral instance the lock of its device,      *)
(* initialises the instances, and starts the interface threads that        *)
(* Dispatch.tla describes.  Memory may run out and an init may fail.       *)
(***************************************************************************)
EXTENDS Integers

CONSTANTS
    Iface,              \* the interfaces to start
    Dev,                \* what the peripherals' get_dev returns, NULL included
    NUM_PERIPHERALS,    \* number of rows of peripherals[]
    NumIdx,             \* NumIdx[p]: instances of peripheral p
    GetDev,             \* GetDev[<<p, x>>]: device of instance x of p
    Addr,               \* addresses malloc may return
    NULL

Row == 0..NUM_PERIPHERALS - 1
Slot == UNION {{p} \X (0..NumIdx[p] - 1) : p \in Row}

ASSUME BootAssumption ==
    /\ NUM_PERIPHERALS \in Nat
    /\ NumIdx \in [Row -> Nat]
    /\ GetDev \in [Slot -> Dev]
    /\ NULL \notin Addr

VARIABLES
    pc,                 \* where main is
    i, j,               \* its loop counters
    dev_locks,          \* nodes of the list: a device and the address of its lock
    peripheral_locks,   \* peripheral_locks[<<p, x>>]: address of a lock, or NULL
    ready,              \* instances whose init(x) succeeded
    started             \* interfaces whose thread exists

vars == <<pc, i, j, dev_locks, peripheral_locks, ready, started>>

Here == <<i, j>>
Locks == {n.lock : n \in dev_locks}
-----------------------------------------------------------------------------
Init == /\ pc = "row"
        /\ i = 0
        /\ j = 0
        /\ dev_locks = {}
        /\ peripheral_locks = [s \in Slot |-> NULL]
        /\ ready = {}
        /\ started = {}

\* return -1: the loop is left where it stands, and nothing is undone.
Die == /\ pc' = "dead"
       /\ UNCHANGED <<i, j, dev_locks, peripheral_locks, ready, started>>

\* The next peripheral: none left, nothing to do, or an array of lock pointers.
SkipRow == /\ pc = "row"
           /\ i < NUM_PERIPHERALS
           /\ NumIdx[i] = 0
           /\ i' = i + 1
           /\ UNCHANGED <<pc, j, dev_locks, peripheral_locks, ready, started>>

BeginRow == /\ pc = "row"
            /\ i < NUM_PERIPHERALS
            /\ NumIdx[i] > 0
            /\ \/ /\ pc' = "find"
                  /\ j' = 0
                  /\ UNCHANGED <<i, dev_locks, peripheral_locks, ready, started>>
               \/ Die

LastRow == /\ pc = "row"
           /\ i = NUM_PERIPHERALS
           /\ pc' = "start"
           /\ UNCHANGED <<i, j, dev_locks, peripheral_locks, ready, started>>

\* Mutant of ShareLock: the devices are not compared.
ShareAny == /\ pc = "find"
            /\ \E n \in dev_locks :
                  peripheral_locks' = [peripheral_locks EXCEPT ![Here] = n.lock]
            /\ pc' = "init"
            /\ UNCHANGED <<i, j, dev_locks, ready, started>>

\* The instance takes the lock of a node with its device.  The list's order
\* would only matter if two nodes had one device.
ShareLock == /\ pc = "find"
             /\ \E n \in dev_locks :
                   /\ n.dev = GetDev[Here]
                   /\ peripheral_locks' = [peripheral_locks EXCEPT ![Here] = n.lock]
             /\ pc' = "init"
             /\ UNCHANGED <<i, j, dev_locks, ready, started>>

\* Mutant of NewLock: sys_slist_prepend is missing.
UnlistedLock == /\ pc = "find"
                /\ \E a \in Addr \ {peripheral_locks[s] : s \in Slot} :
                      peripheral_locks' = [peripheral_locks EXCEPT ![Here] = a]
                /\ pc' = "init"
                /\ UNCHANGED <<i, j, dev_locks, ready, started>>

NewLock == /\ pc = "find"
           /\ \A n \in dev_locks : n.dev # GetDev[Here]
           /\ \/ \E a \in Addr \ Locks :
                   /\ dev_locks' = dev_locks \cup {[dev |-> GetDev[Here], lock |-> a]}
                   /\ peripheral_locks' = [peripheral_locks EXCEPT ![Here] = a]
                   /\ pc' = "init"
                   /\ UNCHANGED <<i, j, ready, started>>
              \/ Die

\* Mutants of InitPeriph: a failed init is logged only; the bound of the inner
\* loop is off by one.
InitLogged == /\ pc = "init"
              /\ ready' \in {ready, ready \cup {Here}}
              /\ IF j + 1 < NumIdx[i]
                 THEN /\ pc' = "find" /\ j' = j + 1 /\ UNCHANGED i
                 ELSE /\ pc' = "row" /\ i' = i + 1 /\ UNCHANGED j
              /\ UNCHANGED <<dev_locks, peripheral_locks, started>>

InitPastEnd == /\ pc = "init"
               /\ ready' = ready \cup {Here}
               /\ IF j + 1 <= NumIdx[i]
                  THEN /\ pc' = "find" /\ j' = j + 1 /\ UNCHANGED i
                  ELSE /\ pc' = "row" /\ i' = i + 1 /\ UNCHANGED j
               /\ UNCHANGED <<dev_locks, peripheral_locks, started>>

InitPeriph == /\ pc = "init"
              /\ \/ /\ ready' = ready \cup {Here}
                    /\ IF j + 1 < NumIdx[i]
                       THEN /\ pc' = "find" /\ j' = j + 1 /\ UNCHANGED i
                       ELSE /\ pc' = "row" /\ i' = i + 1 /\ UNCHANGED j
                    /\ UNCHANGED <<dev_locks, peripheral_locks, started>>
                 \/ Die

StartThread == /\ pc = "start"
               /\ \E f \in Iface \ started : started' = started \cup {f}
               /\ UNCHANGED <<pc, i, j, dev_locks, peripheral_locks, ready>>

Done == /\ pc = "start"
        /\ started = Iface
        /\ pc' = "running"
        /\ UNCHANGED <<i, j, dev_locks, peripheral_locks, ready, started>>

Next == \/ SkipRow \/ BeginRow \/ LastRow \/ ShareLock \/ NewLock
        \/ InitPeriph \/ StartThread \/ Done

Spec == Init /\ [][Next]_vars
-----------------------------------------------------------------------------
TypeOK == /\ pc \in {"row", "find", "init", "start", "running", "dead"}
          /\ i \in 0..NUM_PERIPHERALS
          /\ j \in Nat
          /\ pc \in {"find", "init"} => Here \in Slot
          /\ dev_locks \subseteq [dev : Dev, lock : Addr]
          /\ peripheral_locks \in [Slot -> Addr \cup {NULL}]
          /\ ready \subseteq Slot
          /\ started \subseteq Iface

(***************************************************************************)
(* Two instances have one lock exactly when they have one device: pins of  *)
(* one GPIO port exclude each other, and unrelated devices never do.       *)
(***************************************************************************)
LocksMatchDevices ==
    \A s, t \in Slot :
        peripheral_locks[s] # NULL /\ peripheral_locks[t] # NULL =>
            (peripheral_locks[s] = peripheral_locks[t] <=> GetDev[s] = GetDev[t])

(***************************************************************************)
(* No interface thread exists before every instance has a lock and has     *)
(* been initialised, so a failure of main() leaves a device that answers   *)
(* nothing rather than one that uses a NULL lock (main.c:66-67).           *)
(***************************************************************************)
StartedOnlyWhenReady ==
    started # {} => ready = Slot /\ \A s \in Slot : peripheral_locks[s] # NULL

=============================================================================
