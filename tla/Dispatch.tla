------------------------------ MODULE Dispatch ------------------------------
(***************************************************************************)
(* The request dispatcher of the firmware: one thread per interface runs   *)
(* process_interface (firmware/src/main.c:27-87), and the threads share    *)
(* the devices under one binary semaphore per device.                      *)
(*                                                                         *)
(* Time advances by Tick, in units of the caller's choice; a step of a     *)
(* thread that does not block takes no time (Tick waits for it).  The      *)
(* semaphores are Zephyr's: k_sem_give hands the semaphore to the thread   *)
(* that has waited longest, and only without a waiter raises the count.    *)
(***************************************************************************)
EXTENDS Integers, FiniteSets

CONSTANTS
    Iface,              \* the interfaces: uart, usb, ... (NUM_INTERFACES threads)
    Dev,                \* what the peripherals' get_dev returns
    NUM_PERIPHERALS,    \* number of rows of peripherals[]
    NumIdx,             \* NumIdx[p]: api->num_idx
    NumFns,             \* NumFns[p]: api->num_fns
    GetDev,             \* GetDev[<<p, x>>]: the device behind instance x of p
    Request,            \* requests hosts send
    FnRetcode,          \* what the peripheral functions return
    MaxLen,             \* longest payload a peripheral function produces
    LOCK_TIMEOUT,       \* longest wait for a device, in ticks
    FnTime,             \* longest run of a peripheral function, in ticks
    NoErr, NotSupportedErr, BusyErr, NoDev, None

Slot == {s \in (0..NUM_PERIPHERALS - 1) \X Nat : s[2] < NumIdx[s[1]]}

ASSUME SizeAssumption ==
    /\ IsFiniteSet(Iface)
    /\ NUM_PERIPHERALS \in Nat
    /\ NumIdx \in [0..NUM_PERIPHERALS - 1 -> Nat]
    /\ NumFns \in [0..NUM_PERIPHERALS - 1 -> Nat]
    /\ MaxLen \in Nat
    /\ LOCK_TIMEOUT \in Nat
    /\ FnTime \in Nat

ASSUME DeviceAssumption ==
    /\ \A p \in 0..NUM_PERIPHERALS - 1 :
         \A x \in 0..NumIdx[p] - 1 : GetDev[<<p, x>>] \in Dev
    /\ NoDev \notin Dev

Retcode == FnRetcode \cup {NoErr, NotSupportedErr, BusyErr}

ASSUME RequestAssumption ==
    /\ \A r \in Request : /\ r.periph_id \in Nat
                          /\ r.periph_idx \in Nat
                          /\ r.periph_fn \in Nat
    /\ None \notin Request
    /\ None \notin Iface
    /\ None \notin [retcode : Retcode, payload_len : 0..MaxLen]

VARIABLES
    pc,         \* pc[i]: where the thread of interface i is
    req,        \* req[i]: the request it is serving
    retcode,    \* resp.retcode
    payload_len,\* the local payload_len
    lock,       \* lock[d]: count of the semaphore of device d
    waited,     \* waited[i]: ticks spent in k_sem_take, 0 outside
    ran         \* ran[i]: ticks spent in the peripheral function, 0 outside

vars == <<pc, req, retcode, payload_len, lock, waited, ran>>

PC == {"init", "stopped", "get", "check", "pend", "call", "give", "send"}

\* The three range checks, and the device of a request that passes them.
Supported(r) == /\ r.periph_id < NUM_PERIPHERALS
                /\ r.periph_idx < NumIdx[r.periph_id]
                /\ r.periph_fn < NumFns[r.periph_id]

DevOf(r) == GetDev[<<r.periph_id, r.periph_idx>>]

Waiters(d) == {i \in Iface : pc[i] = "pend" /\ DevOf(req[i]) = d}

\* Mutant of Longest: any waiter may get the device.
AnyOf(W) == W

Longest(W) == {i \in W : \A j \in W : waited[j] <= waited[i]}
-----------------------------------------------------------------------------
Init == /\ pc = [i \in Iface |-> "init"]
        /\ req = [i \in Iface |-> None]
        /\ retcode = [i \in Iface |-> NoErr]
        /\ payload_len = [i \in Iface |-> 0]
        /\ lock = [d \in Dev |-> 1]
        /\ waited = [i \in Iface |-> 0]
        /\ ran = [i \in Iface |-> 0]

\* iface->init() may fail; the thread then ends and the others go on.
InitIface(i) ==
    /\ pc[i] = "init"
    /\ \E next \in {"get", "stopped"} : pc' = [pc EXCEPT ![i] = next]
    /\ UNCHANGED <<req, retcode, payload_len, lock, waited, ran>>

GetReq(i) ==
    /\ pc[i] = "get"
    /\ \E r \in Request : req' = [req EXCEPT ![i] = r]
    /\ payload_len' = [payload_len EXCEPT ![i] = 0]
    /\ pc' = [pc EXCEPT ![i] = "check"]
    /\ UNCHANGED <<retcode, lock, waited, ran>>

\* Mutant of Reject: the thread ends instead of answering.
RejectAndQuit(i) ==
    /\ pc[i] = "check"
    /\ ~Supported(req[i])
    /\ pc' = [pc EXCEPT ![i] = "stopped"]
    /\ UNCHANGED <<req, retcode, payload_len, lock, waited, ran>>

Reject(i) ==
    /\ pc[i] = "check"
    /\ ~Supported(req[i])
    /\ retcode' = [retcode EXCEPT ![i] = NotSupportedErr]
    /\ pc' = [pc EXCEPT ![i] = "send"]
    /\ UNCHANGED <<req, payload_len, lock, waited, ran>>

\* Mutant of TakeLock: the count is not looked at.
TakeUnchecked(i) ==
    /\ pc[i] = "check"
    /\ Supported(req[i])
    /\ lock' = [lock EXCEPT ![DevOf(req[i])] = @ - 1]
    /\ pc' = [pc EXCEPT ![i] = "call"]
    /\ UNCHANGED <<req, retcode, payload_len, waited, ran>>

\* k_sem_take(lock, LOCK_TIMEOUT): at once if the count allows it, else pend.
TakeLock(i) ==
    /\ pc[i] = "check"
    /\ Supported(req[i])
    /\ lock[DevOf(req[i])] > 0
    /\ lock' = [lock EXCEPT ![DevOf(req[i])] = @ - 1]
    /\ pc' = [pc EXCEPT ![i] = "call"]
    /\ UNCHANGED <<req, retcode, payload_len, waited, ran>>

AwaitLock(i) ==
    /\ pc[i] = "check"
    /\ Supported(req[i])
    /\ lock[DevOf(req[i])] = 0
    /\ pc' = [pc EXCEPT ![i] = "pend"]
    /\ UNCHANGED <<req, retcode, payload_len, lock, waited, ran>>

\* Mutant of LockTimeout: the result of k_sem_take is ignored.
TimeoutIgnored(i) ==
    /\ pc[i] = "pend"
    /\ waited[i] = LOCK_TIMEOUT
    /\ waited' = [waited EXCEPT ![i] = 0]
    /\ pc' = [pc EXCEPT ![i] = "call"]
    /\ UNCHANGED <<req, retcode, payload_len, lock, ran>>

LockTimeout(i) ==
    /\ pc[i] = "pend"
    /\ waited[i] = LOCK_TIMEOUT
    /\ retcode' = [retcode EXCEPT ![i] = BusyErr]
    /\ waited' = [waited EXCEPT ![i] = 0]
    /\ pc' = [pc EXCEPT ![i] = "send"]
    /\ UNCHANGED <<req, payload_len, lock, ran>>

\* Mutant of CallReturn: an error leaves for send_resp before k_sem_give.
ErrorKeepsLock(i) ==
    /\ pc[i] = "call"
    /\ \E rc \in FnRetcode :
          /\ retcode' = [retcode EXCEPT ![i] = rc]
          /\ pc' = [pc EXCEPT ![i] = IF rc = NoErr THEN "give" ELSE "send"]
    /\ ran' = [ran EXCEPT ![i] = 0]
    /\ UNCHANGED <<req, payload_len, lock, waited>>

\* api->fns[periph_fn](...) returns; it may have set *resp_len before it fails.
CallReturn(i) ==
    /\ pc[i] = "call"
    /\ \E rc \in FnRetcode : retcode' = [retcode EXCEPT ![i] = rc]
    /\ \E n \in 0..MaxLen : payload_len' = [payload_len EXCEPT ![i] = n]
    /\ ran' = [ran EXCEPT ![i] = 0]
    /\ pc' = [pc EXCEPT ![i] = "give"]
    /\ UNCHANGED <<req, lock, waited>>

\* Mutant of KeptLen: the payload of a failed function is sent.
UncutLen(i) == payload_len[i]

\* Lines 78-81: an error answer loses the payload the function prepared.
KeptLen(i) == IF retcode[i] # NoErr THEN 0 ELSE payload_len[i]

\* k_sem_give: the thread that waited longest gets the device directly;
\* without a waiter the count rises, to its limit of 1.
GiveLock(i) ==
    /\ pc[i] = "give"
    /\ Waiters(DevOf(req[i])) = {}
    /\ lock' = [lock EXCEPT ![DevOf(req[i])] = 1]
    /\ pc' = [pc EXCEPT ![i] = "send"]
    /\ payload_len' = [payload_len EXCEPT ![i] = KeptLen(i)]
    /\ UNCHANGED <<req, retcode, waited, ran>>

HandOver(i, w) ==
    /\ pc[i] = "give"
    /\ w \in Longest(Waiters(DevOf(req[i])))
    /\ pc' = [pc EXCEPT ![i] = "send", ![w] = "call"]
    /\ waited' = [waited EXCEPT ![w] = 0]
    /\ payload_len' = [payload_len EXCEPT ![i] = KeptLen(i)]
    /\ UNCHANGED <<req, retcode, lock, ran>>

\* iface->send_resp() returns when the answer is sent: over a serial line that is up
\* to the interrupt handler, over USB to the host, which may never read or reset.
\* The model forgets req and resp here: both are written before they are read
\* again (lines 40, 44, and 48, 56, 62, 70 or 73).
SendResp(i) ==
    /\ pc[i] = "send"
    /\ pc' = [pc EXCEPT ![i] = "get"]
    /\ req' = [req EXCEPT ![i] = None]
    /\ retcode' = [retcode EXCEPT ![i] = NoErr]
    /\ payload_len' = [payload_len EXCEPT ![i] = 0]
    /\ UNCHANGED <<lock, waited, ran>>

\* Time passes while every thread waits for something: a request, its turn,
\* its peripheral or its host; the two timed waits stop it at their ends.
Tick ==
    /\ \A i \in Iface : /\ pc[i] \in {"stopped", "get", "pend", "call", "send"}
                        /\ pc[i] = "pend" => waited[i] < LOCK_TIMEOUT
                        /\ pc[i] = "call" => ran[i] < FnTime
    /\ waited' = [i \in Iface |-> IF pc[i] = "pend" THEN waited[i] + 1 ELSE waited[i]]
    /\ ran' = [i \in Iface |-> IF pc[i] = "call" THEN ran[i] + 1 ELSE ran[i]]
    /\ UNCHANGED <<pc, req, retcode, payload_len, lock>>

Process(i) == \/ InitIface(i)   \/ Reject(i)     \/ TakeLock(i) \/ AwaitLock(i)
              \/ LockTimeout(i) \/ CallReturn(i) \/ GiveLock(i) \/ SendResp(i)
              \/ \E w \in Iface : HandOver(i, w)

Next == Tick \/ \E i \in Iface : GetReq(i) \/ Process(i)

Spec == Init /\ [][Next]_vars
-----------------------------------------------------------------------------
TypeOK == /\ pc \in [Iface -> PC]
          /\ req \in [Iface -> Request \cup {None}]
          /\ retcode \in [Iface -> Retcode]
          /\ payload_len \in [Iface -> 0..MaxLen]
          /\ lock \in [Dev -> 0..1]
          /\ waited \in [Iface -> 0..LOCK_TIMEOUT]
          /\ ran \in [Iface -> 0..FnTime]

\* Interface i is between k_sem_take and k_sem_give on the lock of device d.
Holds(i, d) == pc[i] \in {"call", "give"} /\ DevOf(req[i]) = d

(***************************************************************************)
(* Peripheral functions never run at once on one device, even through      *)
(* different peripheral instances that share it: the driver state behind   *)
(* api->fns is only ever touched by one interface thread.                  *)
(***************************************************************************)
DeviceExclusion == \A i, j \in Iface : \A d \in Dev :
                      Holds(i, d) /\ Holds(j, d) => i = j

(***************************************************************************)
(* No wakeup is lost and no lock leaks: a device's semaphore is 0 exactly  *)
(* while one thread is between its take and its give, so a thread that     *)
(* waits always waits for a thread that will give.                         *)
(***************************************************************************)
LockAccounted == /\ \A d \in Dev : lock[d] = 0 <=> \E i \in Iface : Holds(i, d)
                 /\ \A d \in Dev : Waiters(d) # {} => lock[d] = 0

(***************************************************************************)
(* LOCK_TIMEOUT is long enough for short functions: if even the functions  *)
(* of all other interfaces back to back end before LOCK_TIMEOUT, no thread *)
(* ever reaches the BUSY answer of main.c:67-72.                           *)
(***************************************************************************)
NoBusyWhenFast ==
    (Cardinality(Iface) - 1) * FnTime < LOCK_TIMEOUT =>
        \A i \in Iface : pc[i] = "pend" => waited[i] < LOCK_TIMEOUT

(***************************************************************************)
(* The dispatcher implements DeviceService: one answer per request, one    *)
(* user per device, BUSY only while another interface has the device, no   *)
(* payload with an error (main.c:78-81).                                   *)
(***************************************************************************)
Target == [r \in Request |-> IF Supported(r) THEN DevOf(r) ELSE NoDev]

JobOf == [i \in Iface |-> IF pc[i] \in {"init", "stopped", "get"} THEN None ELSE req[i]]

OwnerOf == [d \in Dev |-> IF \E i \in Iface : Holds(i, d)
                          THEN CHOOSE i \in Iface : Holds(i, d) ELSE None]

AnswerOf == [i \in Iface |-> IF pc[i] = "send"
                             THEN [retcode |-> retcode[i], payload_len |-> payload_len[i]]
                             ELSE None]

Service == INSTANCE DeviceService
           WITH job <- JobOf, owner <- OwnerOf, answer <- AnswerOf

ImplementsService == Service!Spec
=============================================================================
