--------------------------- MODULE DispatchProofs ---------------------------
(***************************************************************************)
(* Safety of the dispatcher for any number of interfaces, peripherals and  *)
(* devices, any requests and any timing.                                   *)
(***************************************************************************)
EXTENDS Dispatch, FiniteSetTheorems, TLAPS

\* A thread past get_req holds a request, and past the checks a supported one.
RequestHeld == \A i \in Iface :
    /\ pc[i] \in {"check", "pend", "call", "give", "send"} => req[i] \in Request
    /\ pc[i] \in {"pend", "call", "give"} => Supported(req[i])

\* Until the function returns there is no payload to send.
NothingPrepared == \A i \in Iface : pc[i] \in {"check", "pend"} => payload_len[i] = 0

\* When it has returned, retcode is one of the functions' codes.
FunctionResult == \A i \in Iface : pc[i] = "give" => retcode[i] \in FnRetcode

IInv == TypeOK /\ RequestHeld /\ NothingPrepared /\ FunctionResult /\ DeviceExclusion /\ LockAccounted

\* The device of a supported request is one of the devices.
LEMMA SupportedDev ==
    ASSUME NEW r \in Request, Supported(r)
    PROVE  DevOf(r) \in Dev
<1>1. r.periph_id \in Nat /\ r.periph_idx \in Nat
  BY RequestAssumption
<1>2. NumIdx[r.periph_id] \in Nat
  BY <1>1, SizeAssumption DEF Supported
<1>3. r.periph_id \in 0..NUM_PERIPHERALS - 1 /\ r.periph_idx \in 0..NumIdx[r.periph_id] - 1
  BY <1>1, <1>2, SizeAssumption DEF Supported
<1>. QED
  BY <1>3, DeviceAssumption DEF DevOf

LEMMA InitIInv == Init => IInv
BY SizeAssumption, RequestAssumption
   DEF Init, IInv, TypeOK, PC, Retcode, RequestHeld, NothingPrepared,
       FunctionResult, DeviceExclusion, LockAccounted,
       Holds, Waiters

LEMMA StepType == TypeOK /\ RequestHeld /\ [Next]_vars => TypeOK'
<1> SUFFICES ASSUME TypeOK, RequestHeld, [Next]_vars PROVE TypeOK'
  OBVIOUS
<1> USE SizeAssumption DEF TypeOK, PC, Retcode
<1>1. CASE Tick
  BY <1>1 DEF Tick
<1>2. ASSUME NEW i \in Iface, GetReq(i) PROVE TypeOK'
  BY <1>2 DEF GetReq
<1>3. ASSUME NEW i \in Iface, InitIface(i) PROVE TypeOK'
  BY <1>3 DEF InitIface
<1>4. ASSUME NEW i \in Iface, Reject(i) PROVE TypeOK'
  BY <1>4 DEF Reject
<1>5. ASSUME NEW i \in Iface, TakeLock(i) PROVE TypeOK'
  <2>1. DevOf(req[i]) \in Dev
    BY <1>5, SupportedDev DEF TakeLock, RequestHeld
  <2>2. lock[DevOf(req[i])] - 1 \in 0..1
    BY <1>5, <2>1 DEF TakeLock
  <2>. QED
    BY <1>5, <2>1, <2>2 DEF TakeLock
<1>6. ASSUME NEW i \in Iface, AwaitLock(i) PROVE TypeOK'
  BY <1>6 DEF AwaitLock
<1>7. ASSUME NEW i \in Iface, LockTimeout(i) PROVE TypeOK'
  BY <1>7 DEF LockTimeout
<1>8. ASSUME NEW i \in Iface, CallReturn(i) PROVE TypeOK'
  BY <1>8 DEF CallReturn
<1>9. ASSUME NEW i \in Iface, GiveLock(i) PROVE TypeOK'
  <2>1. KeptLen(i) \in 0..MaxLen
    BY DEF KeptLen
  <2>2. payload_len' \in [Iface -> 0..MaxLen]
    BY <1>9, <2>1 DEF GiveLock
  <2>3. DevOf(req[i]) \in Dev
    BY <1>9, SupportedDev DEF GiveLock, RequestHeld
  <2>4. lock' = [lock EXCEPT ![DevOf(req[i])] = 1]
    BY <1>9 DEF GiveLock
  <2>5. lock' \in [Dev -> 0..1]
    BY <2>3, <2>4
  <2>. QED
    BY <1>9, <2>2, <2>5 DEF GiveLock
<1>10. ASSUME NEW i \in Iface, NEW w \in Iface, HandOver(i, w) PROVE TypeOK'
  <2>1. KeptLen(i) \in 0..MaxLen
    BY DEF KeptLen
  <2>2. payload_len' \in [Iface -> 0..MaxLen]
    BY <1>10, <2>1 DEF HandOver
  <2>3. waited' = [waited EXCEPT ![w] = 0] /\ 0 \in 0..LOCK_TIMEOUT
    BY <1>10 DEF HandOver
  <2>4. waited' \in [Iface -> 0..LOCK_TIMEOUT]
    BY <2>3
  <2>5. pc' \in [Iface -> PC]
    BY <1>10 DEF HandOver
  <2>. QED
    BY <1>10, <2>2, <2>4, <2>5 DEF HandOver
<1>11. ASSUME NEW i \in Iface, SendResp(i) PROVE TypeOK'
  BY <1>11 DEF SendResp
<1>12. CASE UNCHANGED vars
  BY <1>12 DEF vars
<1>. QED
  BY <1>1, <1>2, <1>3, <1>4, <1>5, <1>6, <1>7, <1>8, <1>9, <1>10, <1>11, <1>12
     DEF Next, Process

LEMMA StepHeld == TypeOK /\ RequestHeld /\ [Next]_vars => RequestHeld'
<1> SUFFICES ASSUME TypeOK, RequestHeld, [Next]_vars PROVE RequestHeld'
  OBVIOUS
<1> USE DEF TypeOK, PC, RequestHeld
<1>1. CASE Tick
  BY <1>1 DEF Tick
<1>2. ASSUME NEW i \in Iface, GetReq(i) PROVE RequestHeld'
  BY <1>2 DEF GetReq
<1>3. ASSUME NEW i \in Iface, InitIface(i) PROVE RequestHeld'
  BY <1>3 DEF InitIface
<1>4. ASSUME NEW i \in Iface, Reject(i) PROVE RequestHeld'
  BY <1>4 DEF Reject
<1>5. ASSUME NEW i \in Iface, TakeLock(i) PROVE RequestHeld'
  BY <1>5 DEF TakeLock
<1>6. ASSUME NEW i \in Iface, AwaitLock(i) PROVE RequestHeld'
  BY <1>6 DEF AwaitLock
<1>7. ASSUME NEW i \in Iface, LockTimeout(i) PROVE RequestHeld'
  BY <1>7 DEF LockTimeout
<1>8. ASSUME NEW i \in Iface, CallReturn(i) PROVE RequestHeld'
  BY <1>8 DEF CallReturn
<1>9. ASSUME NEW i \in Iface, GiveLock(i) PROVE RequestHeld'
  BY <1>9 DEF GiveLock
<1>10. ASSUME NEW i \in Iface, NEW w \in Iface, HandOver(i, w) PROVE RequestHeld'
  BY <1>10 DEF HandOver, Longest, Waiters
<1>11. ASSUME NEW i \in Iface, SendResp(i) PROVE RequestHeld'
  BY <1>11 DEF SendResp
<1>12. CASE UNCHANGED vars
  BY <1>12 DEF vars
<1>. QED
  BY <1>1, <1>2, <1>3, <1>4, <1>5, <1>6, <1>7, <1>8, <1>9, <1>10, <1>11, <1>12
     DEF Next, Process

LEMMA StepPrepared ==
    TypeOK /\ NothingPrepared /\ FunctionResult /\ [Next]_vars
        => NothingPrepared' /\ FunctionResult'
BY DEF TypeOK, PC, NothingPrepared, FunctionResult, Next, Process, vars, Tick, GetReq, InitIface, Reject,
       TakeLock, AwaitLock, LockTimeout, CallReturn, GiveLock, HandOver, SendResp, Longest, Waiters

\* A thread holds the device its request is for, and no other.
LEMMA HoldsOne ==
    ASSUME RequestHeld, NEW i \in Iface, pc[i] \in {"call", "give"}
    PROVE  /\ DevOf(req[i]) \in Dev
           /\ Holds(i, DevOf(req[i]))
           /\ \A d : Holds(i, d) <=> d = DevOf(req[i])
BY SupportedDev DEF RequestHeld, Holds

LEMMA StepLock ==
    TypeOK /\ RequestHeld /\ DeviceExclusion /\ LockAccounted /\ [Next]_vars
        => DeviceExclusion' /\ LockAccounted'
<1> SUFFICES ASSUME TypeOK, RequestHeld, DeviceExclusion, LockAccounted, [Next]_vars
             PROVE  DeviceExclusion' /\ LockAccounted'
  OBVIOUS
<1> USE DEF TypeOK, PC, DeviceExclusion, LockAccounted, Holds, Waiters
<1>1. CASE Tick
  BY <1>1 DEF Tick
<1>2. ASSUME NEW i \in Iface, GetReq(i) PROVE DeviceExclusion' /\ LockAccounted'
  BY <1>2 DEF GetReq
<1>3. ASSUME NEW i \in Iface, InitIface(i) PROVE DeviceExclusion' /\ LockAccounted'
  BY <1>3 DEF InitIface
<1>4. ASSUME NEW i \in Iface, Reject(i) PROVE DeviceExclusion' /\ LockAccounted'
  BY <1>4 DEF Reject
<1>5. ASSUME NEW i \in Iface, TakeLock(i) PROVE DeviceExclusion' /\ LockAccounted'
  <2>1. DevOf(req[i]) \in Dev
    BY <1>5, SupportedDev DEF TakeLock, RequestHeld
  <2>0. lock[DevOf(req[i])] = 1
    BY <1>5, <2>1 DEF TakeLock
  <2>2. /\ lock[DevOf(req[i])] = 1
        /\ lock' = [lock EXCEPT ![DevOf(req[i])] = 0]
        /\ pc' = [pc EXCEPT ![i] = "call"]
        /\ req' = req
    BY <1>5, <2>0 DEF TakeLock
  <2>3. \A j \in Iface : ~Holds(j, DevOf(req[i]))
    BY <2>1, <2>2
  <2>4. DeviceExclusion'
    BY <2>1, <2>2, <2>3
  <2>5. \A d \in Dev : (\E j \in Iface : Holds(j, d)') <=>
                       d = DevOf(req[i]) \/ (\E j \in Iface : Holds(j, d))
    BY <1>5, <2>2 DEF TakeLock
  <2>6. \A d \in Dev : Waiters(d)' = Waiters(d)
    BY <1>5, <2>2 DEF TakeLock
  <2>7. LockAccounted'
    BY <2>1, <2>2, <2>5, <2>6
  <2>. QED
    BY <2>4, <2>7
<1>6. ASSUME NEW i \in Iface, AwaitLock(i) PROVE DeviceExclusion' /\ LockAccounted'
  BY <1>6 DEF AwaitLock
<1>7. ASSUME NEW i \in Iface, LockTimeout(i) PROVE DeviceExclusion' /\ LockAccounted'
  BY <1>7 DEF LockTimeout
<1>8. ASSUME NEW i \in Iface, CallReturn(i) PROVE DeviceExclusion' /\ LockAccounted'
  BY <1>8 DEF CallReturn
<1>9. ASSUME NEW i \in Iface, GiveLock(i) PROVE DeviceExclusion' /\ LockAccounted'
  <2>1. DevOf(req[i]) \in Dev
    BY <1>9, SupportedDev DEF GiveLock, RequestHeld
  <2>2. /\ pc[i] = "give"
        /\ lock' = [lock EXCEPT ![DevOf(req[i])] = 1]
        /\ pc' = [pc EXCEPT ![i] = "send"]
        /\ req' = req
        /\ \A j \in Iface : ~(pc[j] = "pend" /\ DevOf(req[j]) = DevOf(req[i]))
    BY <1>9 DEF GiveLock
  <2>. QED
    BY <2>1, <2>2
<1>10. ASSUME NEW i \in Iface, NEW w \in Iface, HandOver(i, w)
       PROVE  DeviceExclusion' /\ LockAccounted'
  <2>1. /\ pc[i] = "give"
        /\ pc[w] = "pend"
        /\ DevOf(req[w]) = DevOf(req[i])
        /\ pc' = [pc EXCEPT ![i] = "send", ![w] = "call"]
        /\ req' = req
        /\ lock' = lock
    BY <1>10 DEF HandOver, Longest
  <2>. QED
    BY <2>1
<1>11. ASSUME NEW i \in Iface, SendResp(i) PROVE DeviceExclusion' /\ LockAccounted'
  BY <1>11 DEF SendResp
<1>12. CASE UNCHANGED vars
  BY <1>12 DEF vars
<1>. QED
  BY <1>1, <1>2, <1>3, <1>4, <1>5, <1>6, <1>7, <1>8, <1>9, <1>10, <1>11, <1>12
     DEF Next, Process

(***************************************************************************)
(* The inductive invariant holds in every reachable state.                 *)
(***************************************************************************)
THEOREM Invariance == Spec => []IInv
<1>1. IInv /\ [Next]_vars => IInv'
  BY StepType, StepHeld, StepPrepared, StepLock DEF IInv
<1>. QED
  BY InitIInv, <1>1, PTL DEF Spec

(***************************************************************************)
(* process_interface keeps its data within their types.                    *)
(***************************************************************************)
THEOREM TypeCorrect == Spec => []TypeOK
BY Invariance, PTL DEF IInv

(***************************************************************************)
(* Two interface threads never run functions of one device at once         *)
(* (main.c:66-76).                                                         *)
(***************************************************************************)
THEOREM Exclusion == Spec => []DeviceExclusion
BY Invariance, PTL DEF IInv

(***************************************************************************)
(* A device's semaphore is 0 exactly while a thread holds it, and whoever  *)
(* waits for it waits for a holder (main.c:66-76, with the time-out path). *)
(***************************************************************************)
THEOREM LocksAccounted == Spec => []LockAccounted
BY Invariance, PTL DEF IInv
-----------------------------------------------------------------------------
(* How long a thread waits. *)

\* The clocks of a thread stand still outside the two places they measure.
Clocks == \A i \in Iface : /\ pc[i] # "pend" => waited[i] = 0
                           /\ pc[i] # "call" => ran[i] = 0

\* The threads that k_sem_give may prefer to f, and how long h still runs.
Ahead(f) == {g \in Waiters(DevOf(req[f])) : g # f /\ waited[g] >= waited[f]}
Left(h) == IF pc[h] = "give" THEN 0 ELSE FnTime - ran[h]

\* The longest wait there can be: every other interface has the device once.
LongestWait == (Cardinality(Iface) - 1) * FnTime

\* What a thread has waited and what it may still have to wait.
QueueBounded == \A f, h \in Iface :
    pc[f] = "pend" /\ Holds(h, DevOf(req[f])) =>
        waited[f] + Cardinality(Ahead(f)) * FnTime + Left(h) <= LongestWait

BoundedWait == \A i \in Iface : waited[i] <= LongestWait

WInv == IInv /\ Clocks /\ QueueBounded

LEMMA Scale ==
    ASSUME NEW a \in Nat, NEW b \in Nat, a <= b
    PROVE  a * FnTime \in Nat /\ a * FnTime <= b * FnTime /\ (a + 1) * FnTime = a * FnTime + FnTime
<1>1. FnTime \in Nat
  BY SizeAssumption
<1>2. PICK c \in Nat : b = a + c
  <2>1. b - a \in Nat /\ b = a + (b - a)
    OBVIOUS
  <2>. QED
    BY <2>1
<1>3. b * FnTime = a * FnTime + c * FnTime /\ c * FnTime \in Nat /\ a * FnTime \in Nat
  BY <1>1, <1>2
<1>. QED
  BY <1>1, <1>3

\* Whoever begins to wait has at most the others before it, one of them running.
LEMMA FreshWait ==
    ASSUME NEW A, A \subseteq Iface, NEW f \in Iface, NEW h \in Iface, f # h, f \notin A, h \notin A,
           NEW left \in 0..FnTime
    PROVE  Cardinality(A) * FnTime + left <= LongestWait
<1>1. IsFiniteSet(Iface) /\ FnTime \in Nat
  BY SizeAssumption
<1>2. /\ IsFiniteSet(Iface \ {f}) /\ Cardinality(Iface \ {f}) = Cardinality(Iface) - 1
      /\ Cardinality(Iface) \in Nat
  BY <1>1, FS_RemoveElement, FS_CardinalityType
<1>3. /\ IsFiniteSet((Iface \ {f}) \ {h})
      /\ Cardinality((Iface \ {f}) \ {h}) = Cardinality(Iface \ {f}) - 1
      /\ Cardinality((Iface \ {f}) \ {h}) \in Nat
  BY <1>2, FS_RemoveElement, FS_CardinalityType
<1>4. /\ Cardinality(A) \in Nat
      /\ Cardinality(A) <= Cardinality((Iface \ {f}) \ {h})
  BY <1>3, A \subseteq (Iface \ {f}) \ {h}, FS_Subset, FS_CardinalityType
<1> DEFINE n == Cardinality((Iface \ {f}) \ {h})
<1>5. n \in Nat /\ Cardinality(Iface) - 1 = n + 1
  BY <1>2, <1>3
<1>6. Cardinality(A) * FnTime <= n * FnTime /\ Cardinality(A) * FnTime \in Nat
  BY <1>4, <1>5, Scale
<1>7. LongestWait = n * FnTime + FnTime /\ n * FnTime \in Nat
  <2>1. LongestWait = (n + 1) * FnTime
    BY <1>5 DEF LongestWait
  <2>. QED
    BY <2>1, <1>5, Scale
<1> HIDE DEF n
<1>. QED
  BY <1>1, <1>6, <1>7

\* The set of threads ahead is finite, so it may be counted.
LEMMA AheadFinite ==
    ASSUME NEW f \in Iface
    PROVE  /\ Ahead(f) \subseteq Iface
           /\ IsFiniteSet(Ahead(f))
           /\ Cardinality(Ahead(f)) \in Nat
<1>1. Ahead(f) \subseteq Iface
  BY DEF Ahead, Waiters
<1>. QED
  BY <1>1, SizeAssumption, FS_Subset, FS_CardinalityType

\* A wait that is no longer and has no more ahead of it keeps the bound.
LEMMA KeptBound ==
    ASSUME NEW A, NEW B, IsFiniteSet(A), B \subseteq A,
           NEW x \in Int, NEW l \in Int, NEW y \in Int, NEW k \in Int,
           y + k <= x + l,
           x + Cardinality(A) * FnTime + l <= LongestWait
    PROVE  y + Cardinality(B) * FnTime + k <= LongestWait
<1>1. /\ Cardinality(A) \in Nat /\ Cardinality(B) \in Nat
      /\ Cardinality(B) <= Cardinality(A)
  BY FS_Subset, FS_CardinalityType
<1>2. /\ Cardinality(A) * FnTime \in Nat /\ Cardinality(B) * FnTime \in Nat
      /\ Cardinality(B) * FnTime <= Cardinality(A) * FnTime
  BY <1>1, Scale
<1>3. LongestWait \in Int
  BY SizeAssumption, FS_CardinalityType DEF LongestWait
<1>. QED
  BY <1>2, <1>3

\* The waiter that k_sem_give chose is not ahead any more, and begins to run.
LEMMA PassedOver ==
    ASSUME NEW A, NEW w \in A, IsFiniteSet(A), NEW x \in Int,
           x + Cardinality(A) * FnTime <= LongestWait
    PROVE  x + Cardinality(A \ {w}) * FnTime + FnTime <= LongestWait
<1>1. /\ Cardinality(A) \in Nat /\ Cardinality(A \ {w}) \in Nat
      /\ Cardinality(A \ {w}) = Cardinality(A) - 1
  BY FS_RemoveElement, FS_CardinalityType
<1> DEFINE n == Cardinality(A \ {w})
<1>2. Cardinality(A) = n + 1 /\ n \in Nat
  BY <1>1
<1>3. Cardinality(A) * FnTime = n * FnTime + FnTime /\ n * FnTime \in Nat
  BY <1>2, Scale
<1>4. LongestWait \in Int /\ FnTime \in Nat
  BY SizeAssumption, FS_CardinalityType DEF LongestWait
<1> HIDE DEF n
<1>5. x + n * FnTime + FnTime <= LongestWait
  BY <1>3, <1>4
<1>. QED
  BY <1>5 DEF n

LEMMA StepClocks == TypeOK /\ Clocks /\ [Next]_vars => Clocks'
BY DEF TypeOK, PC, Clocks, Next, Process, vars, Tick, GetReq, InitIface, Reject, TakeLock, AwaitLock,
       LockTimeout, CallReturn, GiveLock, HandOver, SendResp, Longest, Waiters

\* What QueueBounded says of one waiter and one holder.
Bound(f, h) == waited[f] + Cardinality(Ahead(f)) * FnTime + Left(h) <= LongestWait

LEMMA StepQueue ==
    ASSUME WInv, [Next]_vars, IInv', Clocks'
    PROVE  QueueBounded'
<1> SUFFICES ASSUME NEW f \in Iface, NEW h \in Iface,
                    pc'[f] = "pend", Holds(h, DevOf(req[f]))'
             PROVE  Bound(f, h)'
  BY DEF QueueBounded, Bound
<1> USE DEF WInv, IInv, TypeOK, PC
<1>1. f # h /\ ran'[h] \in 0..FnTime /\ FnTime \in Nat
  BY SizeAssumption DEF Holds
<1>2. Left(h) \in Int /\ Left(h)' \in 0..FnTime /\ waited[f] \in Int /\ waited'[f] \in Int
  <2>1. ran[h] \in 0..FnTime /\ pc' \in [Iface -> PC]
    OBVIOUS
  <2>2. LOCK_TIMEOUT \in Nat /\ waited[f] \in 0..LOCK_TIMEOUT /\ waited'[f] \in 0..LOCK_TIMEOUT
    BY SizeAssumption
  <2>3. Left(h)' = IF pc'[h] = "give" THEN 0 ELSE FnTime - ran'[h]
    BY DEF Left
  <2>. QED
    BY <1>1, <2>1, <2>2, <2>3 DEF Left
<1>3. IsFiniteSet(Ahead(f)) /\ Ahead(f) \subseteq Iface
  BY AheadFinite
\* Who has not waited yet has the bound, whatever the step was.
<1>4. ASSUME waited'[f] = 0 PROVE Bound(f, h)'
  <2>1. Ahead(f)' \subseteq Iface /\ f \notin Ahead(f)'
    BY DEF Ahead, Waiters
  <2>2. h \notin Ahead(f)'
    BY DEF Ahead, Waiters, Holds
  <2>3. Cardinality(Ahead(f)') * FnTime + Left(h)' <= LongestWait
    BY <1>1, <1>2, <2>1, <2>2, FreshWait
  <2>4. Cardinality(Ahead(f)') * FnTime \in Int
    <3>1. Cardinality(Ahead(f)') \in Nat
      BY <2>1, SizeAssumption, FS_Subset, FS_CardinalityType
    <3>. QED
      BY <3>1, <1>1
  <2>. QED
    BY <1>2, <1>4, <2>3, <2>4 DEF Bound, LongestWait
\* Who waited before and waits no longer for the same holder keeps it.
<1>5. ASSUME pc[f] = "pend", Holds(h, DevOf(req[f])),
             Ahead(f)' \subseteq Ahead(f),
             waited'[f] + Left(h)' <= waited[f] + Left(h)
      PROVE  Bound(f, h)'
  <2>1. waited[f] + Cardinality(Ahead(f)) * FnTime + Left(h) <= LongestWait
    BY <1>5 DEF QueueBounded
  <2>. QED
    BY <1>2, <1>3, <1>5, <2>1, KeptBound DEF Bound, LongestWait
<1>6. CASE Tick
  <2>1. UNCHANGED <<pc, req, lock>>
    BY <1>6 DEF Tick
  <2>2. pc[f] = "pend" /\ Holds(h, DevOf(req[f])) /\ pc[h] = "call"
    BY <1>6, <2>1 DEF Tick, Holds
  <2>3. waited'[f] = waited[f] + 1 /\ ran'[h] = ran[h] + 1
    BY <1>6, <2>2 DEF Tick
  <2>4. \A g \in Iface : pc[g] = "pend" => waited'[g] = waited[g] + 1
    BY <1>6 DEF Tick
  <2>5. \A g \in Iface : waited[g] \in Int
    BY SizeAssumption
  <2>6. Ahead(f)' \subseteq Ahead(f)
    BY <2>1, <2>2, <2>4, <2>5 DEF Ahead, Waiters
  <2>7. ran[h] \in Int
    OBVIOUS
  <2>8. Left(h) = FnTime - ran[h] /\ Left(h)' = FnTime - (ran[h] + 1)
    BY <2>1, <2>2, <2>3 DEF Left
  <2>9. waited'[f] + Left(h)' <= waited[f] + Left(h)
    BY <1>1, <1>2, <2>3, <2>7, <2>8
  <2>. QED
    BY <1>5, <2>2, <2>6, <2>9
<1>7. ASSUME NEW i \in Iface, AwaitLock(i) PROVE Bound(f, h)'
  <2>1. waited[i] = 0 /\ i # h
    BY <1>7 DEF AwaitLock, Clocks, Holds
  <2>2. CASE waited'[f] = 0
    BY <1>4, <2>2
  <2>3. CASE waited'[f] # 0
    <3>1. i # f /\ UNCHANGED <<req, waited, ran>>
      BY <1>7, <2>1, <2>3 DEF AwaitLock
    <3>2. pc[f] = "pend" /\ Holds(h, DevOf(req[f])) /\ pc'[h] = pc[h]
      BY <1>7, <2>1, <3>1 DEF AwaitLock, Holds
    <3>3. ~(waited[i] >= waited[f])
      BY <2>1, <2>3, <3>1, SizeAssumption
    <3>4. Ahead(f)' \subseteq Ahead(f)
      BY <1>7, <3>1, <3>3 DEF AwaitLock, Ahead, Waiters
    <3>5. waited'[f] + Left(h)' <= waited[f] + Left(h)
      BY <1>2, <3>1, <3>2 DEF Left
    <3>. QED
      BY <1>5, <3>2, <3>4, <3>5
  <2>. QED
    BY <2>2, <2>3
<1>8. ASSUME NEW i \in Iface, TakeLock(i) PROVE Bound(f, h)'
  <2>1. i # f /\ pc[f] = "pend" /\ UNCHANGED <<req, waited, ran>>
    BY <1>8 DEF TakeLock
  <2>2. lock[DevOf(req[f])] = 0
    BY <2>1, SupportedDev DEF RequestHeld, LockAccounted, Waiters
  <2>3. i # h
    BY <1>8, <2>1, <2>2 DEF TakeLock, Holds
  <2>4. pc'[h] = pc[h] /\ Holds(h, DevOf(req[f]))
    BY <1>8, <2>1, <2>3 DEF TakeLock, Holds
  <2>5. Ahead(f)' \subseteq Ahead(f)
    BY <1>8, <2>1 DEF TakeLock, Ahead, Waiters
  <2>6. waited'[f] + Left(h)' <= waited[f] + Left(h)
    BY <1>2, <2>1, <2>4 DEF Left
  <2>. QED
    BY <1>5, <2>1, <2>4, <2>5, <2>6
<1>9. ASSUME NEW i \in Iface, NEW w \in Iface, HandOver(i, w) PROVE Bound(f, h)'
  <2>1. /\ pc[i] = "give" /\ pc[w] = "pend" /\ DevOf(req[w]) = DevOf(req[i]) /\ i # w
        /\ \A v \in Waiters(DevOf(req[i])) : waited[v] <= waited[w]
        /\ w \in Waiters(DevOf(req[i]))
    BY <1>9 DEF HandOver, Longest, Waiters
  <2>2. /\ pc' = [pc EXCEPT ![i] = "send", ![w] = "call"]
        /\ waited' = [waited EXCEPT ![w] = 0]
        /\ UNCHANGED <<req, ran>>
    BY <1>9 DEF HandOver
  <2>3. f # i /\ f # w /\ pc[f] = "pend" /\ waited'[f] = waited[f] /\ h # i
    BY <2>1, <2>2 DEF Holds
  <2>4. Ahead(f)' \subseteq Ahead(f) \ {w}
    BY <2>1, <2>2, <2>3 DEF Ahead, Waiters
  <2>5. CASE h = w
    <3>1. Holds(i, DevOf(req[f]))
      BY <2>1, <2>2, <2>5 DEF Holds
    <3>2. waited[f] + Cardinality(Ahead(f)) * FnTime <= LongestWait
      <4>1. waited[f] + Cardinality(Ahead(f)) * FnTime + 0 <= LongestWait
        BY <2>1, <2>3, <3>1 DEF QueueBounded, Left
      <4>2. Cardinality(Ahead(f)) * FnTime \in Int
        BY <1>1, AheadFinite
      <4>. QED
        BY <1>2, <4>1, <4>2
    <3>3. w \in Ahead(f)
      BY <2>1, <2>3, <3>1 DEF Ahead, Waiters, Holds
    <3>4. waited[f] + Cardinality(Ahead(f) \ {w}) * FnTime + FnTime <= LongestWait
      BY <1>2, <1>3, <3>2, <3>3, PassedOver
    <3>5. IsFiniteSet(Ahead(f) \ {w})
      BY <1>3, FS_RemoveElement
    <3>6. waited'[f] + Left(h)' <= waited[f] + FnTime
      BY <1>2, <2>3, <1>1
    <3>7. waited'[f] + Cardinality(Ahead(f)') * FnTime + Left(h)' <= LongestWait
      BY <1>1, <1>2, <2>4, <3>4, <3>5, <3>6, KeptBound
    <3>. QED
      BY <3>7 DEF Bound, LongestWait
  <2>6. CASE h # w
    <3>1. pc'[h] = pc[h] /\ Holds(h, DevOf(req[f]))
      BY <2>2, <2>3, <2>6 DEF Holds
    <3>2. waited'[f] + Left(h)' <= waited[f] + Left(h)
      BY <1>2, <2>2, <2>3, <3>1 DEF Left
    <3>. QED
      BY <1>5, <2>3, <2>4, <3>1, <3>2
  <2>. QED
    BY <2>5, <2>6
<1>10. ASSUME NEW i \in Iface, CallReturn(i) PROVE Bound(f, h)'
  <2>1. pc[f] = "pend" /\ Holds(h, DevOf(req[f])) /\ UNCHANGED <<req, waited>>
    BY <1>10 DEF CallReturn, Holds
  <2>2. Ahead(f)' \subseteq Ahead(f)
    BY <1>10, <2>1 DEF CallReturn, Ahead, Waiters
  <2>3. Left(h)' <= Left(h)
    <3>1. CASE h = i
      <4>1. Left(h)' = 0 /\ Left(h) = FnTime - ran[h] /\ ran[h] \in 0..FnTime
        BY <1>10, <3>1 DEF CallReturn, Left
      <4>. QED
        BY <4>1, <1>1
    <3>2. CASE h # i
      <4>1. Left(h)' = Left(h)
        BY <1>10, <3>2 DEF CallReturn, Left
      <4>. QED
        BY <4>1, <1>2
    <3>. QED
      BY <3>1, <3>2
  <2>. QED
    BY <1>2, <1>5, <2>1, <2>2, <2>3
\* The other steps concern neither who holds nor who waits, but that some stop waiting.
<1>11. CASE UNCHANGED vars
            \/ \E i \in Iface : \/ GetReq(i)      \/ InitIface(i) \/ Reject(i)
                                \/ LockTimeout(i) \/ GiveLock(i)  \/ SendResp(i)
  <2>1. /\ pc[f] = "pend" /\ req'[f] = req[f] /\ waited'[f] = waited[f]
        /\ pc[h] \in {"call", "give"} /\ pc'[h] = pc[h] /\ req'[h] = req[h]
        /\ ran' = ran
    BY <1>11 DEF vars, GetReq, InitIface, Reject, LockTimeout, GiveLock, SendResp, Holds
  <2>2. Holds(h, DevOf(req[f]))
    BY <2>1 DEF Holds
  <2>3. \A g \in Iface : pc'[g] = "pend" =>
            pc[g] = "pend" /\ req'[g] = req[g] /\ waited'[g] = waited[g]
    BY <1>11 DEF vars, GetReq, InitIface, Reject, LockTimeout, GiveLock, SendResp
  <2>4. Ahead(f)' \subseteq Ahead(f)
    BY <2>1, <2>3 DEF Ahead, Waiters
  <2>5. waited'[f] + Left(h)' <= waited[f] + Left(h)
    BY <1>2, <2>1 DEF Left
  <2>. QED
    BY <1>5, <2>1, <2>2, <2>4, <2>5
<1>. QED
  BY <1>6, <1>7, <1>8, <1>9, <1>10, <1>11 DEF Next, Process

LEMMA InitWInv == Init => WInv
<1> SUFFICES ASSUME Init PROVE WInv
  OBVIOUS
<1>1. Clocks /\ QueueBounded
  BY DEF Init, Clocks, QueueBounded
<1>. QED
  BY <1>1, InitIInv DEF WInv

THEOREM WaitInvariance == Spec => []WInv
<1>1. IInv /\ [Next]_vars => IInv'
  BY StepType, StepHeld, StepPrepared, StepLock DEF IInv
<1>2. WInv /\ [Next]_vars => WInv'
  BY <1>1, StepClocks, StepQueue DEF WInv, IInv
<1>. QED
  BY InitWInv, <1>2, PTL DEF Spec

(***************************************************************************)
(* A thread waits in k_sem_take (main.c:67) no longer than every other     *)
(* interface takes to run one function each: k_sem_give prefers whoever    *)
(* waited longest, so that no interface has the device twice meanwhile.    *)
(***************************************************************************)
THEOREM WaitBounded == Spec => []BoundedWait
<1>1. WInv => BoundedWait
  <2> SUFFICES ASSUME WInv, NEW f \in Iface PROVE waited[f] <= LongestWait
    BY DEF BoundedWait
  <2> USE DEF WInv, IInv
  <2>1. IsFiniteSet(Iface) /\ FnTime \in Nat /\ LOCK_TIMEOUT \in Nat
    BY SizeAssumption
  <2>2. Cardinality(Iface) \in Nat /\ Cardinality(Iface) - 1 \in Nat
    <3>1. /\ IsFiniteSet(Iface \ {f}) /\ Cardinality(Iface) \in Nat
          /\ Cardinality(Iface \ {f}) = Cardinality(Iface) - 1
      BY <2>1, FS_RemoveElement, FS_CardinalityType
    <3>2. Cardinality(Iface \ {f}) \in Nat
      BY <3>1, FS_CardinalityType
    <3>. QED
      BY <3>1, <3>2
  <2>3. CASE pc[f] # "pend"
    <3>1. LongestWait \in Nat
      BY <2>1, <2>2 DEF LongestWait
    <3>. QED
      BY <2>3, <3>1 DEF Clocks
  <2>4. CASE pc[f] = "pend"
    <3>1. PICK h \in Iface : Holds(h, DevOf(req[f]))
      BY <2>4, SupportedDev DEF RequestHeld, LockAccounted, Waiters
    <3>2. waited[f] + Cardinality(Ahead(f)) * FnTime + Left(h) <= LongestWait
      BY <2>4, <3>1 DEF QueueBounded
    <3>3. Cardinality(Ahead(f)) * FnTime \in Nat
      BY <2>1, AheadFinite
    <3>4. Left(h) \in Nat /\ waited[f] \in Nat
      <4>1. ran[h] \in 0..FnTime /\ waited[f] \in 0..LOCK_TIMEOUT
        BY DEF TypeOK
      <4>. QED
        BY <2>1, <4>1 DEF Left
    <3>5. LongestWait \in Int
      BY <2>1, <2>2 DEF LongestWait
    <3>. QED
      BY <3>2, <3>3, <3>4, <3>5
  <2>. QED
    BY <2>3, <2>4
<1>. QED
  BY <1>1, WaitInvariance, PTL

(***************************************************************************)
(* If the functions of all other interfaces back to back are shorter than  *)
(* LOCK_TIMEOUT, k_sem_take never times out (main.c:67-72).                *)
(***************************************************************************)
THEOREM FastNeverBusy == Spec => []NoBusyWhenFast
<1>1. TypeOK /\ BoundedWait => NoBusyWhenFast
  <2> SUFFICES ASSUME TypeOK, BoundedWait, LongestWait < LOCK_TIMEOUT, NEW f \in Iface
               PROVE  waited[f] < LOCK_TIMEOUT
    BY DEF NoBusyWhenFast, LongestWait
  <2>1. waited[f] <= LongestWait /\ waited[f] \in 0..LOCK_TIMEOUT /\ LOCK_TIMEOUT \in Nat
    BY SizeAssumption DEF BoundedWait, TypeOK
  <2>2. LongestWait \in Int
    BY SizeAssumption, FS_CardinalityType DEF LongestWait
  <2>. QED
    BY <2>1, <2>2
<1>. QED
  BY <1>1, WaitBounded, TypeCorrect, PTL
-----------------------------------------------------------------------------
(* The refinement of DeviceService. *)

LEMMA OwnerIsHolder ==
    ASSUME DeviceExclusion, NEW i \in Iface, NEW d \in Dev, Holds(i, d)
    PROVE  OwnerOf[d] = i
BY DEF OwnerOf, DeviceExclusion

LEMMA NoHolderNoOwner ==
    ASSUME NEW d \in Dev, \A i \in Iface : ~Holds(i, d)
    PROVE  OwnerOf[d] = None
BY DEF OwnerOf

\* The owners change only with the threads that hold devices.
LEMMA OwnersUnchanged ==
    ASSUME \A i \in Iface : \A d \in Dev : Holds(i, d)' <=> Holds(i, d)
    PROVE  UNCHANGED OwnerOf
BY DEF OwnerOf

LEMMA InitService == Init => Service!Init
BY DEF Init, Service!Init, JobOf, OwnerOf, AnswerOf, Holds

\* Steps that only a thread itself notices.
LEMMA StutterService ==
    ASSUME IInv, \/ Tick
                 \/ \E i \in Iface : InitIface(i) \/ AwaitLock(i) \/ CallReturn(i)
    PROVE  UNCHANGED Service!vars
<1> USE DEF IInv, TypeOK, PC
<1>1. UNCHANGED req
  BY DEF Tick, InitIface, AwaitLock, CallReturn
<1>2. \A i \in Iface : \A d \in Dev : Holds(i, d)' <=> Holds(i, d)
  BY <1>1 DEF Tick, InitIface, AwaitLock, CallReturn, Holds
<1>3. UNCHANGED JobOf
  BY <1>1 DEF Tick, InitIface, AwaitLock, CallReturn, JobOf
<1>4. UNCHANGED AnswerOf
  BY DEF Tick, InitIface, AwaitLock, CallReturn, AnswerOf
<1>. QED
  BY <1>2, <1>3, <1>4, OwnersUnchanged DEF Service!vars

\* What DeviceService sees of a thread in each of its phases.
LEMMA JobSeen ==
    ASSUME IInv, NEW i \in Iface
    PROVE  /\ pc[i] \in {"check", "pend", "call", "give", "send"} =>
                JobOf[i] = req[i] /\ req[i] # None /\ req[i] \in Request
           /\ pc[i] \in {"init", "stopped", "get"} => JobOf[i] = None
           /\ pc[i] # "send" => AnswerOf[i] = None
           /\ pc[i] = "send" => AnswerOf[i] # None
BY RequestAssumption DEF IInv, TypeOK, PC, RequestHeld, JobOf, AnswerOf

\* What is left of a function's result is an answer: an error has no payload.
LEMMA KeptAnswer ==
    ASSUME IInv, NEW i \in Iface, pc[i] = "give"
    PROVE  [retcode |-> retcode[i], payload_len |-> KeptLen(i)] \in Service!Answers
<1>1. retcode[i] \in FnRetcode
  BY DEF IInv, FunctionResult
<1>2. KeptLen(i) \in 0..MaxLen
  BY SizeAssumption DEF IInv, TypeOK, KeptLen
<1>3. retcode[i] # NoErr => KeptLen(i) = 0
  BY DEF KeptLen
<1>. QED
  BY <1>1, <1>2, <1>3 DEF Service!Answers

LEMMA AcceptStep ==
    ASSUME IInv, NEW i \in Iface, GetReq(i)
    PROVE  Service!Accept(i)
<1> USE DEF IInv, TypeOK, PC, GetReq
<1>1. PICK r \in Request : req' = [req EXCEPT ![i] = r]
  OBVIOUS
<1>2. JobOf' = [JobOf EXCEPT ![i] = r]
  BY <1>1 DEF JobOf
<1>3. UNCHANGED AnswerOf
  BY DEF AnswerOf
<1>4. UNCHANGED OwnerOf
  BY OwnersUnchanged DEF Holds
<1>. QED
  BY <1>2, <1>3, <1>4, JobSeen DEF Service!Accept

LEMMA RejectStep ==
    ASSUME IInv, NEW i \in Iface, Reject(i)
    PROVE  Service!Reject(i)
<1> USE DEF IInv, TypeOK, PC, Reject
<1>1. UNCHANGED JobOf
  BY DEF JobOf
<1>2. UNCHANGED OwnerOf
  BY OwnersUnchanged DEF Holds
<1>3. payload_len[i] = 0
  BY DEF NothingPrepared
<1>4. AnswerOf' = [AnswerOf EXCEPT ![i] = Service!Refusal(NotSupportedErr)]
  BY <1>3 DEF AnswerOf, Service!Refusal
<1>5. Target[JobOf[i]] = NoDev
  BY JobSeen DEF Target
<1>. QED
  BY <1>1, <1>2, <1>4, <1>5, JobSeen DEF Service!Reject

LEMMA BeginStep ==
    ASSUME IInv, NEW i \in Iface, TakeLock(i)
    PROVE  \E d \in Dev : Service!Begin(i, d)
<1> USE DEF IInv, TypeOK, PC, TakeLock
<1> DEFINE d == DevOf(req[i])
<1>1. d \in Dev
  BY SupportedDev DEF RequestHeld
<1>2. \A j \in Iface : ~Holds(j, d)
  BY <1>1 DEF LockAccounted
<1>3. OwnerOf[d] = None
  BY <1>1, <1>2, NoHolderNoOwner
<1>4. \A j \in Iface : \A e \in Dev : Holds(j, e)' <=> Holds(j, e) \/ (j = i /\ e = d)
  BY DEF Holds
<1>5. \A e \in Dev : OwnerOf'[e] = IF e = d THEN i ELSE OwnerOf[e]
  BY <1>1, <1>2, <1>4 DEF OwnerOf
<1>6. OwnerOf' = [OwnerOf EXCEPT ![d] = i]
  BY <1>5 DEF OwnerOf
<1>7. UNCHANGED <<JobOf, AnswerOf>>
  BY DEF JobOf, AnswerOf
<1>8. Service!Wants(i, d)
  BY <1>3, JobSeen, RequestAssumption DEF Service!Wants, Target
<1>. QED
  BY <1>1, <1>3, <1>6, <1>7, <1>8 DEF Service!Begin

LEMMA RefuseStep ==
    ASSUME IInv, NEW i \in Iface, LockTimeout(i)
    PROVE  \E d \in Dev : Service!Refuse(i, d)
<1> USE DEF IInv, TypeOK, PC, LockTimeout
<1> DEFINE d == DevOf(req[i])
<1>1. d \in Dev
  BY SupportedDev DEF RequestHeld
<1>2. PICK h \in Iface : Holds(h, d)
  BY <1>1 DEF LockAccounted, Waiters
<1>3. OwnerOf[d] = h /\ h # i
  BY <1>1, <1>2, OwnerIsHolder DEF Holds
<1>4. UNCHANGED JobOf
  BY DEF JobOf
<1>5. UNCHANGED OwnerOf
  BY OwnersUnchanged DEF Holds
<1>6. payload_len[i] = 0
  BY DEF NothingPrepared
<1>7. AnswerOf' = [AnswerOf EXCEPT ![i] = Service!Refusal(BusyErr)]
  BY <1>6 DEF AnswerOf, Service!Refusal
<1>8. Service!Wants(i, d)
  BY <1>3, JobSeen DEF Service!Wants, Target, RequestHeld
<1>. QED
  BY <1>1, <1>3, <1>4, <1>5, <1>7, <1>8, RequestAssumption DEF Service!Refuse

LEMMA EndStep ==
    ASSUME IInv, NEW i \in Iface, GiveLock(i)
    PROVE  \E d \in Dev : Service!End(i, d)
<1> USE DEF IInv, TypeOK, PC, GiveLock
<1> DEFINE d == DevOf(req[i])
<1>1. d \in Dev /\ Holds(i, d)
  BY SupportedDev DEF RequestHeld, Holds
<1>2. OwnerOf[d] = i
  BY <1>1, OwnerIsHolder
<1>3. \A j \in Iface : \A e \in Dev : Holds(j, e)' <=> Holds(j, e) /\ ~(j = i /\ e = d)
  BY DEF Holds
<1>4. \A j \in Iface : ~Holds(j, d)'
  BY <1>1, <1>3 DEF DeviceExclusion
<1>5. \A e \in Dev : OwnerOf'[e] = IF e = d THEN None ELSE OwnerOf[e]
  BY <1>1, <1>3, <1>4 DEF OwnerOf
<1>6. OwnerOf' = [OwnerOf EXCEPT ![d] = None]
  BY <1>5 DEF OwnerOf
<1>7. AnswerOf' = [AnswerOf EXCEPT ![i] = [retcode |-> retcode[i], payload_len |-> KeptLen(i)]]
  BY DEF AnswerOf
<1>8. UNCHANGED JobOf
  BY DEF JobOf
<1>. QED
  BY <1>1, <1>2, <1>6, <1>7, <1>8, KeptAnswer DEF Service!End

LEMMA HandOverStep ==
    ASSUME IInv, NEW i \in Iface, NEW w \in Iface, HandOver(i, w)
    PROVE  \E d \in Dev : Service!End(i, d)
<1> USE DEF IInv, TypeOK, PC, HandOver
<1> DEFINE d == DevOf(req[i])
<1>1. d \in Dev /\ Holds(i, d)
  BY SupportedDev DEF RequestHeld, Holds
<1>2. OwnerOf[d] = i
  BY <1>1, OwnerIsHolder
<1>3. pc[w] = "pend" /\ DevOf(req[w]) = d /\ w # i
  BY DEF Longest, Waiters
<1>4. \A j \in Iface : \A e \in Dev :
          Holds(j, e)' <=> (Holds(j, e) /\ ~(j = i /\ e = d)) \/ (j = w /\ e = d)
  BY <1>3 DEF Holds
<1>5. \A j \in Iface : Holds(j, d)' <=> j = w
  BY <1>1, <1>4 DEF DeviceExclusion
<1>6. \A e \in Dev : OwnerOf'[e] = IF e = d THEN w ELSE OwnerOf[e]
  BY <1>1, <1>4, <1>5 DEF OwnerOf
<1>7. OwnerOf' = [OwnerOf EXCEPT ![d] = w]
  BY <1>6 DEF OwnerOf
<1>8. AnswerOf' = [AnswerOf EXCEPT ![i] = [retcode |-> retcode[i], payload_len |-> KeptLen(i)]]
  BY <1>3 DEF AnswerOf
<1>9. UNCHANGED JobOf
  BY <1>3 DEF JobOf
<1>10. Service!Wants(w, d)
  BY <1>2, <1>3, JobSeen DEF Service!Wants, Target, RequestHeld
<1>. QED
  BY <1>1, <1>2, <1>7, <1>8, <1>9, <1>10, KeptAnswer DEF Service!End

LEMMA ReplyStep ==
    ASSUME IInv, NEW i \in Iface, SendResp(i)
    PROVE  Service!Reply(i)
<1> USE DEF IInv, TypeOK, PC, SendResp
<1>1. AnswerOf' = [AnswerOf EXCEPT ![i] = None]
  BY DEF AnswerOf
<1>2. JobOf' = [JobOf EXCEPT ![i] = None]
  BY DEF JobOf
<1>3. UNCHANGED OwnerOf
  BY OwnersUnchanged DEF Holds
<1>. QED
  BY <1>1, <1>2, <1>3, JobSeen DEF Service!Reply

LEMMA ServiceStep == IInv /\ [Next]_vars => [Service!Next]_(Service!vars)
<1> SUFFICES ASSUME IInv, [Next]_vars PROVE [Service!Next]_(Service!vars)
  OBVIOUS
<1>1. CASE UNCHANGED vars
  BY <1>1 DEF vars, Service!vars, JobOf, OwnerOf, AnswerOf, Holds
<1>2. CASE Tick
  BY <1>2, StutterService
<1>3. ASSUME NEW i \in Iface, GetReq(i) \/ Process(i)
      PROVE  [Service!Next]_(Service!vars)
  BY <1>3, StutterService, AcceptStep, RejectStep, BeginStep, RefuseStep, EndStep,
     HandOverStep, ReplyStep DEF Process, Service!Next
<1>. QED
  BY <1>1, <1>2, <1>3 DEF Next

(***************************************************************************)
(* The dispatcher is a DeviceService: whatever interfaces, devices and     *)
(* timing there are, every step of process_interface is a step of the      *)
(* service or invisible to it.                                             *)
(***************************************************************************)
THEOREM Implementation == Spec => ImplementsService
<1>1. Init => Service!Init
  BY InitService
<1>2. IInv /\ [Next]_vars => [Service!Next]_(Service!vars)
  BY ServiceStep
<1>. QED
  BY <1>1, <1>2, Invariance, PTL DEF Spec, ImplementsService, Service!Spec
=============================================================================
