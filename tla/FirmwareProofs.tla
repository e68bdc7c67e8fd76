--------------------------- MODULE FirmwareProofs ---------------------------
(***************************************************************************)
(* The lock table that main() builds is right for any set of peripherals,  *)
(* wherever malloc or an init fails; and its semaphores exclude the users  *)
(* of one device, for any interfaces and requests, whenever a thread       *)
(* starts.                                                                 *)
(***************************************************************************)
EXTENDS Firmware, TLAPS

(***************************************************************************)
(* main().                                                                 *)
(***************************************************************************)

\* No two nodes share a device or a lock.
NodesDistinct ==
    \A m, n \in dev_locks : m.dev = n.dev \/ m.lock = n.lock => m = n

\* A lock given to an instance is that of the node with the instance's device.
LocksFromNodes ==
    \A s \in Slot : peripheral_locks[s] # NULL =>
        \E n \in dev_locks : n.lock = peripheral_locks[s] /\ n.dev = GetDev[s]

\* The instances the loops have left behind.
Passed(s) == s[1] < i \/ (s[1] = i /\ pc \in {"find", "init"} /\ s[2] < j)

PassedReady ==
    \A s \in Slot : Passed(s) => s \in ready /\ peripheral_locks[s] # NULL

Progress == /\ pc = "init" => peripheral_locks[Here] # NULL
            /\ pc \in {"start", "running"} => i = NUM_PERIPHERALS
            /\ started # {} => pc \in {"start", "running"}

IInv == TypeOK /\ NodesDistinct /\ LocksFromNodes /\ PassedReady /\ Progress

LEMMA SlotShape ==
    /\ \A s \in Slot : /\ s[1] \in Row /\ s[2] \in 0..NumIdx[s[1]] - 1
                       /\ s[1] \in Int /\ s[2] \in Int /\ NumIdx[s[1]] \in Nat
                       /\ s = <<s[1], s[2]>>
    /\ \A p \in Row : \A x \in 0..NumIdx[p] - 1 : <<p, x>> \in Slot
BY BootAssumption DEF Slot, Row

LEMMA InitIInv == Init => IInv
BY BootAssumption, SlotShape
   DEF Init, IInv, TypeOK, NodesDistinct, LocksFromNodes, PassedReady, Passed, Progress, Row

LEMMA StepDie == ASSUME IInv, Die, pc \in {"row", "find", "init"} PROVE IInv'
BY DEF Die, IInv, TypeOK, NodesDistinct, LocksFromNodes, PassedReady, Passed, Progress, Here

LEMMA StepIInv == IInv /\ [Next]_vars => IInv'
<1> SUFFICES ASSUME IInv, [Next]_vars PROVE IInv'
  OBVIOUS
<1> USE BootAssumption DEF IInv, Progress
<1>1. CASE SkipRow
  <2>1. TypeOK'
    BY <1>1 DEF SkipRow, TypeOK, Here
  <2>2. \A s \in Slot : Passed(s)' => Passed(s)
    BY <1>1, SlotShape DEF SkipRow, Passed, TypeOK, Row
  <2>. QED
    BY <1>1, <2>1, <2>2 DEF SkipRow, NodesDistinct, LocksFromNodes, PassedReady
<1>2. CASE BeginRow
  <2>1. CASE Die
    BY <1>2, <2>1, StepDie DEF BeginRow
  <2>2. CASE pc' = "find" /\ j' = 0 /\ UNCHANGED <<i, dev_locks, peripheral_locks, ready, started>>
    <3>1. TypeOK'
      BY <1>2, <2>2, SlotShape DEF BeginRow, TypeOK, Here, Row
    <3>2. \A s \in Slot : Passed(s)' => Passed(s)
      BY <2>2, SlotShape DEF Passed
    <3>. QED
      BY <1>2, <2>2, <3>1, <3>2 DEF BeginRow, NodesDistinct, LocksFromNodes, PassedReady
  <2>. QED
    BY <1>2, <2>1, <2>2 DEF BeginRow
<1>3. CASE LastRow
  BY <1>3 DEF LastRow, TypeOK, Here, NodesDistinct, LocksFromNodes, PassedReady, Passed
<1>4. CASE ShareLock
  <2>1. PICK n \in dev_locks :
            n.dev = GetDev[Here] /\ peripheral_locks' = [peripheral_locks EXCEPT ![Here] = n.lock]
    BY <1>4 DEF ShareLock
  <2>2. Here \in Slot /\ Here' = Here /\ n.lock \in Addr /\ n.lock # NULL
    BY <1>4, <2>1 DEF ShareLock, TypeOK, Here
  <2>3. TypeOK'
    BY <1>4, <2>1, <2>2 DEF ShareLock, TypeOK
  <2>4. LocksFromNodes'
    BY <1>4, <2>1, <2>2 DEF ShareLock, LocksFromNodes, TypeOK
  <2>5. PassedReady'
    BY <1>4, <2>1, <2>2 DEF ShareLock, PassedReady, Passed, TypeOK
  <2>6. Progress'
    BY <1>4, <2>1, <2>2 DEF ShareLock, TypeOK
  <2>. QED
    BY <1>4, <2>3, <2>4, <2>5, <2>6 DEF ShareLock, NodesDistinct
<1>5. CASE NewLock
  <2>1. CASE Die
    BY <1>5, <2>1, StepDie DEF NewLock
  <2>2. ASSUME NEW a \in Addr \ Locks,
               dev_locks' = dev_locks \cup {[dev |-> GetDev[Here], lock |-> a]},
               peripheral_locks' = [peripheral_locks EXCEPT ![Here] = a],
               pc' = "init",
               UNCHANGED <<i, j, ready, started>>
        PROVE  IInv'
    <3>1. Here \in Slot /\ Here' = Here /\ a \in Addr /\ a # NULL
      BY <1>5, <2>2 DEF NewLock, TypeOK, Here
    <3>2. GetDev[Here] \in Dev
      BY <3>1
    <3>3. TypeOK'
      BY <1>5, <2>2, <3>1, <3>2 DEF NewLock, TypeOK
    <3>4. NodesDistinct'
      BY <1>5, <2>2 DEF NewLock, NodesDistinct, Locks
    <3>5. LocksFromNodes'
      <4> DEFINE new == [dev |-> GetDev[Here], lock |-> a]
      <4>1. new \in dev_locks' /\ new.lock = a /\ new.dev = GetDev[Here]
        BY <2>2
      <4>2. dev_locks \subseteq dev_locks'
        BY <2>2
      <4> SUFFICES ASSUME NEW s \in Slot, peripheral_locks'[s] # NULL
                   PROVE  \E n \in dev_locks' : n.lock = peripheral_locks'[s] /\ n.dev = GetDev[s]
        BY DEF LocksFromNodes
      <4>3. CASE s = Here
        <5>1. peripheral_locks'[s] = a
          BY <2>2, <3>1, <4>3 DEF TypeOK
        <5>. QED
          BY <4>1, <4>3, <5>1
      <4>4. CASE s # Here
        <5>1. peripheral_locks'[s] = peripheral_locks[s]
          BY <2>2, <4>4 DEF TypeOK
        <5>. QED
          BY <4>2, <5>1 DEF LocksFromNodes
      <4>. QED
        BY <4>3, <4>4
    <3>6. PassedReady'
      BY <1>5, <2>2, <3>1 DEF NewLock, PassedReady, Passed, TypeOK
    <3>7. Progress'
      BY <1>5, <2>2, <3>1 DEF NewLock, TypeOK
    <3>. QED
      BY <3>3, <3>4, <3>5, <3>6, <3>7
  <2>. QED
    BY <1>5, <2>1, <2>2 DEF NewLock
<1>6. CASE InitPeriph
  <2>1. CASE Die
    BY <1>6, <2>1, StepDie DEF InitPeriph
  <2>2. CASE ready' = ready \cup {Here} /\ UNCHANGED <<dev_locks, peripheral_locks, started>>
    <3>1. Here \in Slot
      BY <1>6 DEF InitPeriph, TypeOK
    <3>2. CASE j + 1 < NumIdx[i] /\ pc' = "find" /\ j' = j + 1 /\ UNCHANGED i
      <4>1. TypeOK'
        BY <2>2, <3>1, <3>2, SlotShape DEF TypeOK, Here, Row
      <4>2. \A s \in Slot : Passed(s)' => Passed(s) \/ s = Here
        BY <1>6, <3>2, SlotShape DEF InitPeriph, Passed, TypeOK, Here
      <4>. QED
        BY <1>6, <2>2, <3>2, <4>1, <4>2
           DEF InitPeriph, NodesDistinct, LocksFromNodes, PassedReady
    <3>3. CASE ~(j + 1 < NumIdx[i]) /\ pc' = "row" /\ i' = i + 1 /\ UNCHANGED j
      <4>1. TypeOK'
        BY <2>2, <3>1, <3>3, SlotShape DEF TypeOK, Here, Row
      <4>2. \A s \in Slot : Passed(s)' => Passed(s) \/ s = Here
        BY <1>6, <3>1, <3>3, SlotShape DEF InitPeriph, Passed, TypeOK, Here
      <4>. QED
        BY <1>6, <2>2, <3>3, <4>1, <4>2
           DEF InitPeriph, NodesDistinct, LocksFromNodes, PassedReady
    <3>. QED
      BY <1>6, <3>2, <3>3, StepDie DEF InitPeriph
  <2>. QED
    BY <1>6, <2>1, <2>2 DEF InitPeriph
<1>7. CASE StartThread
  BY <1>7 DEF StartThread, TypeOK, Here, NodesDistinct, LocksFromNodes, PassedReady, Passed
<1>8. CASE Done
  BY <1>8 DEF Done, TypeOK, Here, NodesDistinct, LocksFromNodes, PassedReady, Passed
<1>9. CASE UNCHANGED vars
  BY <1>9 DEF vars, TypeOK, Here, NodesDistinct, LocksFromNodes, PassedReady, Passed
<1>. QED
  BY <1>1, <1>2, <1>3, <1>4, <1>5, <1>6, <1>7, <1>8, <1>9 DEF Next

THEOREM Invariance == Spec => []IInv
BY InitIInv, StepIInv, PTL DEF Spec

(***************************************************************************)
(* Type correctness of main(): its loops stay inside the tables, and what it *)
(* writes there are addresses malloc gave it.                              *)
(***************************************************************************)
THEOREM TypeCorrect == Spec => []TypeOK
BY Invariance, PTL DEF IInv

(***************************************************************************)
(* For any peripherals, two instances share a lock exactly when they share *)
(* a device, at every point of main() and after it.                        *)
(***************************************************************************)
THEOREM LockTable == Spec => []LocksMatchDevices
<1>1. IInv => LocksMatchDevices
  BY DEF IInv, LocksMatchDevices, LocksFromNodes, NodesDistinct
<1>. QED
  BY <1>1, Invariance, PTL

(***************************************************************************)
(* Threads start only over a complete lock table and initialised           *)
(* peripherals, whichever allocation or init fails before.                 *)
(***************************************************************************)
THEOREM StartedReady == Spec => []StartedOnlyWhenReady
<1>1. IInv => StartedOnlyWhenReady
  <2> SUFFICES ASSUME IInv, started # {}
               PROVE  ready = Slot /\ \A s \in Slot : peripheral_locks[s] # NULL
    BY DEF StartedOnlyWhenReady
  <2>1. i = NUM_PERIPHERALS
    BY DEF IInv, Progress
  <2>2. \A s \in Slot : Passed(s)
    BY <2>1, BootAssumption, SlotShape DEF Passed, Row
  <2>. QED
    BY <2>2 DEF IInv, PassedReady, TypeOK
<1>. QED
  BY <1>1, Invariance, PTL

(***************************************************************************)
(* main() and the threads together.                                        *)
(***************************************************************************)

\* The instance that thread f was asked for, its semaphore, and who has one.
SlotOf(f) == <<req[f].periph_id, req[f].periph_idx>>
LockOf(f) == peripheral_locks[SlotOf(f)]
Holds(f, a) == tpc[f] \in {"call", "give"} /\ LockOf(f) = a

PCs == {"init", "stopped", "get", "check", "pend", "call", "give", "send"}

ThreadType == /\ tpc \in [Iface -> PCs]
              /\ req \in [Iface -> Request \cup {None}]
              /\ sem \in [Addr -> {0, 1}]

\* A thread does nothing before it exists, and from the checks on it has a
\* request for an instance there is.
ThreadInv ==
    \A f \in Iface :
        /\ f \notin started => tpc[f] = "init"
        /\ tpc[f] \in {"check", "pend", "call", "give", "send"} => req[f] \in Request
        /\ tpc[f] \in {"pend", "call", "give"} => SlotOf(f) \in Slot

\* A semaphore of the list is down exactly while one thread has it, and who
\* waits for one waits for a thread.
SemInv ==
    /\ \A a \in Locks : sem[a] = 0 <=> \E f \in Iface : Holds(f, a)
    /\ \A f, g \in Iface : tpc[f] \in {"call", "give"} /\ Holds(g, LockOf(f)) => f = g
    /\ \A f \in Iface : tpc[f] = "pend" => \E g \in Iface : Holds(g, LockOf(f))

SysInv == IInv /\ ThreadType /\ ThreadInv /\ SemInv

LEMMA InitSysInv == SystemInit => SysInv
<1> SUFFICES ASSUME SystemInit PROVE SysInv
  OBVIOUS
<1>1. IInv
  BY InitIInv DEF SystemInit
<1>2. ThreadType
  BY DEF SystemInit, ThreadType, PCs
<1>3. \A f \in Iface : tpc[f] = "init"
  BY DEF SystemInit
<1>4. Locks = {}
  BY DEF SystemInit, Init, Locks
<1>. QED
  BY <1>1, <1>2, <1>3, <1>4 DEF SysInv, ThreadInv, SemInv, Holds

\* Once a thread exists, every instance has a semaphore of the list.
LEMMA TableComplete ==
    ASSUME IInv, started # {}, NEW s \in Slot
    PROVE  peripheral_locks[s] \in Locks /\ peripheral_locks[s] \in Addr /\ peripheral_locks[s] # NULL
<1>1. i = NUM_PERIPHERALS
  BY DEF IInv, Progress
<1>2. Passed(s)
  BY <1>1, BootAssumption, SlotShape DEF Passed, Row
<1>3. peripheral_locks[s] # NULL
  BY <1>2 DEF IInv, PassedReady
<1>4. PICK n \in dev_locks : n.lock = peripheral_locks[s]
  BY <1>3 DEF IInv, LocksFromNodes
<1>. QED
  BY <1>3, <1>4 DEF Locks, IInv, TypeOK

\* While threads exist main() leaves the table alone.
LEMMA TableFixed ==
    ASSUME IInv, Next
    PROVE  \/ started = {} /\ started' = {}
           \/ UNCHANGED <<peripheral_locks, dev_locks>> /\ started \subseteq started'
BY DEF IInv, Progress, Next, SkipRow, BeginRow, LastRow, ShareLock, NewLock, InitPeriph, StartThread,
   Done, Die

LEMMA StepMain == ASSUME SysInv, Main PROVE SysInv'
<1> USE DEF SysInv
<1>1. IInv'
  BY StepIInv DEF Main
<1>2. ThreadType'
  BY DEF ThreadType, Main, threads
<1>3. ThreadInv'
  <2>1. UNCHANGED <<tpc, req>>
    BY DEF Main, threads
  <2>2. started \subseteq started'
    BY TableFixed DEF Main
  <2>. QED
    BY <2>1, <2>2 DEF ThreadInv, SlotOf
<1>4. SemInv'
  <2>1. /\ UNCHANGED <<tpc, req>>
        /\ sem' = [a \in Addr |-> IF a \in Locks' \ Locks THEN 1 ELSE sem[a]]
    BY DEF Main, threads
  <2>2. Locks' \subseteq Addr
    BY <1>1 DEF IInv, TypeOK, Locks
  <2>3. CASE started = {} /\ started' = {}
    <3>1. \A f \in Iface : tpc[f] = "init" /\ tpc'[f] = "init"
      BY <2>1, <2>3 DEF ThreadInv
    <3>2. \A a \in Locks : sem[a] = 1
      <4>1. \A a \in Locks : a \in Addr /\ sem[a] # 0
        BY <3>1 DEF SemInv, Holds, IInv, TypeOK, Locks
      <4>. QED
        BY <4>1 DEF ThreadType
    <3>3. \A a \in Locks' : sem'[a] = 1
      BY <2>1, <2>2, <3>2
    <3>. QED
      BY <3>1, <3>3 DEF SemInv, Holds
  <2>4. CASE UNCHANGED <<peripheral_locks, dev_locks>>
    <3>1. Locks' = Locks
      BY <2>4 DEF Locks
    <3>2. sem' = sem
      BY <2>1, <3>1 DEF ThreadType
    <3>. QED
      BY <2>1, <2>4, <3>1, <3>2 DEF SemInv, Holds, LockOf, SlotOf
  <2>. QED
    BY <2>3, <2>4, TableFixed DEF Main
<1>. QED
  BY <1>1, <1>2, <1>3, <1>4

\* What a thread's step leaves alone.
LEMMA BootStays == ASSUME IInv, UNCHANGED vars PROVE IInv' /\ Locks' = Locks
BY DEF vars, IInv, TypeOK, Here, NodesDistinct, LocksFromNodes, PassedReady, Passed, Progress, Locks

\* A request that passes the checks is for an instance there is.
LEMMA SupportedSlot ==
    ASSUME NEW table, NEW r \in Request, Dispatcher(table)!Supported(r)
    PROVE  <<r.periph_id, r.periph_idx>> \in Slot
<1>1. r.periph_id \in Nat /\ r.periph_idx \in Nat
  BY HostAssumption
<1>2. r.periph_id \in Row
  BY <1>1, BootAssumption DEF Dispatcher!Supported, Row
<1>3. NumIdx[r.periph_id] \in Nat
  BY <1>2, BootAssumption
<1>4. r.periph_idx \in 0..NumIdx[r.periph_id] - 1
  BY <1>1, <1>3 DEF Dispatcher!Supported
<1>. QED
  BY <1>2, <1>4, SlotShape

\* The steps that touch no semaphore and concern no holder or waiter.
LEMMA StepAside ==
    ASSUME SysInv, NEW f \in Iface, f \in started, UNCHANGED <<vars, sem>>,
           NEW next \in PCs, tpc' = [tpc EXCEPT ![f] = next],
           tpc[f] \notin {"pend", "call", "give"}, next \notin {"pend", "call", "give"},
           NEW r \in Request \cup {None}, req' = [req EXCEPT ![f] = r],
           next \in {"check", "send"} => r \in Request
    PROVE  ThreadType' /\ ThreadInv' /\ SemInv'
<1> USE DEF SysInv
<1>1. ThreadType'
  BY DEF ThreadType
<1>2. \A g \in Iface : g # f => tpc'[g] = tpc[g] /\ req'[g] = req[g]
  BY DEF ThreadType
<1>3. tpc'[f] = next /\ req'[f] = r
  BY DEF ThreadType
<1>4. UNCHANGED <<started, peripheral_locks, dev_locks>> /\ Locks' = Locks
  BY DEF vars, Locks
<1>5. ThreadInv'
  BY <1>2, <1>3, <1>4 DEF ThreadInv, SlotOf
<1>6. \A g \in Iface : tpc'[g] \in {"pend", "call", "give"} =>
          g # f /\ tpc'[g] = tpc[g] /\ LockOf(g)' = LockOf(g)
  BY <1>2, <1>3, <1>4 DEF LockOf, SlotOf
<1>7. \A g \in Iface : tpc[g] \in {"pend", "call", "give"} => g # f /\ tpc'[g] = tpc[g]
  BY <1>2
<1>8. \A g \in Iface : \A a : Holds(g, a)' <=> Holds(g, a)
  BY <1>6, <1>7 DEF Holds
<1>9. SemInv'
  BY <1>4, <1>6, <1>8 DEF SemInv
<1>. QED
  BY <1>1, <1>5, <1>9

\* The steps of one thread that change whether it holds or awaits a semaphore:
\* f is at next with the same request, and count is that of its semaphore.
Moves(f, next, count) ==
    /\ UNCHANGED <<vars, req>>
    /\ tpc' = [tpc EXCEPT ![f] = next]
    /\ sem' = [sem EXCEPT ![LockOf(f)] = count]

LEMMA StepMoves ==
    ASSUME SysInv, NEW f \in Iface, f \in started, req[f] \in Request, SlotOf(f) \in Slot,
           NEW next \in {"pend", "call", "give", "send"}, NEW count \in {0, 1},
           Moves(f, next, count),
           \* Nobody else holds the semaphore if f takes it or leaves it up,
           \* nobody waits for what f leaves, and f waits only for a holder.
           next \in {"call", "give"} => count = 0 /\ \A g \in Iface : Holds(g, LockOf(f)) => g = f,
           next = "pend" => count = 0 /\ \E g \in Iface \ {f} : Holds(g, LockOf(f)),
           next = "send" => \/ /\ tpc[f] = "give" /\ count = 1
                               /\ \A g \in Iface : tpc[g] = "pend" => LockOf(g) # LockOf(f)
                            \/ tpc[f] = "pend" /\ count = 0 /\ sem[LockOf(f)] = 0,
           tpc[f] \in {"call", "give"} => next \in {"give", "send"}
    PROVE  ThreadType' /\ ThreadInv' /\ SemInv'
<1> USE DEF SysInv, Moves
<1>1. LockOf(f) \in Locks /\ LockOf(f) \in Addr
  BY TableComplete DEF LockOf
<1>2. ThreadType'
  BY <1>1 DEF ThreadType, PCs
<1>3. /\ \A g \in Iface : g # f => tpc'[g] = tpc[g]
      /\ tpc'[f] = next
  BY DEF ThreadType
<1>4. UNCHANGED <<started, peripheral_locks, dev_locks>> /\ Locks' = Locks
  BY DEF vars, Locks
<1>5. ThreadInv'
  BY <1>3, <1>4 DEF ThreadInv, SlotOf
<1>6. \A g \in Iface : LockOf(g)' = LockOf(g)
  BY <1>4 DEF LockOf, SlotOf
<1>7. \A g \in Iface \ {f} : \A a : Holds(g, a)' <=> Holds(g, a)
  BY <1>3, <1>6 DEF Holds
<1>8. \A a : Holds(f, a)' <=> next \in {"call", "give"} /\ a = LockOf(f)
  BY <1>3, <1>6 DEF Holds
<1>9. /\ sem'[LockOf(f)] = count
      /\ \A a \in Locks : a # LockOf(f) => sem'[a] = sem[a]
  BY <1>1 DEF ThreadType, IInv, TypeOK, Locks
<1>10. \A g, h \in Iface : tpc[g] \in {"call", "give"} /\ Holds(h, LockOf(g)) => g = h
  BY DEF SemInv
<1>11. \A a \in Locks' : sem'[a] = 0 <=> \E g \in Iface : Holds(g, a)'
  <2> SUFFICES ASSUME NEW a \in Locks PROVE sem'[a] = 0 <=> \E g \in Iface : Holds(g, a)'
    BY <1>4
  <2>1. CASE a # LockOf(f)
    <3>1. \A g \in Iface : Holds(g, a)' <=> Holds(g, a)
      BY <2>1, <1>7, <1>8 DEF Holds
    <3>. QED
      BY <2>1, <3>1, <1>9 DEF SemInv
  <2>2. CASE a = LockOf(f)
    <3>1. CASE next \in {"call", "give"}
      BY <2>2, <3>1, <1>8, <1>9
    <3>2. CASE next = "pend"
      BY <2>2, <3>2, <1>7, <1>9
    <3>3. CASE next = "send" /\ tpc[f] = "give" /\ count = 1
      <4>1. \A g \in Iface : Holds(g, a) => g = f
        BY <3>3, <2>2, <1>10 DEF Holds
      <4>. QED
        BY <4>1, <2>2, <3>3, <1>7, <1>8, <1>9
    <3>4. CASE next = "send" /\ tpc[f] = "pend" /\ count = 0 /\ sem[LockOf(f)] = 0
      <4>1. PICK g \in Iface : Holds(g, a)
        BY <2>2, <3>4, <1>1 DEF SemInv
      <4>2. g # f
        BY <4>1, <3>4 DEF Holds
      <4>. QED
        BY <4>1, <4>2, <2>2, <3>4, <1>7, <1>9
    <3>. QED
      BY <3>1, <3>2, <3>3, <3>4
  <2>. QED
    BY <2>1, <2>2
<1>12. \A g, h \in Iface : (tpc[g] \in {"call", "give"} /\ Holds(h, LockOf(g)) => g = h)'
  <2> SUFFICES ASSUME NEW g \in Iface, NEW h \in Iface,
                      tpc'[g] \in {"call", "give"}, Holds(h, LockOf(g))'
               PROVE  g = h
    OBVIOUS
  <2>1. LockOf(h) = LockOf(g) /\ tpc'[h] \in {"call", "give"}
    BY <1>6 DEF Holds
  <2>2. CASE g # f /\ h # f
    BY <2>1, <2>2, <1>3, <1>10 DEF Holds
  <2>3. CASE g = f \/ h = f
    <3>1. next \in {"call", "give"} /\ LockOf(g) = LockOf(f) /\ LockOf(h) = LockOf(f)
      BY <2>1, <2>3, <1>3
    <3>2. \A k \in {g, h} : k # f => Holds(k, LockOf(f))
      BY <3>1, <2>1, <1>3 DEF Holds
    <3>. QED
      BY <3>1, <3>2
  <2>. QED
    BY <2>2, <2>3
<1>13. \A g \in Iface : (tpc[g] = "pend" => \E h \in Iface : Holds(h, LockOf(g)))'
  <2> SUFFICES ASSUME NEW g \in Iface, tpc'[g] = "pend"
               PROVE  \E h \in Iface : Holds(h, LockOf(g))'
    OBVIOUS
  <2>1. CASE g = f
    BY <2>1, <1>3, <1>6, <1>7
  <2>2. CASE g # f
    <3>1. tpc[g] = "pend"
      BY <2>2, <1>3
    <3>2. PICK h \in Iface : Holds(h, LockOf(g))
      BY <3>1 DEF SemInv
    <3>3. CASE h # f
      BY <3>2, <3>3, <1>6, <1>7
    <3>4. CASE h = f
      <4>1. tpc[f] \in {"call", "give"} /\ LockOf(g) = LockOf(f)
        BY <3>2, <3>4 DEF Holds
      <4>2. next = "give"
        BY <4>1, <3>1
      <4>. QED
        BY <4>1, <4>2, <1>6, <1>8
    <3>. QED
      BY <3>3, <3>4
  <2>. QED
    BY <2>1, <2>2
<1>14. SemInv'
  BY <1>11, <1>12, <1>13 DEF SemInv
<1>. QED
  BY <1>2, <1>5, <1>14

\* k_sem_give with a waiter: the semaphore stays down and has a new holder.
LEMMA StepHandOver ==
    ASSUME SysInv, NEW f \in Iface, NEW w \in Iface, UNCHANGED <<vars, req, sem>>,
           tpc[f] = "give", tpc[w] = "pend", LockOf(w) = LockOf(f),
           tpc' = [tpc EXCEPT ![f] = "send", ![w] = "call"]
    PROVE  ThreadType' /\ ThreadInv' /\ SemInv'
<1> USE DEF SysInv
<1>1. ThreadType'
  BY DEF ThreadType, PCs
<1>2. /\ \A g \in Iface : g # f /\ g # w => tpc'[g] = tpc[g]
      /\ tpc'[f] = "send" /\ tpc'[w] = "call" /\ f # w
  BY DEF ThreadType
<1>3. UNCHANGED <<started, peripheral_locks, dev_locks>> /\ Locks' = Locks
  BY DEF vars, Locks
<1>4. ThreadInv'
  BY <1>2, <1>3 DEF ThreadInv, SlotOf
<1>5. \A g \in Iface : LockOf(g)' = LockOf(g)
  BY <1>3 DEF LockOf, SlotOf
<1>6. \A g \in Iface : \A a : Holds(g, a)' <=> IF g = f THEN FALSE
                                             ELSE IF g = w THEN Holds(f, a) ELSE Holds(g, a)
  BY <1>2, <1>5 DEF Holds
<1>7. \A a : (\E g \in Iface : Holds(g, a)') <=> \E g \in Iface : Holds(g, a)
  <2>1. \A a : ~Holds(w, a)
    BY DEF Holds
  <2>. QED
    BY <2>1, <1>2, <1>6
<1>8. \A g, h \in Iface : (tpc[g] \in {"call", "give"} /\ Holds(h, LockOf(g)) => g = h)'
  <2> SUFFICES ASSUME NEW g \in Iface, NEW h \in Iface,
                      tpc'[g] \in {"call", "give"}, Holds(h, LockOf(g))'
               PROVE  g = h
    OBVIOUS
  <2>1. Holds(g, LockOf(g))' /\ LockOf(h) = LockOf(g)
    BY <1>5 DEF Holds
  <2> DEFINE was(k) == IF k = w THEN f ELSE k
  <2>2. g # f /\ h # f /\ Holds(was(g), LockOf(g)) /\ Holds(was(h), LockOf(g))
    BY <2>1, <1>5, <1>6
  <2>3. was(g) = was(h)
    BY <2>2 DEF SemInv, Holds
  <2>. QED
    BY <2>2, <2>3
<1>9. \A g \in Iface : (tpc[g] = "pend" => \E h \in Iface : Holds(h, LockOf(g)))'
  <2> SUFFICES ASSUME NEW g \in Iface, tpc'[g] = "pend"
               PROVE  \E h \in Iface : Holds(h, LockOf(g))'
    OBVIOUS
  <2>1. tpc[g] = "pend"
    BY <1>2
  <2>. QED
    BY <2>1, <1>5, <1>7 DEF SemInv
<1>10. SemInv'
  BY <1>3, <1>7, <1>8, <1>9 DEF SemInv
<1>. QED
  BY <1>1, <1>4, <1>10

LEMMA StepThread ==
    ASSUME SysInv, NEW f \in Iface, Thread(f)
    PROVE  SysInv'
<1> USE DEF SysInv
<1>1. PICK table \in {peripheral_locks} : Dispatcher(table)!Process(f)
  BY DEF Thread
<1>2. table = peripheral_locks /\ f \in started /\ UNCHANGED vars
  BY DEF Thread
<1>3. IInv'
  BY <1>2, BootStays
<1>4. tpc[f] \in PCs /\ req[f] \in Request \cup {None}
  BY DEF ThreadType
<1>5. Dispatcher(table)!DevOf(req[f]) = LockOf(f)
  BY <1>2 DEF Dispatcher!DevOf, LockOf, SlotOf
<1>6. SlotOf(f) \in Slot => LockOf(f) \in Addr /\ LockOf(f) \in Locks
  BY <1>2, TableComplete DEF LockOf
<1>7. CASE \E next \in PCs, r \in Request \cup {None} :
             /\ UNCHANGED <<vars, sem>>
             /\ tpc' = [tpc EXCEPT ![f] = next]
             /\ req' = [req EXCEPT ![f] = r]
             /\ tpc[f] \notin {"pend", "call", "give"}
             /\ next \notin {"pend", "call", "give"}
             /\ next \in {"check", "send"} => r \in Request
  BY <1>2, <1>3, <1>7, StepAside
<1>8. CASE Dispatcher(table)!InitIface(f)
  <2>1. PICK next \in {"get", "stopped"} : tpc' = [tpc EXCEPT ![f] = next]
    BY <1>8 DEF Dispatcher!InitIface
  <2>2. req' = [req EXCEPT ![f] = req[f]]
    BY <1>8 DEF Dispatcher!InitIface, ThreadType
  <2>3. tpc[f] = "init" /\ UNCHANGED sem
    BY <1>8 DEF Dispatcher!InitIface
  <2>. QED
    BY <1>2, <1>4, <1>7, <2>1, <2>2, <2>3 DEF PCs
<1>9. CASE Dispatcher(table)!Reject(f)
  <2>1. tpc[f] = "check" /\ tpc' = [tpc EXCEPT ![f] = "send"] /\ UNCHANGED <<sem, req>>
    BY <1>9 DEF Dispatcher!Reject
  <2>2. req' = [req EXCEPT ![f] = req[f]] /\ req[f] \in Request
    BY <2>1 DEF ThreadType, ThreadInv
  <2>. QED
    BY <1>2, <1>7, <2>1, <2>2 DEF PCs
<1>10. CASE Dispatcher(table)!SendResp(f)
  <2>1. tpc[f] = "send" /\ tpc' = [tpc EXCEPT ![f] = "get"] /\ UNCHANGED sem
        /\ req' = [req EXCEPT ![f] = None]
    BY <1>10 DEF Dispatcher!SendResp
  <2>. QED
    BY <1>2, <1>7, <2>1 DEF PCs
<1>11. CASE Dispatcher(table)!TakeLock(f)
  <2>1. /\ tpc[f] = "check" /\ Dispatcher(table)!Supported(req[f])
        /\ sem[LockOf(f)] > 0 /\ sem' = [sem EXCEPT ![LockOf(f)] = @ - 1]
        /\ tpc' = [tpc EXCEPT ![f] = "call"] /\ UNCHANGED req
    BY <1>5, <1>11 DEF Dispatcher!TakeLock
  <2>2. req[f] \in Request /\ SlotOf(f) \in Slot
    BY <2>1, SupportedSlot DEF ThreadInv, SlotOf
  <2>3. sem[LockOf(f)] = 1
    BY <2>1, <2>2, <1>6 DEF ThreadType
  <2>4. \A g \in Iface : ~Holds(g, LockOf(f))
    BY <2>2, <2>3, <1>6 DEF SemInv
  <2>5. Moves(f, "call", 0)
    BY <1>2, <2>1, <2>3 DEF Moves
  <2>. QED
    BY <1>2, <1>3, <2>1, <2>2, <2>4, <2>5, StepMoves
<1>12. CASE Dispatcher(table)!AwaitLock(f)
  <2>1. /\ tpc[f] = "check" /\ Dispatcher(table)!Supported(req[f])
        /\ sem[LockOf(f)] = 0 /\ UNCHANGED <<sem, req>>
        /\ tpc' = [tpc EXCEPT ![f] = "pend"]
    BY <1>5, <1>12 DEF Dispatcher!AwaitLock
  <2>2. req[f] \in Request /\ SlotOf(f) \in Slot
    BY <2>1, SupportedSlot DEF ThreadInv, SlotOf
  <2>3. \E g \in Iface \ {f} : Holds(g, LockOf(f))
    <3>1. ~Holds(f, LockOf(f))
      BY <2>1 DEF Holds
    <3>. QED
      BY <3>1, <2>1, <2>2, <1>6 DEF SemInv
  <2>4. Moves(f, "pend", 0)
    BY <1>2, <1>6, <2>1, <2>2 DEF Moves, ThreadType
  <2>. QED
    BY <1>2, <1>3, <2>1, <2>2, <2>3, <2>4, StepMoves
<1>13. CASE Dispatcher(table)!LockTimeout(f)
  <2>1. /\ tpc[f] = "pend" /\ UNCHANGED <<sem, req>>
        /\ tpc' = [tpc EXCEPT ![f] = "send"]
    BY <1>13 DEF Dispatcher!LockTimeout
  <2>2. req[f] \in Request /\ SlotOf(f) \in Slot
    BY <2>1 DEF ThreadInv
  <2>3. sem[LockOf(f)] = 0
    BY <2>1, <2>2, <1>6 DEF SemInv
  <2>4. Moves(f, "send", 0)
    BY <1>2, <1>6, <2>1, <2>2, <2>3 DEF Moves, ThreadType
  <2>. QED
    BY <1>2, <1>3, <2>1, <2>2, <2>3, <2>4, StepMoves
<1>14. CASE Dispatcher(table)!CallReturn(f)
  <2>1. /\ tpc[f] = "call" /\ UNCHANGED <<sem, req>>
        /\ tpc' = [tpc EXCEPT ![f] = "give"]
    BY <1>14 DEF Dispatcher!CallReturn
  <2>2. req[f] \in Request /\ SlotOf(f) \in Slot
    BY <2>1 DEF ThreadInv
  <2>3. Holds(f, LockOf(f))
    BY <2>1 DEF Holds
  <2>4. sem[LockOf(f)] = 0 /\ \A g \in Iface : Holds(g, LockOf(f)) => g = f
    BY <2>1, <2>2, <2>3, <1>6 DEF SemInv
  <2>5. Moves(f, "give", 0)
    BY <1>2, <1>6, <2>1, <2>2, <2>4 DEF Moves, ThreadType
  <2>. QED
    BY <1>2, <1>3, <2>1, <2>2, <2>4, <2>5, StepMoves
<1>15. CASE Dispatcher(table)!GiveLock(f)
  <2>1. /\ tpc[f] = "give" /\ UNCHANGED req
        /\ sem' = [sem EXCEPT ![LockOf(f)] = 1]
        /\ tpc' = [tpc EXCEPT ![f] = "send"]
        /\ Dispatcher(table)!Waiters(LockOf(f)) = {}
    BY <1>5, <1>15 DEF Dispatcher!GiveLock
  <2>2. \A g \in Iface : tpc[g] = "pend" => LockOf(g) # LockOf(f)
    BY <2>1, <1>2 DEF Dispatcher!Waiters, Dispatcher!DevOf, LockOf, SlotOf
  <2>3. req[f] \in Request /\ SlotOf(f) \in Slot
    BY <2>1 DEF ThreadInv
  <2>4. Moves(f, "send", 1)
    BY <1>2, <2>1 DEF Moves
  <2>. QED
    BY <1>2, <1>3, <2>1, <2>2, <2>3, <2>4, StepMoves
<1>16. ASSUME NEW w \in Iface, Dispatcher(table)!HandOver(f, w) PROVE SysInv'
  <2>1. /\ tpc[f] = "give" /\ UNCHANGED <<sem, req>>
        /\ tpc' = [tpc EXCEPT ![f] = "send", ![w] = "call"]
        /\ w \in Dispatcher(table)!Waiters(LockOf(f))
    BY <1>5, <1>16 DEF Dispatcher!HandOver, Dispatcher!Longest
  <2>2. tpc[w] = "pend" /\ LockOf(w) = LockOf(f)
    BY <2>1, <1>2 DEF Dispatcher!Waiters, Dispatcher!DevOf, LockOf, SlotOf
  <2>. QED
    BY <1>2, <1>3, <2>1, <2>2, StepHandOver
<1>. QED
  BY <1>1, <1>8, <1>9, <1>10, <1>11, <1>12, <1>13, <1>14, <1>15, <1>16 DEF Dispatcher!Process

LEMMA StepReceive ==
    ASSUME SysInv, NEW f \in Iface, Receive(f)
    PROVE  SysInv'
<1>1. PICK table : Dispatcher(table)!GetReq(f)
  BY DEF Receive
<1>2. PICK r \in Request : req' = [req EXCEPT ![f] = r]
  BY <1>1 DEF Dispatcher!GetReq
<1>3. tpc[f] = "get" /\ tpc' = [tpc EXCEPT ![f] = "check"] /\ UNCHANGED sem
  BY <1>1 DEF Dispatcher!GetReq
<1>4. f \in started /\ UNCHANGED vars
  BY DEF Receive
<1>. QED
  BY <1>2, <1>3, <1>4, BootStays, StepAside DEF SysInv, PCs

LEMMA StepIdle ==
    ASSUME SysInv, UNCHANGED <<vars, tpc, req, sem>>
    PROVE  SysInv'
<1>1. UNCHANGED <<started, peripheral_locks>> /\ IInv' /\ Locks' = Locks
  BY BootStays DEF SysInv, vars
<1>. QED
  BY <1>1 DEF SysInv, ThreadType, ThreadInv, SemInv, Holds, LockOf, SlotOf

LEMMA StepSysInv == SysInv /\ [SystemNext]_system => SysInv'
<1>1. ASSUME SysInv, Tick PROVE SysInv'
  BY <1>1, StepIdle DEF Tick, Dispatcher!Tick
<1>2. ASSUME SysInv, UNCHANGED system PROVE SysInv'
  BY <1>2, StepIdle DEF system, threads
<1>. QED
  BY <1>1, <1>2, StepMain, StepThread, StepReceive DEF SystemNext

THEOREM SystemInvariance == SystemSpec => []SysInv
BY InitSysInv, StepSysInv, PTL DEF SystemSpec

(***************************************************************************)
(* Functions of one device never run for two interfaces at once, whichever *)
(* instances they are called through, and a thread waits only for a thread *)
(* that uses its own device: for the table that main() really builds.      *)
(***************************************************************************)
THEOREM Protection == SystemSpec => []LocksProtectDevices
<1>1. SysInv => LocksProtectDevices
  <2> SUFFICES ASSUME SysInv PROVE LocksProtectDevices
    OBVIOUS
  <2> USE DEF SysInv
  <2>1. \A f \in Iface : tpc[f] \in {"pend", "call", "give"} =>
            SlotOf(f) \in Slot /\ started # {}
    BY DEF ThreadInv
  <2>2. \A f, g \in Iface :
           tpc[f] \in {"pend", "call", "give"} /\ tpc[g] \in {"pend", "call", "give"} =>
              (LockOf(f) = LockOf(g) <=> DeviceOf(f) = DeviceOf(g))
    <3>1. \A s, t \in Slot : started # {} =>
             (peripheral_locks[s] = peripheral_locks[t] <=> GetDev[s] = GetDev[t])
      BY TableComplete DEF IInv, LocksFromNodes, NodesDistinct
    <3>. QED
      BY <3>1, <2>1 DEF LockOf, DeviceOf, SlotOf
  <2>3. ASSUME NEW f \in Iface, NEW g \in Iface, NEW d, Runs(f, d), Runs(g, d)
        PROVE  f = g
    BY <2>2, <2>3 DEF Runs, SemInv, Holds
  <2>4. ASSUME NEW f \in Iface, tpc[f] = "pend"
        PROVE  \E g \in Iface \ {f} : tpc[g] \in {"call", "give"} /\ DeviceOf(g) = DeviceOf(f)
    <3>1. PICK g \in Iface : Holds(g, LockOf(f))
      BY <2>4 DEF SemInv
    <3>. QED
      BY <3>1, <2>2, <2>4 DEF Holds
  <2>. QED
    BY <2>3, <2>4 DEF LocksProtectDevices
<1>. QED
  BY <1>1, SystemInvariance, PTL
-----------------------------------------------------------------------------
(* The firmware as the dispatcher of Dispatch.tla over the devices. *)

\* A device of the list counts as what its one semaphore counts.
LEMMA CountOfNode ==
    ASSUME IInv, NEW n \in dev_locks
    PROVE  LockCount[n.dev] = sem[n.lock]
<1>1. n.dev \in Dev
  BY DEF IInv, TypeOK
<1>2. NodeOf(n.dev) \in dev_locks /\ NodeOf(n.dev).dev = n.dev
  BY DEF NodeOf
<1>3. NodeOf(n.dev) = n
  BY <1>2 DEF IInv, NodesDistinct
<1>. QED
  BY <1>1, <1>3 DEF LockCount

\* A thread's semaphore counts for its device.
LEMMA CountOfLock ==
    ASSUME IInv, started # {}, NEW f \in Iface, SlotOf(f) \in Slot
    PROVE  /\ DeviceOf(f) \in Dev
           /\ LockCount[DeviceOf(f)] = sem[LockOf(f)]
           /\ \E n \in dev_locks : n.dev = DeviceOf(f) /\ n.lock = LockOf(f)
<1>1. PICK n \in dev_locks : n.lock = LockOf(f) /\ n.dev = DeviceOf(f)
  BY TableComplete DEF IInv, LocksFromNodes, LockOf, DeviceOf, SlotOf
<1>. QED
  BY <1>1, CountOfNode DEF IInv, TypeOK

\* Setting a thread's semaphore sets the count of its device and of no other.
LEMMA CountSet ==
    ASSUME IInv, started # {}, NEW f \in Iface, SlotOf(f) \in Slot, sem \in [Addr -> {0, 1}],
           UNCHANGED dev_locks, NEW c, sem' = [sem EXCEPT ![LockOf(f)] = c]
    PROVE  LockCount' = [LockCount EXCEPT ![DeviceOf(f)] = c]
<1>1. PICK n \in dev_locks : n.dev = DeviceOf(f) /\ n.lock = LockOf(f)
  BY CountOfLock
<1>2. n.dev \in Dev /\ n.lock \in Addr
  BY DEF IInv, TypeOK
<1>3. \A d : NodeOf(d)' = NodeOf(d)
  BY DEF NodeOf
<1>4. LockCount' = [d \in Dev |-> IF \E m \in dev_locks : m.dev = d THEN sem'[NodeOf(d).lock] ELSE 1]
  BY <1>3 DEF LockCount
<1>7. ASSUME \A d \in Dev : LockCount'[d] = IF d = DeviceOf(f) THEN c ELSE LockCount[d]
      PROVE  LockCount' = [LockCount EXCEPT ![DeviceOf(f)] = c]
  <2>1. LockCount = [d \in Dev |-> LockCount[d]]
    BY DEF LockCount
  <2>2. LockCount' = [d \in Dev |-> LockCount'[d]]
    BY <1>4
  <2> HIDE DEF LockCount
  <2>. QED
    BY <1>7, <2>1, <2>2
<1> SUFFICES ASSUME NEW d \in Dev
             PROVE  LockCount'[d] = IF d = DeviceOf(f) THEN c ELSE LockCount[d]
  BY <1>7
<1>5. CASE \A m \in dev_locks : m.dev # d
  BY <1>1, <1>4, <1>5 DEF LockCount
<1>6. ASSUME NEW m \in dev_locks, m.dev = d
      PROVE  LockCount'[d] = IF d = DeviceOf(f) THEN c ELSE LockCount[d]
  <2>1. NodeOf(d) \in dev_locks /\ NodeOf(d).dev = d
    BY <1>6 DEF NodeOf
  <2>2. NodeOf(d) = m
    BY <1>6, <2>1 DEF IInv, NodesDistinct
  <2>3. LockCount'[d] = sem'[m.lock] /\ LockCount[d] = sem[m.lock] /\ m.lock \in Addr
    BY <1>4, <1>6, <2>2 DEF LockCount, IInv, TypeOK
  <2>4. m.lock = LockOf(f) <=> d = DeviceOf(f)
    BY <1>1, <1>6 DEF IInv, NodesDistinct
  <2>. QED
    BY <1>2, <2>3, <2>4
<1>. QED
  BY <1>5, <1>6

\* Two threads with supported requests share a semaphore exactly when they share a device.
LEMMA SameLock ==
    ASSUME IInv, started # {}, NEW f \in Iface, NEW g \in Iface,
           SlotOf(f) \in Slot, SlotOf(g) \in Slot
    PROVE  LockOf(f) = LockOf(g) <=> DeviceOf(f) = DeviceOf(g)
<1>1. PICK m \in dev_locks : m.dev = DeviceOf(f) /\ m.lock = LockOf(f)
  BY CountOfLock
<1>2. PICK n \in dev_locks : n.dev = DeviceOf(g) /\ n.lock = LockOf(g)
  BY CountOfLock
<1>. QED
  BY <1>1, <1>2 DEF IInv, NodesDistinct

\* Who waits for the semaphore of f is who waits for its device.
LEMMA SameWaiters ==
    ASSUME SysInv, started # {}, NEW table, table = peripheral_locks,
           NEW f \in Iface, SlotOf(f) \in Slot
    PROVE  Dispatcher(table)!Waiters(LockOf(f)) = Devices!Waiters(DeviceOf(f))
<1>1. \A g \in Iface : tpc[g] = "pend" => SlotOf(g) \in Slot
  BY DEF SysInv, ThreadInv
<1>2. \A g \in Iface : tpc[g] = "pend" => (LockOf(g) = LockOf(f) <=> DeviceOf(g) = DeviceOf(f))
  BY <1>1, SameLock DEF SysInv
<1>. QED
  BY <1>2 DEF Dispatcher!Waiters, Devices!Waiters, Dispatcher!DevOf, Devices!DevOf,
              LockOf, SlotOf, DeviceOf

LEMMA InitDevices == SystemInit => Devices!Init
BY DEF SystemInit, Init, Devices!Init, LockCount

\* main() changes no semaphore that counts, and adds only free ones.
LEMMA MainDevices ==
    ASSUME SysInv, Main
    PROVE  UNCHANGED Devices!vars
<1>1. UNCHANGED threads /\ sem' = [a \in Addr |-> IF a \in Locks' \ Locks THEN 1 ELSE sem[a]]
  BY DEF Main
<1>2. dev_locks \subseteq dev_locks'
  BY DEF Main, Next, SkipRow, BeginRow, LastRow, ShareLock, NewLock, InitPeriph, StartThread, Done, Die
<1>3. IInv /\ IInv'
  BY StepIInv DEF Main, SysInv
<1>4. \A d \in Dev : LockCount'[d] = LockCount[d]
  <2> SUFFICES ASSUME NEW d \in Dev PROVE LockCount'[d] = LockCount[d]
    OBVIOUS
  <2>1. CASE \A n \in dev_locks' : n.dev # d
    BY <1>2, <2>1 DEF LockCount
  <2>2. ASSUME NEW n \in dev_locks, n.dev = d PROVE LockCount'[d] = LockCount[d]
    <3>1. LockCount[d] = sem[n.lock]
      BY <1>3, <2>2, CountOfNode
    <3>2. LockCount'[d] = sem'[n.lock]
      <4>1. n \in dev_locks' /\ d \in Dev
        BY <1>2
      <4>2. NodeOf(d)' \in dev_locks' /\ NodeOf(d)'.dev = d
        BY <2>2, <4>1 DEF NodeOf
      <4>3. NodeOf(d)' = n
        BY <1>3, <2>2, <4>1, <4>2 DEF IInv, NodesDistinct
      <4>. QED
        BY <2>2, <4>1, <4>3 DEF LockCount
    <3>3. n.lock \in Locks /\ n.lock \in Addr
      BY <1>3 DEF Locks, IInv, TypeOK
    <3>. QED
      BY <1>1, <3>1, <3>2, <3>3
  <2>3. ASSUME NEW n \in dev_locks', n.dev = d, \A m \in dev_locks : m.dev # d
        PROVE  LockCount'[d] = LockCount[d]
    <3>1. LockCount[d] = 1
      BY <2>3 DEF LockCount
    <3>2. NodeOf(d)' \in dev_locks' /\ NodeOf(d)'.dev = d
      BY <2>3 DEF NodeOf
    <3>3. NodeOf(d)' = n
      BY <1>3, <2>3, <3>2 DEF IInv, NodesDistinct
    <3>4. LockCount'[d] = sem'[n.lock]
      BY <2>3, <3>3 DEF LockCount
    <3>5. n.lock \in Addr /\ n.lock \in Locks'
      BY <1>3 DEF IInv, TypeOK, Locks
    <3>6. n.lock \notin Locks
      <4> SUFFICES ASSUME NEW m \in dev_locks, m.lock = n.lock PROVE FALSE
        BY DEF Locks
      <4>1. m = n
        BY <1>2, <1>3 DEF IInv, NodesDistinct
      <4>. QED
        BY <2>3, <4>1
    <3>. QED
      BY <1>1, <3>1, <3>4, <3>5, <3>6
  <2>. QED
    BY <2>1, <2>2, <2>3
<1>5. UNCHANGED LockCount
  BY <1>4 DEF LockCount
<1>. QED
  BY <1>1, <1>5 DEF Devices!vars, threads

\* A thread's step leaves the list, so the counts, as its semaphores are.
LEMMA CountKept ==
    ASSUME UNCHANGED <<dev_locks, sem>>
    PROVE  UNCHANGED LockCount
BY DEF LockCount, NodeOf

LEMMA ThreadDevices ==
    ASSUME SysInv, NEW f \in Iface, Thread(f)
    PROVE  Devices!Process(f)
<1> USE DEF SysInv
<1>0. PICK table \in {peripheral_locks} : Dispatcher(table)!Process(f)
  BY DEF Thread
<1>1. table = peripheral_locks /\ f \in started /\ UNCHANGED dev_locks
  BY DEF Thread, vars
<1>2. /\ Dispatcher(table)!DevOf(req[f]) = LockOf(f)
      /\ Devices!DevOf(req[f]) = DeviceOf(f)
  BY <1>1 DEF Dispatcher!DevOf, Devices!DevOf, LockOf, SlotOf, DeviceOf
<1>3. tpc[f] \in {"pend", "call", "give"} => SlotOf(f) \in Slot
  BY DEF ThreadInv
<1>4. tpc[f] = "check" /\ Devices!Supported(req[f]) => SlotOf(f) \in Slot
  BY SupportedSlot DEF ThreadInv, SlotOf, Dispatcher!Supported, Devices!Supported
<1>5. SlotOf(f) \in Slot => LockCount[DeviceOf(f)] = sem[LockOf(f)]
  BY <1>1, CountOfLock
<1>6. sem \in [Addr -> {0, 1}] /\ (SlotOf(f) \in Slot => LockOf(f) \in Addr)
  BY <1>1, TableComplete DEF ThreadType, LockOf
<1>7. Devices!Supported(req[f]) <=> Dispatcher(table)!Supported(req[f])
  BY DEF Dispatcher!Supported, Devices!Supported
<1>8. SlotOf(f) \in Slot => Dispatcher(table)!Waiters(LockOf(f)) = Devices!Waiters(DeviceOf(f))
  BY <1>1, SameWaiters
<1>9. CASE Dispatcher(table)!InitIface(f)
  BY <1>1, <1>9, CountKept DEF Dispatcher!InitIface, Devices!InitIface, Devices!Process
<1>10. CASE Dispatcher(table)!Reject(f)
  BY <1>1, <1>7, <1>10, CountKept DEF Dispatcher!Reject, Devices!Reject, Devices!Process
<1>11. CASE Dispatcher(table)!SendResp(f)
  BY <1>1, <1>11, CountKept DEF Dispatcher!SendResp, Devices!SendResp, Devices!Process
<1>12. CASE Dispatcher(table)!AwaitLock(f)
  BY <1>1, <1>2, <1>4, <1>5, <1>7, <1>12, CountKept
     DEF Dispatcher!AwaitLock, Devices!AwaitLock, Devices!Process
<1>13. CASE Dispatcher(table)!LockTimeout(f)
  BY <1>1, <1>13, CountKept DEF Dispatcher!LockTimeout, Devices!LockTimeout, Devices!Process
<1>14. CASE Dispatcher(table)!CallReturn(f)
  BY <1>1, <1>14, CountKept DEF Dispatcher!CallReturn, Devices!CallReturn, Devices!Process
<1>15. CASE Dispatcher(table)!TakeLock(f)
  <2>1. SlotOf(f) \in Slot
    BY <1>4, <1>7, <1>15 DEF Dispatcher!TakeLock
  <2>2. sem' = [sem EXCEPT ![LockOf(f)] = sem[LockOf(f)] - 1]
    BY <1>2, <1>15 DEF Dispatcher!TakeLock
  <2>3. LockCount' = [LockCount EXCEPT ![DeviceOf(f)] = sem[LockOf(f)] - 1]
    BY <1>1, <1>6, <2>1, <2>2, CountSet
  <2>4. LockCount' = [LockCount EXCEPT ![DeviceOf(f)] = LockCount[DeviceOf(f)] - 1]
    BY <1>5, <2>1, <2>3
  <2>5. Devices!TakeLock(f)
    BY <1>2, <1>5, <1>7, <1>15, <2>1, <2>4 DEF Dispatcher!TakeLock, Devices!TakeLock
  <2>. QED
    BY <2>5 DEF Devices!Process
<1>16. CASE Dispatcher(table)!GiveLock(f)
  <2>1. SlotOf(f) \in Slot /\ sem' = [sem EXCEPT ![LockOf(f)] = 1]
    BY <1>2, <1>3, <1>16 DEF Dispatcher!GiveLock
  <2>2. LockCount' = [LockCount EXCEPT ![DeviceOf(f)] = 1]
    BY <1>1, <1>6, <2>1, CountSet
  <2>3. Devices!GiveLock(f)
    BY <1>2, <1>8, <1>16, <2>1, <2>2
       DEF Dispatcher!GiveLock, Devices!GiveLock, Dispatcher!KeptLen, Devices!KeptLen
  <2>. QED
    BY <2>3 DEF Devices!Process
<1>17. ASSUME NEW w \in Iface, Dispatcher(table)!HandOver(f, w) PROVE Devices!Process(f)
  <2>1. SlotOf(f) \in Slot
    BY <1>3, <1>17 DEF Dispatcher!HandOver
  <2>2. UNCHANGED LockCount
    BY <1>1, <1>17, CountKept DEF Dispatcher!HandOver
  <2>3. Devices!HandOver(f, w)
    BY <1>2, <1>8, <1>17, <2>1, <2>2
       DEF Dispatcher!HandOver, Devices!HandOver, Dispatcher!Longest, Devices!Longest,
           Dispatcher!KeptLen, Devices!KeptLen
  <2>. QED
    BY <2>3 DEF Devices!Process
<1>. QED
  BY <1>0, <1>9, <1>10, <1>11, <1>12, <1>13, <1>14, <1>15, <1>16, <1>17 DEF Dispatcher!Process

LEMMA DevicesStep == SysInv /\ [SystemNext]_system => [Devices!Next]_(Devices!vars)
<1> SUFFICES ASSUME SysInv, [SystemNext]_system PROVE [Devices!Next]_(Devices!vars)
  OBVIOUS
<1>1. CASE Main
  BY <1>1, MainDevices
<1>2. CASE Tick
  <2>1. UNCHANGED LockCount
    BY <1>2, CountKept DEF Tick, Dispatcher!Tick, vars
  <2>2. Devices!Tick
    BY <1>2, <2>1 DEF Tick, Dispatcher!Tick, Devices!Tick
  <2>. QED
    BY <2>2 DEF Devices!Next
<1>3. ASSUME NEW f \in Iface, Thread(f) PROVE Devices!Next
  BY <1>3, ThreadDevices DEF Devices!Next
<1>4. ASSUME NEW f \in Iface, Receive(f) PROVE Devices!Next
  <2>1. UNCHANGED LockCount
    BY <1>4, CountKept DEF Receive, Dispatcher!GetReq, vars
  <2>2. Devices!GetReq(f)
    BY <1>4, <2>1 DEF Receive, Dispatcher!GetReq, Devices!GetReq
  <2>. QED
    BY <2>2 DEF Devices!Next
<1>5. CASE UNCHANGED system
  <2>1. UNCHANGED LockCount
    BY <1>5, CountKept DEF system, vars
  <2>. QED
    BY <1>5, <2>1 DEF system, threads, Devices!vars
<1>. QED
  BY <1>1, <1>2, <1>3, <1>4, <1>5 DEF SystemNext

(***************************************************************************)
(* main() and its threads are the dispatcher of Dispatch.tla over the      *)
(* devices: each step of a thread on the semaphore of its table is a step  *)
(* on its device, and main() is invisible.                                 *)
(***************************************************************************)
THEOREM DispatchRefined == SystemSpec => ImplementsDispatch
<1>1. SystemSpec => Devices!Init /\ [][Devices!Next]_(Devices!vars)
  BY InitDevices, DevicesStep, SystemInvariance, PTL DEF SystemSpec
<1>. QED
  BY <1>1 DEF ImplementsDispatch, Devices!Spec

\* What is proved of the dispatcher, over the devices.
Proved == INSTANCE DispatchProofs WITH pc <- tpc, lock <- LockCount, NoDev <- None

\* The constants of the firmware are fit for the dispatcher.
LEMMA ProvedAssumptions ==
    /\ Proved!SizeAssumption
    /\ Proved!DeviceAssumption
    /\ Proved!RequestAssumption
<1>1. Proved!SizeAssumption
  BY BootAssumption, HostAssumption
     DEF Proved!SizeAssumption, Row, IsFiniteSet, Proved!IsFiniteSet
<1>2. Proved!DeviceAssumption
  <2>1. \A p \in Row : \A x \in 0..NumIdx[p] - 1 : GetDev[<<p, x>>] \in Dev
    BY BootAssumption, SlotShape
  <2>. QED
    BY <2>1, HostAssumption DEF Proved!DeviceAssumption, Row
<1>3. Proved!RequestAssumption
  BY HostAssumption DEF Proved!RequestAssumption, Proved!Retcode
<1>. QED
  BY <1>1, <1>2, <1>3

\* Proved and Devices are one specification.
LEMMA SameSpec == Devices!Spec => Proved!Spec
<1>1. Devices!Init => Proved!Init
  BY DEF Devices!Init, Proved!Init
<1>2. [Devices!Next]_(Devices!vars) => [Proved!Next]_(Proved!vars)
  BY DEF Devices!Next, Proved!Next, Devices!Process, Proved!Process,
         Devices!Tick, Proved!Tick, Devices!GetReq, Proved!GetReq,
         Devices!InitIface, Proved!InitIface, Devices!Reject, Proved!Reject,
         Devices!TakeLock, Proved!TakeLock, Devices!AwaitLock, Proved!AwaitLock,
         Devices!LockTimeout, Proved!LockTimeout, Devices!CallReturn, Proved!CallReturn,
         Devices!GiveLock, Proved!GiveLock, Devices!HandOver, Proved!HandOver,
         Devices!SendResp, Proved!SendResp, Devices!vars, Proved!vars,
         Devices!Supported, Proved!Supported, Devices!DevOf, Proved!DevOf,
         Devices!Waiters, Proved!Waiters, Devices!Longest, Proved!Longest,
         Devices!KeptLen, Proved!KeptLen
<1>. QED
  BY <1>1, <1>2, PTL DEF Devices!Spec, Proved!Spec

(***************************************************************************)
(* Firmware whose functions are short answers BUSY to nobody.              *)
(***************************************************************************)
THEOREM FastNeverBusy == SystemSpec => []NoBusyWhenFast
<1>1. Proved!Spec => []Proved!NoBusyWhenFast
  BY ProvedAssumptions, Proved!FastNeverBusy
<1>2. Proved!NoBusyWhenFast <=> NoBusyWhenFast
  BY DEF Proved!NoBusyWhenFast, NoBusyWhenFast, Devices!NoBusyWhenFast,
         Proved!Cardinality, Devices!Cardinality
<1>. QED
  BY <1>1, <1>2, SameSpec, DispatchRefined, PTL DEF ImplementsDispatch

\* DeviceService sees one and the same of both.
LEMMA SameService == Proved!ImplementsService => Devices!ImplementsService
<1>1. /\ Proved!JobOf = Devices!JobOf
      /\ Proved!OwnerOf = Devices!OwnerOf
      /\ Proved!AnswerOf = Devices!AnswerOf
      /\ Proved!Target = Devices!Target
  BY DEF Proved!JobOf, Devices!JobOf, Proved!OwnerOf, Devices!OwnerOf, Proved!AnswerOf,
         Devices!AnswerOf, Proved!Target, Devices!Target, Proved!Holds, Devices!Holds,
         Proved!DevOf, Devices!DevOf, Proved!Supported, Devices!Supported
<1>2. Proved!Service!Init => Devices!Service!Init
  BY <1>1 DEF Proved!Service!Init, Devices!Service!Init
<1>3. [Proved!Service!Next]_(Proved!Service!vars) => [Devices!Service!Next]_(Devices!Service!vars)
  BY DEF Proved!JobOf, Devices!JobOf, Proved!OwnerOf, Devices!OwnerOf, Proved!AnswerOf,
         Devices!AnswerOf, Proved!Target, Devices!Target, Proved!Holds, Devices!Holds,
         Proved!DevOf, Devices!DevOf, Proved!Supported, Devices!Supported,
         Proved!Service!Next, Devices!Service!Next, Proved!Service!vars, Devices!Service!vars,
         Proved!Service!Accept, Devices!Service!Accept, Proved!Service!Reject, Devices!Service!Reject,
         Proved!Service!Reply, Devices!Service!Reply, Proved!Service!Begin, Devices!Service!Begin,
         Proved!Service!Refuse, Devices!Service!Refuse, Proved!Service!End, Devices!Service!End,
         Proved!Service!Wants, Devices!Service!Wants, Proved!Service!Answers, Devices!Service!Answers,
         Proved!Service!Refusal, Devices!Service!Refusal
<1>. QED
  BY <1>2, <1>3, PTL DEF Proved!ImplementsService, Devices!ImplementsService,
                         Proved!Service!Spec, Devices!Service!Spec

(***************************************************************************)
(* The firmware as a whole, main() included, is a DeviceService.           *)
(***************************************************************************)
THEOREM Served == SystemSpec => Devices!ImplementsService
<1>1. Proved!Spec => Proved!ImplementsService
  BY ProvedAssumptions, Proved!Implementation
<1>. QED
  BY <1>1, SameSpec, SameService, DispatchRefined DEF ImplementsDispatch
=============================================================================
