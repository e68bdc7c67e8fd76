--------------------------- MODULE DeviceService ---------------------------
(***************************************************************************)
(* What the JABI firmware promises the hosts attached to its interfaces:   *)
(* every accepted request is answered once; a peripheral function runs on  *)
(* behalf of at most one interface per device; a request is refused as     *)
(* BUSY only while another interface uses the device; and an answer that   *)
(* reports an error carries no payload, which is what lets a host stop     *)
(* reading after the header.  Locks, wait queues and time are left to      *)
(* Dispatch.tla, which implements this specification.                      *)
(***************************************************************************)
EXTENDS Integers

CONSTANTS
    Iface,          \* the interfaces, each served by a thread of its own
    Dev,            \* the devices behind the peripheral instances
    Request,        \* requests a host may send
    Target,         \* Target[r]: the device r is for, or NoDev if r is unsupported
    FnRetcode,      \* return codes of peripheral functions
    MaxLen,         \* longest response payload
    NoDev, None     \* not a device; not a request, an owner or an answer

CONSTANTS NoErr, NotSupportedErr, BusyErr

VARIABLES
    job,            \* job[i]: the request interface i is serving, or None
    owner,          \* owner[d]: the interface whose request runs on d, or None
    answer          \* answer[i]: the answer that is ready for i's host, or None

vars == <<job, owner, answer>>

Answers == {a \in [retcode : FnRetcode, payload_len : 0..MaxLen] :
              a.retcode # NoErr => a.payload_len = 0}

Refusal(rc) == [retcode |-> rc, payload_len |-> 0]

Init == /\ job = [i \in Iface |-> None]
        /\ owner = [d \in Dev |-> None]
        /\ answer = [i \in Iface |-> None]

Accept(i) == /\ job[i] = None
             /\ \E r \in Request : job' = [job EXCEPT ![i] = r]
             /\ UNCHANGED <<owner, answer>>

\* The request of i is for d, and has neither started nor been answered.
Wants(i, d) == /\ job[i] # None
               /\ Target[job[i]] = d
               /\ owner[d] # i
               /\ answer[i] = None

Reject(i) == /\ job[i] # None
             /\ Target[job[i]] = NoDev
             /\ answer[i] = None
             /\ answer' = [answer EXCEPT ![i] = Refusal(NotSupportedErr)]
             /\ UNCHANGED <<job, owner>>

Begin(i, d) == /\ Wants(i, d)
               /\ owner[d] = None
               /\ owner' = [owner EXCEPT ![d] = i]
               /\ UNCHANGED <<job, answer>>

Refuse(i, d) == /\ Wants(i, d)
                /\ owner[d] # None
                /\ answer' = [answer EXCEPT ![i] = Refusal(BusyErr)]
                /\ UNCHANGED <<job, owner>>

\* The function returns; the device is free or goes to someone who wants it.
End(i, d) == /\ owner[d] = i
             /\ \E a \in Answers : answer' = [answer EXCEPT ![i] = a]
             /\ \E next \in {None} \cup {j \in Iface : Wants(j, d)} :
                    owner' = [owner EXCEPT ![d] = next]
             /\ UNCHANGED job

Reply(i) == /\ answer[i] # None
            /\ answer' = [answer EXCEPT ![i] = None]
            /\ job' = [job EXCEPT ![i] = None]
            /\ UNCHANGED owner

Next == \E i \in Iface :
          \/ Accept(i)
          \/ Reject(i)
          \/ Reply(i)
          \/ \E d \in Dev : Begin(i, d) \/ Refuse(i, d) \/ End(i, d)

Spec == Init /\ [][Next]_vars
=============================================================================
