---------------------------- MODULE LinkService ----------------------------
(***************************************************************************)
(* What a link between one host and one device promises the application,   *)
(* whatever carries it: the device runs the function of a call at most     *)
(* once; a call that succeeds returns the answer of its own function, and  *)
(* only after it has run; a call may fail at any time, and then what the   *)
(* device still does for it, and the answer to that, belong to nobody and  *)
(* reach no later call.  An answer may be lost; the call then fails.  A    *)
(* call always ends.  Packets, time-outs and resets are left to the links. *)
(***************************************************************************)
CONSTANTS Calls, None           \* the calls; none of them

VARIABLES
    call,       \* the call in progress, or None
    run,        \* whose function the device runs: "nobody", "mine", "orphan"
    taken,      \* the device has taken the call in progress
    reply,      \* whose answer is on its way: "nobody", "mine", "orphan"
    result      \* how the last call ended: "none", "ok", "error"

vars == <<call, run, taken, reply, result>>

\* What belonged to a call that is over.
Orphaned(owner) == IF owner = "mine" THEN "orphan" ELSE owner

Init == /\ call = None
        /\ run = "nobody"
        /\ taken = FALSE
        /\ reply = "nobody"
        /\ result = "none"

Ask == /\ call = None
       /\ call' \in Calls
       /\ UNCHANGED <<run, taken, reply, result>>

Take == /\ call # None
        /\ ~taken
        /\ run = "nobody"
        /\ run' = "mine"
        /\ taken' = TRUE
        /\ UNCHANGED <<call, reply, result>>

Work == /\ run # "nobody"
        /\ reply = "nobody"
        /\ reply' \in {run, "nobody"}
        /\ run' = "nobody"
        /\ UNCHANGED <<call, taken, result>>

Deliver == /\ reply = "mine"
           /\ reply' = "nobody"
           /\ call' = None
           /\ taken' = FALSE
           /\ result' = "ok"
           /\ UNCHANGED run

\* An answer that nobody waits for may be thrown away with the call.
GiveUp == /\ call # None
          /\ call' = None
          /\ taken' = FALSE
          /\ result' = "error"
          /\ run' = Orphaned(run)
          /\ reply' \in {"nobody", Orphaned(reply)}

Next == Ask \/ Take \/ Work \/ Deliver \/ GiveUp

Spec == Init /\ [][Next]_vars

FairSpec == Spec /\ WF_vars(Deliver \/ GiveUp)
=============================================================================
