---------------------------- MODULE WriteService ----------------------------
(***************************************************************************)
(* What a peripheral that sends in interrupts promises of its writes,      *)
(* which give up after a time-out (can_write, uart_write).  The units that *)
(* are written, frames or bytes, are numbered in the order of the calls.   *)
(* A write hands its units over only when none of an earlier write is      *)
(* left; they leave in order, each once; success means that all of them    *)
(* have left.  A write that gives up leaves them to leave later; only      *)
(* where MayAbort may they be dropped instead, and then between writes.    *)
(* Interrupts, semaphores and the flag of a late completion are left to    *)
(* the peripherals.                                                        *)
(***************************************************************************)
EXTENDS Integers

CONSTANTS
    NoErr,          \* the answer that reports success
    MayAbort        \* whether units that are left may be dropped

VARIABLES
    writing,        \* a write has handed its units over and waits
    written,        \* number of the last unit handed over and not dropped
    sent,           \* number of the last unit that has left
    answer          \* of the last function that ended

vars == <<writing, written, sent, answer>>

Init == /\ writing = FALSE
        /\ written = 0
        /\ sent = 0
        /\ answer = NoErr

\* The units of a write that was refused keep their numbers, unused.
HandOver == /\ ~writing
            /\ sent = written
            /\ writing' = TRUE
            /\ written' >= written
            /\ UNCHANGED <<sent, answer>>

Leave == /\ sent < sent'
         /\ sent' <= written
         /\ UNCHANGED <<writing, written, answer>>

Succeed == /\ writing
           /\ sent = written
           /\ writing' = FALSE
           /\ answer' = NoErr
           /\ UNCHANGED <<written, sent>>

GiveUp == /\ writing
          /\ writing' = FALSE
          /\ answer' # NoErr
          /\ UNCHANGED <<written, sent>>

Abort == /\ MayAbort
         /\ ~writing
         /\ written' = sent
         /\ UNCHANGED <<writing, sent, answer>>

\* A write that is refused, or any other function.
Other == /\ ~writing
         /\ UNCHANGED <<writing, written, sent>>

Next == HandOver \/ Leave \/ Succeed \/ GiveUp \/ Abort \/ Other

Spec == Init /\ [][Next]_vars
=============================================================================
