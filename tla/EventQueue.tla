----------------------------- MODULE EventQueue -----------------------------
(***************************************************************************)
(* What an EventLoop promises about the events given to execute(): they are *)
(* called one after the other, each once, in the order in which they were   *)
(* given.  An event is known by its number in that order.                   *)
(*                                                                          *)
(* The promise ends with the first event that raises, since run() leaves    *)
(* its lock behind, or that posts, since it waits for the lock run() holds: *)
(* from then on no event is accepted and none is called.                    *)
(***************************************************************************)
EXTENDS Naturals, Sequences

VARIABLES waiting,    \* the events that were accepted and not yet called
          called,     \* the events that were called, in order
          stuck       \* an event raised an exception or posted

vars == <<waiting, called, stuck>>

Init == waiting = <<>> /\ called = <<>> /\ stuck = FALSE

Post == /\ ~stuck
        /\ waiting' = Append(waiting, Len(called) + Len(waiting) + 1)
        /\ UNCHANGED <<called, stuck>>

Call == /\ ~stuck /\ waiting # <<>>
        /\ called' = Append(called, Head(waiting))
        /\ waiting' = Tail(waiting)
        /\ UNCHANGED stuck

Jam == /\ ~stuck /\ called # <<>>
       /\ stuck' = TRUE
       /\ UNCHANGED <<waiting, called>>

Next == Post \/ Call \/ Jam

Spec == Init /\ [][Next]_vars
=============================================================================
