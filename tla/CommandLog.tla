----------------------------- MODULE CommandLog -----------------------------
(***************************************************************************)
(* What a verifier of authenticated commands promises: of the commands that *)
(* were signed with the right key it accepts some, each at most once and in *)
(* the order of their numbers.                                              *)
(*                                                                          *)
(* The number the next one has to exceed follows the accepted commands, and *)
(* jumps ahead only where a command with a wrong MAC carried a higher one.  *)
(* A restart forgets everything but what was signed.                        *)
(***************************************************************************)
EXTENDS Naturals, Sequences

CONSTANT Command      \* each has a number, seq

VARIABLES sent,       \* the commands signed with the right key
          log,        \* the commands accepted since the restart
          last,       \* the number the next one has to exceed
          moved       \* that number has jumped ahead

vars == <<sent, log, last, moved>>

Init == sent = {} /\ log = <<>> /\ last = 0 /\ moved = FALSE

Send == /\ \E c \in Command : sent' = sent \cup {c}
        /\ UNCHANGED <<log, last, moved>>

Accept == /\ \E c \in sent : /\ c.seq > last
                             /\ log' = Append(log, c)
                             /\ last' = c.seq
          /\ UNCHANGED <<sent, moved>>

Jump == /\ last' \in Nat /\ last' > last
        /\ moved' = TRUE
        /\ UNCHANGED <<sent, log>>

Restart == /\ log' = <<>> /\ last' = 0 /\ moved' = FALSE
           /\ UNCHANGED sent

Next == Send \/ Accept \/ Jump \/ Restart

Spec == Init /\ [][Next]_vars
=============================================================================
