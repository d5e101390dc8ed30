----------------------------- MODULE ClosureLife -----------------------------
(***************************************************************************)
(* What the bindings owe libndn about an ndn_closure: it exists from the    *)
(* moment it is registered until its FINAL upcall has ended, libndn calls   *)
(* it only in that time, and after its FINAL upcall has begun never again.  *)
(***************************************************************************)
CONSTANTS Capsule,   \* the ndn_closure structures, by the capsule that owns them
          None       \* no capsule

VARIABLES life,      \* what stage of its life each closure structure is in
          current    \* the structure libndn has just called, None if no such call

Stage == {"free", "registered", "final"}

Init == /\ life = [c \in Capsule |-> "free"]
        /\ current = None

Register(c) == /\ life[c] = "free"
               /\ life' = [life EXCEPT ![c] = "registered"]
               /\ UNCHANGED current

\* libndn lets go of a closure and says so with the FINAL upcall.
Retire(c) == /\ life[c] = "registered"
             /\ life' = [life EXCEPT ![c] = "final"]
             /\ current' = c

\* A new filter takes the place of an old one.
Replace(c, d) == /\ life[c] = "free" /\ life[d] = "registered"
                 /\ life' = [life EXCEPT ![c] = "registered", ![d] = "final"]
                 /\ current' = d

Call(c) == /\ life[c] = "registered" /\ current = None
           /\ current' = c
           /\ UNCHANGED life

\* The handler has what it needs from the structure.
Accept == /\ current' = None
          /\ UNCHANGED life

Free(c) == /\ life[c] = "final"
           /\ life' = [life EXCEPT ![c] = "free"]
           /\ current' = None

Next == \/ \E c \in Capsule : Register(c) \/ Retire(c) \/ Call(c) \/ Free(c)
        \/ \E c, d \in Capsule : Replace(c, d)
        \/ Accept

Spec == Init /\ [][Next]_<<life, current>>
=============================================================================
