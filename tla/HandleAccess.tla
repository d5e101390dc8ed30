---------------------------- MODULE HandleAccess ----------------------------
(***************************************************************************)
(* What a Face promises about its ndn handle: libndn is not thread safe,    *)
(* so at any moment at most one thread is using the handle, and a thread    *)
(* starts to use it only after the previous user has left.  A thread that   *)
(* is inside may touch the handle again (an upcall that puts or expresses)  *)
(* without leaving; that is not a step of this specification.               *)
(***************************************************************************)
CONSTANTS Thread,     \* threads of the Python program
          NoThread    \* "nobody is using the handle"

VARIABLE user         \* the thread that is using the handle

TypeOK == user \in Thread \cup {NoThread}

Init == user = NoThread

Enter(t) == /\ user = NoThread
            /\ user' = t

Leave(t) == /\ user = t
            /\ user' = NoThread

Next == \E t \in Thread : Enter(t) \/ Leave(t)

Spec == Init /\ [][Next]_user
=============================================================================
