------------------------------- MODULE MCFace -------------------------------
EXTENDS Face

CONSTANTS t1, t2   \* two of the threads

All(ops) == [u \in Thread |-> ops]

\* The loop thread owns the face, upcalls put and ask for more, a filter that
\* goes looks at the face once more; another thread moves the deadline.
Loop == [top |-> [u \in Thread |->
                    IF u = t1 THEN {"run", "put", "setInterestFilter",
                                    "clearInterestFilter", "connect", "disconnect",
                                    "process_scheduled", "output_is_pending"}
                    ELSE {"setRunTimeout"}],
         up |-> {"put", "expressInterest", "run", "process_scheduled",
                 "disconnect", "setRunTimeout"},
         final |-> {"output_is_pending", "disconnect"}]

\* Several threads run the face, upcalls call back into it.
Runners == [top |-> All({"run"}),
            up |-> {"put", "clearInterestFilter", "get", "run"},
            final |-> {}]

\* Several threads call the face and nobody runs it; its upcalls only look.
Callers == [top |-> All({"setInterestFilter", "get"}),
            up |-> {"output_is_pending", "setRunTimeout"},
            final |-> {"output_is_pending", "setRunTimeout"}]

\* Two threads run the face and another calls it: outside the discipline.
Mixed == [top |-> [u \in Thread |-> IF u = t2 THEN {"put"} ELSE {"run"}],
          up |-> {}, final |-> {}]

Disciplined == {Loop, Runners, Callers}
Undisciplined == {Mixed}
=============================================================================
