-------------------------------- MODULE Face --------------------------------
(***************************************************************************)
(* One Face (python/ndn/Face.py), its ndn handle and its _handle_lock, as   *)
(* used by several Python threads.  The C side keeps, per handle, a node in *)
(* a list for every ndn_run in progress (csrc/util.c); Face takes its lock  *)
(* around a call only when that list has no node for the handle, and asks   *)
(* the same question AGAIN to decide whether to give the lock back.         *)
(*                                                                          *)
(* A step is what the interpreter does between two points where it may      *)
(* switch threads: a C function runs to its end under the interpreter lock, *)
(* except ndn_run and ndn_get, which run without it and take it back for    *)
(* each upcall.  process_scheduled_operations, set_interest_filter and      *)
(* clear_interest_filter keep it, but the upcalls they make run Python code *)
(* that is switched like any other: the timers that are due, and the FINAL  *)
(* upcall of the filter that is replaced or cleared.                        *)
(*                                                                          *)
(* A frame is a call of a method of the Face on some thread: the call made  *)
(* by the thread itself ("main") or the call made by the upcall that the    *)
(* main call is dispatching ("up").  Bound: the calls an upcall makes do    *)
(* not dispatch further upcalls, so there are two levels.  Upcalls that     *)
(* follow one another under a call that keeps the interpreter lock are one  *)
(* stay at "upcall".                                                        *)
(***************************************************************************)
EXTENDS Naturals

CONSTANTS Thread,       \* threads of the Python program
          NoThread,     \* not a thread: nobody uses the handle
          Free,         \* value of the lock when nobody holds it
          Deployments   \* ways an application may use the Face, see Discipline

Level == {"main", "up"}
Frame == Thread \X Level

Locked      == {"expressInterest", "setInterestFilter", "clearInterestFilter", "put"}
Filters     == {"setInterestFilter", "clearInterestFilter"}
Conditional == Locked \cup {"get"}
Checked     == {"process_scheduled", "output_is_pending"}
Unchecked   == {"connect", "disconnect", "setRunTimeout"}
Op          == Conditional \cup Checked \cup Unchecked \cup {"run"}

Timeouts == {"finite", "forever"}      \* run(timeoutms) and run(-1)

PC == {"idle",      \* no call in progress in this frame
       "check",     \* _acquire_lock is about to ask is_run_executing
       "acquire",   \* inside _handle_lock.acquire()
       "call",      \* about to call into _pyndn
       "inside",    \* in ndn_run or ndn_get, without the interpreter lock
       "upcall",    \* the function of libndn is running a Python upcall
       "after",     \* _release_lock is about to ask is_run_executing
       "unlock"}    \* about to call _handle_lock.release()

\* A deployment says which methods each thread calls, which ones upcalls call,
\* and which ones the FINAL upcalls of filters call: none if the filters are set
\* by setInterestFilter (Closure.py:145-149), any if by _setInterestFilter with
\* a closure of the application's own.
Deployment == [top : [Thread -> SUBSET Op], up : SUBSET Op, final : SUBSET Op]

ASSUME FaceAssumption == /\ Deployments \subseteq Deployment
                         /\ NoThread \notin Thread
                         /\ Free \notin Frame

VARIABLES uses,        \* the deployment of this execution; never changes
          pc,          \* where each frame is
          op,          \* the method each frame is executing
          lock,        \* _handle_lock: Free, or the frame that acquired it
          runStates,   \* nodes of this handle in the run_state list
          connected,   \* the handle is connected to the daemon
          runTimeout   \* the timeout the handle's run loop obeys

vars == <<uses, pc, op, lock, runStates, connected, runTimeout>>

-----------------------------------------------------------------------------
(* Frames *)

Outer(f) == <<f[1], "main">>
Inner(f) == <<f[1], "up">>

\* What the upcalls of the main call o may call.
CallsOf(o) == IF o \in Filters THEN uses.final ELSE uses.up

\* The thread may make this call now: its own code does, or the code of the
\* upcall that its main call is running.
MayCall(f, o) == /\ pc[f] = "idle"
                 /\ \/ /\ f[2] = "main"
                       /\ o \in uses.top[f[1]]
                    \/ /\ f[2] = "up"
                       /\ pc[Outer(f)] = "upcall"
                       /\ o \in CallsOf(op[Outer(f)])

\* f executes a call that uses the ndn handle, from the moment it decides to
\* call into _pyndn.  set_run_timeout only stores a number and is left out.
Using(f) == pc[f] \in {"call", "inside", "upcall"} /\ op[f] # "setRunTimeout"

InRun(f) == pc[f] \in {"inside", "upcall"} /\ op[f] = "run"

GoTo(f, label) == pc' = [pc EXCEPT ![f] = label]

Finish(f) == /\ pc' = [pc EXCEPT ![f] = "idle"]
             /\ op' = [op EXCEPT ![f] = "none"]

-----------------------------------------------------------------------------
(* The run_state list: is there a node for this handle? *)

IsRunExecuting == runStates > 0

-----------------------------------------------------------------------------
(* How applications may use a Face.  Nothing in the code enforces this; it   *)
(* is the widest rule we found under which the lock protocol is sound:       *)
(*  - one thread owns the Face; or threads only run() it; or threads only    *)
(*    make the calls that take the lock, and nobody runs it.  Any thread may *)
(*    call setRunTimeout (tests/ndnRun.py does);                             *)
(*  - if anybody calls get() outside of a run, upcalls make no call that     *)
(*    takes the lock (a process_scheduled is no run, its upcalls may get);   *)
(*  - if anybody replaces or clears a filter outside of a run, the FINAL     *)
(*    upcall of the filter makes no such call: the lock is held.  It does    *)
(*    not call process_scheduled either, whose upcalls might (that level is  *)
(*    beyond the bound).                                                     *)

Touches(d, t) == d.top[t] \ {"setRunTimeout"}

OneOwner(d)    == \E t \in Thread : \A u \in Thread \ {t} : Touches(d, u) = {}
RunnersOnly(d) == \A t \in Thread : Touches(d, t) \subseteq {"run"}
CallersOnly(d) == \A t \in Thread : Touches(d, t) \subseteq Conditional

GetsOutsideRun(d) ==
    \E t \in Thread : \/ "get" \in d.top[t]
                      \/ "process_scheduled" \in d.top[t] /\ "get" \in d.up

FiltersOutsideRun(d) ==
    \E t \in Thread : \/ Filters \cap d.top[t] # {}
                      \/ "process_scheduled" \in d.top[t] /\ Filters \cap d.up # {}

Discipline(d) ==
    /\ OneOwner(d) \/ RunnersOnly(d) \/ CallersOnly(d)
    /\ GetsOutsideRun(d) => d.up \cap (Conditional \cup {"run"}) = {}
    /\ FiltersOutsideRun(d) =>
           d.final \cap (Conditional \cup {"run", "process_scheduled"}) = {}

-----------------------------------------------------------------------------
(* A Face exists only once its constructor has connected the handle. *)

InitFor(D) ==
    /\ uses \in D
    /\ pc = [f \in Frame |-> "idle"]
    /\ op = [f \in Frame |-> "none"]
    /\ lock = Free
    /\ runStates = 0
    /\ connected = TRUE
    /\ runTimeout = "finite"

Init == InitFor({d \in Deployments : Discipline(d)})

\* A call that will take the lock only if no run is executing.
EnterConditional(f, o) ==
    /\ o \in Conditional
    /\ MayCall(f, o)
    /\ GoTo(f, "check")
    /\ op' = [op EXCEPT ![f] = o]
    /\ UNCHANGED <<uses, lock, runStates, connected, runTimeout>>

\* Variant: run relies on its assertion and does not take the lock.
EnterCheckedNoLock(f, o) ==
    /\ o \in Checked \cup {"run"}
    /\ MayCall(f, o)
    /\ ~IsRunExecuting
    /\ GoTo(f, "call")
    /\ op' = [op EXCEPT ![f] = o]
    /\ UNCHANGED <<uses, lock, runStates, connected, runTimeout>>

\* A call that begins with "assert not is_run_executing".  When the assertion
\* fails the caller gets an AssertionError and no state changes.
EnterChecked(f, o) ==
    /\ o \in Checked \cup {"run"}
    /\ MayCall(f, o)
    /\ ~IsRunExecuting
    /\ GoTo(f, IF o = "run" THEN "acquire" ELSE "call")
    /\ op' = [op EXCEPT ![f] = o]
    /\ UNCHANGED <<uses, lock, runStates, connected, runTimeout>>

EnterUnchecked(f, o) ==
    /\ o \in Unchecked
    /\ MayCall(f, o)
    /\ GoTo(f, "call")
    /\ op' = [op EXCEPT ![f] = o]
    /\ UNCHANGED <<uses, lock, runStates, connected, runTimeout>>

\* Variants of _acquire_lock: the test negated, and no test at all.
AcquireCheckNegated(f) ==
    /\ pc[f] = "check"
    /\ GoTo(f, IF IsRunExecuting THEN "acquire" ELSE "call")
    /\ UNCHANGED <<uses, op, lock, runStates, connected, runTimeout>>

AcquireAlways(f) ==
    /\ pc[f] = "check"
    /\ GoTo(f, "acquire")
    /\ UNCHANGED <<uses, op, lock, runStates, connected, runTimeout>>

\* _acquire_lock: skip the lock if a run is executing.
AcquireCheck(f) ==
    /\ pc[f] = "check"
    /\ GoTo(f, IF IsRunExecuting THEN "call" ELSE "acquire")
    /\ UNCHANGED <<uses, op, lock, runStates, connected, runTimeout>>

Acquire(f) ==
    /\ pc[f] = "acquire"
    /\ lock = Free
    /\ lock' = f
    /\ GoTo(f, "call")
    /\ UNCHANGED <<uses, op, runStates, connected, runTimeout>>

\* A C function that keeps the interpreter lock; it may raise, and "finally"
\* follows either way.  If it replaces or clears a filter, libndn makes the
\* FINAL upcall of that filter first, with _handle_lock held.  Whether there was
\* a filter by that name is left open.
CallLocked(f) ==
    /\ pc[f] = "call"
    /\ op[f] \in Locked
    /\ \/ GoTo(f, "after")
       \/ f[2] = "main" /\ op[f] \in Filters /\ GoTo(f, "upcall")
    /\ UNCHANGED <<uses, op, lock, runStates, connected, runTimeout>>

OutputIsPending(f) ==
    /\ pc[f] = "call"
    /\ op[f] = "output_is_pending"
    /\ Finish(f)
    /\ UNCHANGED <<uses, lock, runStates, connected, runTimeout>>

\* ndn_process_scheduled_operations expires interests, which may dispatch
\* upcalls.  It leaves no run_state node and keeps the interpreter lock.
ProcessScheduled(f) ==
    /\ pc[f] = "call"
    /\ op[f] = "process_scheduled"
    /\ Finish(f) \/ (f[2] = "main" /\ GoTo(f, "upcall") /\ UNCHANGED op)
    /\ UNCHANGED <<uses, lock, runStates, connected, runTimeout>>

\* ndn_connect fails when there is no daemon, or already a connection.
Connect(f) ==
    /\ pc[f] = "call"
    /\ op[f] = "connect"
    /\ Finish(f)
    /\ connected' \in {TRUE, connected}
    /\ UNCHANGED <<uses, lock, runStates, runTimeout>>

\* Without a connection ndn_disconnect fails and NDNError is raised.
Disconnect(f) ==
    /\ pc[f] = "call"
    /\ op[f] = "disconnect"
    /\ Finish(f)
    /\ connected' = FALSE
    /\ UNCHANGED <<uses, lock, runStates, runTimeout>>

SetRunTimeout(f) ==
    /\ pc[f] = "call"
    /\ op[f] = "setRunTimeout"
    /\ Finish(f)
    /\ runTimeout' \in Timeouts
    /\ UNCHANGED <<uses, lock, runStates, connected>>

\* Variant: run_state_add is forgotten.
RunEnterNoNode(f) ==
    /\ pc[f] = "call"
    /\ op[f] = "run"
    /\ GoTo(f, "inside")
    /\ runTimeout' \in Timeouts
    /\ UNCHANGED <<uses, op, lock, runStates, connected>>

\* _pyndn.run up to ndn_run: add a run_state node, release the interpreter.
RunEnter(f) ==
    /\ pc[f] = "call"
    /\ op[f] = "run"
    /\ GoTo(f, "inside")
    /\ runStates' = runStates + 1
    /\ runTimeout' \in Timeouts
    /\ UNCHANGED <<uses, op, lock, connected>>

\* _pyndn.get leaves no run_state node.  Arguments it refuses end the call
\* before ndn_get.
GetEnter(f) ==
    /\ pc[f] = "call"
    /\ op[f] = "get"
    /\ GoTo(f, "inside") \/ GoTo(f, "after")
    /\ UNCHANGED <<uses, op, lock, runStates, connected, runTimeout>>

\* ndn_upcall_handler: a callback takes the interpreter lock and runs Python code.
Dispatch(f) ==
    /\ f[2] = "main"
    /\ pc[f] = "inside"
    /\ GoTo(f, "upcall")
    /\ UNCHANGED <<uses, op, lock, runStates, connected, runTimeout>>

\* The last upcall of process_scheduled, and the FINAL upcall of a filter, are
\* followed by the end of the function that made them.
UpcallReturn(f) ==
    /\ pc[f] = "upcall"
    /\ pc[Inner(f)] = "idle"
    /\ \/ op[f] \in {"run", "get"} /\ GoTo(f, "inside") /\ UNCHANGED op
       \/ op[f] \in Filters /\ GoTo(f, "after") /\ UNCHANGED op
       \/ op[f] = "process_scheduled" /\ Finish(f)
    /\ UNCHANGED <<uses, lock, runStates, connected, runTimeout>>

\* Variants: the error return comes before run_state_clear; the error return
\* leaves Face.run without "finally".
RunReturnNoClear(f) ==
    /\ pc[f] = "inside"
    /\ op[f] = "run"
    /\ runTimeout = "finite" \/ ~connected
    /\ runStates' = IF connected THEN runStates - 1 ELSE runStates
    /\ GoTo(f, "unlock")
    /\ UNCHANGED <<uses, op, lock, connected, runTimeout>>

RunReturnNoFinally(f) ==
    /\ pc[f] = "inside"
    /\ op[f] = "run"
    /\ runTimeout = "finite" \/ ~connected
    /\ runStates' = runStates - 1
    /\ IF connected THEN GoTo(f, "unlock") /\ UNCHANGED op ELSE Finish(f)
    /\ UNCHANGED <<uses, lock, connected, runTimeout>>

\* ndn_run returns at its deadline, or with an error once the connection is
\* gone.  Either way the node is removed and "finally" gives the lock back.
RunReturn(f) ==
    /\ pc[f] = "inside"
    /\ op[f] = "run"
    /\ runTimeout = "finite" \/ ~connected
    /\ runStates' = runStates - 1
    /\ GoTo(f, "unlock")
    /\ UNCHANGED <<uses, op, lock, connected, runTimeout>>

GetReturn(f) ==
    /\ pc[f] = "inside"
    /\ op[f] = "get"
    /\ GoTo(f, "after")
    /\ UNCHANGED <<uses, op, lock, runStates, connected, runTimeout>>

\* Variant: _release_lock does not ask whether a run is executing.
ReleaseAlways(f) ==
    /\ pc[f] = "after"
    /\ GoTo(f, "unlock")
    /\ UNCHANGED <<uses, op, lock, runStates, connected, runTimeout>>

\* _release_lock: keep quiet if a run is executing.
ReleaseCheck(f) ==
    /\ pc[f] = "after"
    /\ IF IsRunExecuting THEN Finish(f) ELSE GoTo(f, "unlock") /\ UNCHANGED op
    /\ UNCHANGED <<uses, lock, runStates, connected, runTimeout>>

\* threading.Lock.release(): whoever holds the lock loses it.  If nobody
\* holds it thread.error is raised.
Release(f) ==
    /\ pc[f] = "unlock"
    /\ lock' = Free
    /\ Finish(f)
    /\ UNCHANGED <<uses, runStates, connected, runTimeout>>

\* The daemon closes the connection while a call is reading from it.
ConnectionLost ==
    /\ connected
    /\ \E f \in Frame : pc[f] = "inside"
    /\ connected' = FALSE
    /\ UNCHANGED <<uses, pc, op, lock, runStates, runTimeout>>

-----------------------------------------------------------------------------
Enter(f) == \E o \in Op : \/ EnterConditional(f, o)
                          \/ EnterChecked(f, o)
                          \/ EnterUnchecked(f, o)

\* The steps of a call that the interpreter will take without being asked.
Continue(f) == \/ AcquireCheck(f) \/ Acquire(f)
               \/ CallLocked(f) \/ OutputIsPending(f) \/ ProcessScheduled(f)
               \/ Connect(f) \/ Disconnect(f) \/ SetRunTimeout(f)
               \/ RunEnter(f) \/ GetEnter(f)
               \/ ReleaseCheck(f) \/ Release(f)

Return(f) == RunReturn(f) \/ GetReturn(f)

Next == \/ \E f \in Frame : \/ Enter(f) \/ Continue(f)
                            \/ Dispatch(f) \/ UpcallReturn(f) \/ Return(f)
        \/ ConnectionLost

Spec == Init /\ [][Next]_vars

\* Any deployment, disciplined or not.
FreeSpec == InitFor(Deployments) /\ [][Next]_vars

\* A thread with a step to take takes it (the interpreter schedules every
\* thread).  ndn_run and ndn_get compare the clock with their deadline after
\* every upcall, process_scheduled makes upcalls only for what is due, and
\* upcalls end, hence the strong fairness of the returns.  Nothing is assumed about who wins the lock beyond weak fairness.
Fairness == \A f \in Frame : /\ WF_vars(Continue(f))
                             /\ SF_vars(Return(f))
                             /\ SF_vars(UpcallReturn(f))

FairSpec == Spec /\ Fairness

-----------------------------------------------------------------------------
(* Properties *)

TypeOK == /\ uses \in Deployment
          /\ pc \in [Frame -> PC]
          /\ op \in [Frame -> Op \cup {"none"}]
          /\ lock \in Frame \cup {Free}
          /\ runStates \in Nat
          /\ connected \in BOOLEAN
          /\ runTimeout \in Timeouts

\* The ndn handle is never used by two threads at once, although half of the
\* calls are made without the lock (Face.py:37-47, methods_handle.c:339-379).
ExclusiveAccess ==
    \A f, g \in Frame : Using(f) /\ Using(g) => f[1] = g[1]

\* release() is called only by the call that acquired the lock, whatever runs
\* began or ended between the two tests of is_run_executing (Face.py:37-47).
ReleaseOwn == \A f \in Frame : pc[f] = "unlock" => lock = f

\* No call waits for a lock its own thread holds, in particular no upcall
\* waits for the run, the get or the change of a filter that is dispatching it
\* (Face.py:40, 62, methods_handle.c:546, 583).
NoSelfDeadlock ==
    \A f, g \in Frame : pc[f] = "acquire" /\ lock = g => f[1] # g[1]

\* The list says "executing" exactly while some ndn_run is in progress, on
\* every path out of run (util.c:119-174, methods_handle.c:356-366).
RunStateCoherent == IsRunExecuting <=> \E f \in Frame : InRun(f)

\* ndn_run is not entered while it is running on the same handle: what the
\* assertion of Face.run says (Face.py:61).
RunsDoNotOverlap == runStates <= 1

\* A run without a deadline on a live connection.
Endless(f) == op[f] = "run" /\ runTimeout = "forever" /\ connected

\* A call made by an upcall returns to the upcall, endless runs excepted
\* (Face.py:52-141).
UpcallCallsReturn ==
    \A f \in Frame : f[2] = "up" /\ pc[f] # "idle" ~> pc[f] = "idle" \/ Endless(f)

\* The lock is given back, unless its holder is an endless run
\* (Face.py:43-47, 65-66).
LockComesBack == \A f \in Frame : lock = f ~> lock # f \/ Endless(f)

\* The abstract view: the thread using the handle.
user == IF \E f \in Frame : Using(f)
        THEN (CHOOSE f \in Frame : Using(f))[1]
        ELSE NoThread

Access == INSTANCE HandleAccess WITH user <- user

\* The lock protocol implements exclusive access to the handle.
ImplementsAccess == Access!Spec
=============================================================================
