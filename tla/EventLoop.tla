------------------------------ MODULE EventLoop ------------------------------
(***************************************************************************)
(* python/ndn/EventLoop.py: one thread runs the loop over several faces;    *)
(* other threads, events and upcalls post events with execute() and end the *)
(* loop with stop().                                                        *)
(*                                                                          *)
(* A step is what the loop or a caller does between two points where the    *)
(* interpreter may switch threads and the switch can matter.  The faces are *)
(* seen through what module Face shows of them: whether a run is executing  *)
(* and whether the handle is connected.  Only the loop runs them, so their  *)
(* own locks are never contended (FaceProofs) and are left out here.        *)
(***************************************************************************)
EXTENDS Naturals, Sequences

CONSTANTS Handle,      \* the faces the loop was created with
          Worker,      \* the other threads
          Loop,        \* the thread that calls run()
          Free,        \* nobody holds eventLock
          NoHandle,    \* the loop is not dispatching a face
          StopModes,   \* from where an application may call stop(), see stopFrom
          MaxPosts,    \* bound: how often execute() is called
          MaxRuns      \* bound: how often run() is called

Caller == Worker \cup {Loop}
Place  == {"upcall", "timer", "event", "thread"}

ASSUME EventLoopAssumption == /\ Handle # {}
                              /\ Loop \notin Worker
                              /\ Free \notin Caller
                              /\ NoHandle \notin Handle
                              /\ "check" \notin Handle      \* stop()'s step before any face
                              /\ StopModes \subseteq SUBSET Place
                              /\ MaxPosts \in Nat /\ MaxRuns \in Nat

LoopPC == {"idle",     \* run() has not been called, or has ended
           "test",     \* while self.running
           "lock",     \* self.eventLock.acquire()
           "events",   \* for event in self.events
           "event",    \* in event ()
           "clear",    \* self.events = []
           "schedule", \* in run_scheduled, for handle in self.fds
           "timer",    \* in an upcall of process_scheduled of the current handle
           "select",   \* in select.select
           "ready",    \* for handle in handles
           "inside",   \* in ndn_run of the current handle
           "upcall"}   \* in an upcall of the current handle

VARIABLES stopFrom,    \* where this application calls stop(); never changes
          running,     \* self.running
          eventLock,   \* self.eventLock: Free, or the caller that acquired it
          events,      \* self.events, as the numbers of the posted events
          pc,          \* where run() is
          index,       \* position of the for loop in events
          todo,        \* faces the current for loop has still to come to
          current,     \* the face that is being run or asked for its timers
          executing,   \* the faces with a node in the run_state list
          connected,   \* the faces whose handle is connected
          call,        \* what each caller is executing: execute, stop, nothing
          step,        \* where in that call it is
          rest,        \* faces stop() has still to look at
          \* history, not part of the program
          calls,       \* number of calls of execute()
          posted,      \* number of events appended so far
          started,     \* the events that were called, in order
          runs,        \* number of calls of run()
          exit,        \* how run() ended last: "none", "return" or "raise"
          raised,      \* an event has raised an exception
          lost         \* a connection was missing when run() began, or was closed
                       \* by the daemon since then

loopVars  == <<running, pc, index, todo, current, executing>>
callVars  == <<call, step, rest>>
ghostVars == <<calls, posted, started, runs, exit, raised, lost>>
vars == <<stopFrom, eventLock, events, connected, loopVars, callVars, ghostVars>>

-----------------------------------------------------------------------------
Init == /\ stopFrom \in StopModes
        /\ running = FALSE /\ eventLock = Free /\ events = <<>>
        /\ pc = "idle" /\ index = 1 /\ todo = {} /\ current = NoHandle
        /\ executing = {} /\ connected = Handle
        /\ call = [c \in Caller |-> "none"]
        /\ step = [c \in Caller |-> "none"]
        /\ rest = [c \in Caller |-> {}]
        /\ calls = 0 /\ posted = 0 /\ started = <<>> /\ runs = 0 /\ exit = "none"
        /\ raised = FALSE /\ lost = FALSE

\* The code that c is running may make a call: a thread's own code, or on the
\* loop's thread the code of an event or of an upcall.
MayCall(c, place) ==
    /\ call[c] = "none"
    /\ place = IF c = Loop THEN pc ELSE "thread"

-----------------------------------------------------------------------------
(* execute(event) *)

\* An event that posts waits in acquire() for the lock its own loop holds.
ExecuteCall(c) ==
    /\ \E place \in Place : MayCall(c, place)
    /\ calls < MaxPosts
    /\ calls' = calls + 1
    /\ call' = [call EXCEPT ![c] = "execute"]
    /\ step' = [step EXCEPT ![c] = "acquire"]
    /\ UNCHANGED <<stopFrom, eventLock, events, connected, loopVars, rest,
                   posted, started, runs, exit, raised, lost>>

ExecuteAcquire(c) ==
    /\ call[c] = "execute" /\ step[c] = "acquire"
    /\ eventLock = Free
    /\ eventLock' = c
    /\ step' = [step EXCEPT ![c] = "append"]
    /\ UNCHANGED <<stopFrom, events, connected, loopVars, call, rest, ghostVars>>

ExecuteAppend(c) ==
    /\ call[c] = "execute" /\ step[c] = "append"
    /\ events' = Append(events, posted + 1)
    /\ posted' = posted + 1
    /\ step' = [step EXCEPT ![c] = "release"]
    /\ UNCHANGED <<stopFrom, eventLock, connected, loopVars, call, rest,
                   calls, started, runs, exit, raised, lost>>

ExecuteRelease(c) ==
    /\ call[c] = "execute" /\ step[c] = "release"
    /\ eventLock' = Free
    /\ call' = [call EXCEPT ![c] = "none"]
    /\ step' = [step EXCEPT ![c] = "none"]
    /\ UNCHANGED <<stopFrom, events, connected, loopVars, rest, ghostVars>>

-----------------------------------------------------------------------------
(* stop() *)

StopCall(c) ==
    /\ \E place \in stopFrom : MayCall(c, place)
    /\ running' = FALSE
    /\ call' = [call EXCEPT ![c] = "stop"]
    /\ step' = [step EXCEPT ![c] = "check"]
    /\ rest' = [rest EXCEPT ![c] = Handle]
    /\ UNCHANGED <<stopFrom, eventLock, events, connected, pc, index, todo, current,
                   executing, ghostVars>>

\* Variants: an executing face ends the iteration; nobody asks who executes.
StopCheckBreak(c) ==
    /\ call[c] = "stop" /\ step[c] = "check"
    /\ \E h \in rest[c] :
          IF h \in executing
          THEN /\ rest' = [rest EXCEPT ![c] = {}]
               /\ UNCHANGED step
          ELSE /\ step' = [step EXCEPT ![c] = h]
               /\ UNCHANGED rest
    /\ UNCHANGED <<stopFrom, eventLock, events, connected, loopVars, call, ghostVars>>

StopCheckNoTest(c) ==
    /\ call[c] = "stop" /\ step[c] = "check"
    /\ \E h \in rest[c] : step' = [step EXCEPT ![c] = h]
    /\ UNCHANGED <<stopFrom, eventLock, events, connected, loopVars, call, rest, ghostVars>>

\* The faces come in the order of a dictionary.  A face that is executing is
\* left alone, one that is not will be disconnected.
StopCheck(c) ==
    /\ call[c] = "stop" /\ step[c] = "check"
    /\ \E h \in rest[c] :
          IF h \in executing
          THEN /\ rest' = [rest EXCEPT ![c] = @ \ {h}]
               /\ UNCHANGED step
          ELSE /\ step' = [step EXCEPT ![c] = h]
               /\ UNCHANGED rest
    /\ UNCHANGED <<stopFrom, eventLock, events, connected, loopVars, call, ghostVars>>

StopDisconnect(c) ==
    /\ call[c] = "stop" /\ step[c] \in Handle \cap connected
    /\ connected' = connected \ {step[c]}
    /\ rest' = [rest EXCEPT ![c] = @ \ {step[c]}]
    /\ step' = [step EXCEPT ![c] = "check"]
    /\ UNCHANGED <<stopFrom, eventLock, events, loopVars, call, ghostVars>>

StopReturn(c) ==
    /\ call[c] = "stop" /\ step[c] = "check" /\ rest[c] = {}
    /\ call' = [call EXCEPT ![c] = "none"]
    /\ step' = [step EXCEPT ![c] = "none"]
    /\ UNCHANGED <<stopFrom, eventLock, events, connected, loopVars, rest, ghostVars>>

\* A handle that has no connection cannot be disconnected: NDNError leaves
\* stop() with the remaining faces untouched.  An upcall's exception is printed
\* and forgotten; an event's ends the loop, see EventRaise.
StopRaise(c) ==
    /\ call[c] = "stop" /\ step[c] \in Handle \ connected
    /\ call' = [call EXCEPT ![c] = "none"]
    /\ step' = [step EXCEPT ![c] = "none"]
    /\ rest' = [rest EXCEPT ![c] = {}]
    /\ IF c = Loop /\ pc = "event"
       THEN pc' = "test" /\ raised' = TRUE
       ELSE UNCHANGED <<pc, raised>>
    /\ UNCHANGED <<stopFrom, eventLock, events, connected, running, index, todo,
                   current, executing, calls, posted, started, runs, exit, lost>>

-----------------------------------------------------------------------------
(* run() *)

\* Between two runs the application connects its faces again ...
Reconnect(h) ==
    /\ pc = "idle" /\ h \notin connected
    /\ connected' = connected \cup {h}
    /\ exit' = "none"
    /\ UNCHANGED <<stopFrom, eventLock, events, loopVars, callVars,
                   calls, posted, started, runs, raised, lost>>

\* ... or forgets to: run() does not look.
Start ==
    /\ pc = "idle"
    /\ runs < MaxRuns
    /\ running' = TRUE
    /\ pc' = "test"
    /\ runs' = runs + 1
    /\ exit' = "none"
    /\ lost' = (connected # Handle)
    /\ UNCHANGED <<stopFrom, eventLock, events, connected, index, todo, current,
                   executing, callVars, calls, posted, started, raised>>

\* Variant: while True.
TestNothing ==
    /\ pc = "test"
    /\ pc' = "lock"
    /\ UNCHANGED <<stopFrom, running, eventLock, events, connected, index, todo, current,
                   executing, callVars, ghostVars>>

TestRunning ==
    /\ pc = "test"
    /\ IF running
       THEN pc' = "lock" /\ UNCHANGED exit
       ELSE pc' = "idle" /\ exit' = "return"
    /\ UNCHANGED <<stopFrom, running, eventLock, events, connected, index, todo, current,
                   executing, callVars, calls, posted, started, runs, raised, lost>>

\* Variants: the events are run without the lock; the position is kept from the
\* previous turn.
LoopNoAcquire ==
    /\ pc = "lock"
    /\ pc' = "events"
    /\ index' = 1
    /\ UNCHANGED <<stopFrom, running, eventLock, events, connected, todo, current,
                   executing, callVars, ghostVars>>

LoopAcquireNoReset ==
    /\ pc = "lock"
    /\ eventLock = Free
    /\ eventLock' = Loop
    /\ pc' = "events"
    /\ UNCHANGED <<stopFrom, running, events, connected, index, todo, current, executing,
                   callVars, ghostVars>>

LoopAcquire ==
    /\ pc = "lock"
    /\ eventLock = Free
    /\ eventLock' = Loop
    /\ pc' = "events"
    /\ index' = 1
    /\ UNCHANGED <<stopFrom, running, events, connected, todo, current, executing,
                   callVars, ghostVars>>

EventCall ==
    /\ pc = "events"
    /\ index <= Len(events)
    /\ pc' = "event"
    /\ started' = Append(started, events[index])
    /\ UNCHANGED <<stopFrom, running, eventLock, events, connected, index, todo, current,
                   executing, callVars, calls, posted, runs, exit, raised, lost>>

EventReturn ==
    /\ pc = "event" /\ call[Loop] = "none"
    /\ pc' = "events"
    /\ index' = index + 1
    /\ UNCHANGED <<stopFrom, running, eventLock, events, connected, todo, current,
                   executing, callVars, ghostVars>>

\* An exception leaves the loop body with the lock held and the events kept.
\* NDNError is swallowed when the loop is being stopped, a select.error that
\* says EINTR always; anything else leaves run().
EventRaise ==
    /\ pc = "event" /\ call[Loop] = "none"
    /\ raised' = TRUE
    /\ \/ pc' = "test" /\ UNCHANGED exit
       \/ pc' = "idle" /\ exit' = "raise"
    /\ UNCHANGED <<stopFrom, running, eventLock, events, connected, index, todo, current,
                   executing, callVars, calls, posted, started, runs, lost>>

EventsDone ==
    /\ pc = "events"
    /\ index > Len(events)
    /\ pc' = "clear"
    /\ UNCHANGED <<stopFrom, running, eventLock, events, connected, index, todo, current,
                   executing, callVars, ghostVars>>

\* Variants: the list is not emptied; the lock is not released.
ClearNothing ==
    /\ pc = "clear"
    /\ eventLock' = Free
    /\ pc' = "schedule"
    /\ todo' = Handle
    /\ UNCHANGED <<stopFrom, running, events, connected, index, current, executing,
                   callVars, ghostVars>>

ClearNoRelease ==
    /\ pc = "clear"
    /\ events' = <<>>
    /\ pc' = "schedule"
    /\ todo' = Handle
    /\ UNCHANGED <<stopFrom, running, eventLock, connected, index, current,
                   executing, callVars, ghostVars>>

Clear ==
    /\ pc = "clear"
    /\ events' = <<>>
    /\ eventLock' = Free
    /\ pc' = "schedule"
    /\ todo' = Handle
    /\ UNCHANGED <<stopFrom, running, connected, index, current, executing,
                   callVars, ghostVars>>

\* process_scheduled of each face in turn.  It takes no lock, leaves no run_state
\* node and keeps the interpreter to itself, except in the upcalls that report
\* the interests that are due, if there are any.
ProcessScheduled ==
    /\ pc = "schedule"
    /\ \E h \in todo : /\ todo' = todo \ {h}
                       /\ \/ pc' = "timer" /\ current' = h
                          \/ UNCHANGED <<pc, current>>
    /\ UNCHANGED <<stopFrom, running, eventLock, events, connected, index, executing,
                   callVars, ghostVars>>

ScheduledDone ==
    /\ pc = "schedule"
    /\ todo = {}
    /\ pc' = "select"
    /\ UNCHANGED <<stopFrom, running, eventLock, events, connected, index, todo, current,
                   executing, callVars, ghostVars>>

\* select.select returns some faces, or none after at most a second.  It is
\* interrupted by a signal ("continue").  With the descriptor of a handle that
\* has no connection it raises ValueError or EBADF, which run() lets through.
Select ==
    /\ pc = "select"
    /\ \/ /\ Handle \subseteq connected
          /\ \E ready \in SUBSET Handle : todo' = ready
          /\ pc' = "ready"
          /\ UNCHANGED exit
       \/ /\ Handle \subseteq connected
          /\ pc' = "test"
          /\ UNCHANGED <<todo, exit>>
       \/ /\ ~(Handle \subseteq connected)
          /\ pc' = "idle"
          /\ exit' = "raise"
          /\ UNCHANGED todo
    /\ UNCHANGED <<stopFrom, running, eventLock, events, connected, index, current,
                   executing, callVars, calls, posted, started, runs, raised, lost>>

RunHandle ==
    /\ pc = "ready"
    /\ \E h \in todo : /\ todo' = todo \ {h}
                       /\ current' = h
                       /\ executing' = executing \cup {h}
    /\ pc' = "inside"
    /\ UNCHANGED <<stopFrom, running, eventLock, events, connected, index, callVars, ghostVars>>

RunOnceDone ==
    /\ pc = "ready"
    /\ todo = {}
    /\ pc' = "test"
    /\ UNCHANGED <<stopFrom, running, eventLock, events, connected, index, todo, current,
                   executing, callVars, ghostVars>>

\* ndn_upcall_handler, called from ndn_run.
Upcall ==
    /\ pc = "inside" /\ current \in connected
    /\ pc' = "upcall"
    /\ UNCHANGED <<stopFrom, running, eventLock, events, connected, index, todo, current,
                   executing, callVars, ghostVars>>

\* Back to ndn_run; or the last upcall of process_scheduled, which ends with it.
UpcallReturn ==
    /\ call[Loop] = "none"
    /\ \/ pc = "upcall" /\ pc' = "inside" /\ UNCHANGED current
       \/ pc = "timer" /\ pc' = "schedule" /\ current' = NoHandle
    /\ UNCHANGED <<stopFrom, running, eventLock, events, connected, index, todo,
                   executing, callVars, ghostVars>>

\* Variant: every NDNError is raised again.
RunReturnReraise ==
    /\ pc = "inside"
    /\ executing' = executing \ {current}
    /\ current' = NoHandle
    /\ IF current \in connected
       THEN pc' = "ready" /\ UNCHANGED <<todo, exit>>
       ELSE todo' = {} /\ pc' = "idle" /\ exit' = "raise"
    /\ UNCHANGED <<stopFrom, running, eventLock, events, connected, index, callVars,
                   calls, posted, started, runs, raised, lost>>

\* ndn_run(0) ends; without a connection it fails and NDNError skips the other
\* faces: it is raised again unless the loop is being stopped.
RunReturn ==
    /\ pc = "inside"
    /\ executing' = executing \ {current}
    /\ current' = NoHandle
    /\ IF current \in connected
       THEN pc' = "ready" /\ UNCHANGED <<todo, exit>>
       ELSE /\ todo' = {}
            /\ IF running THEN pc' = "idle" /\ exit' = "raise"
                          ELSE pc' = "test" /\ UNCHANGED exit
    /\ UNCHANGED <<stopFrom, running, eventLock, events, connected, index, callVars,
                   calls, posted, started, runs, raised, lost>>

\* The daemon closes the connection of the face that is being run.
ConnectionLost ==
    /\ pc = "inside" /\ current \in connected
    /\ connected' = connected \ {current}
    /\ lost' = TRUE
    /\ UNCHANGED <<stopFrom, eventLock, events, loopVars, callVars,
                   calls, posted, started, runs, exit, raised>>

-----------------------------------------------------------------------------
InCall(c) == \/ ExecuteAcquire(c) \/ ExecuteAppend(c) \/ ExecuteRelease(c)
             \/ StopCheck(c) \/ StopDisconnect(c) \/ StopReturn(c) \/ StopRaise(c)

LoopStep == \/ TestRunning \/ LoopAcquire \/ EventCall \/ EventsDone \/ Clear
            \/ ProcessScheduled \/ ScheduledDone \/ Select \/ RunHandle \/ RunOnceDone

Next == \/ \E c \in Caller : ExecuteCall(c) \/ StopCall(c) \/ InCall(c)
        \/ \E h \in Handle : Reconnect(h)
        \/ Start \/ LoopStep
        \/ EventReturn \/ EventRaise
        \/ Upcall \/ UpcallReturn \/ RunReturn
        \/ ConnectionLost

\* Threads are scheduled; events, upcalls and ndn_run(0) end, however many calls
\* and upcalls they make on the way.  A thread that waits in acquire() is woken by
\* each release, and the loop sleeps in select between two of its own turns with
\* the lock, hence the strong fairness of ExecuteAcquire.
Fairness == /\ \A c \in Caller : WF_vars(InCall(c)) /\ SF_vars(ExecuteAcquire(c))
            /\ WF_vars(LoopStep)
            /\ SF_vars(EventReturn) /\ SF_vars(UpcallReturn) /\ SF_vars(RunReturn)

Spec == Init /\ [][Next]_vars
FairSpec == Spec /\ Fairness

-----------------------------------------------------------------------------
(* Properties *)

TypeOK ==
    /\ stopFrom \in SUBSET Place /\ running \in BOOLEAN
    /\ eventLock \in Caller \cup {Free}
    /\ events \in Seq(1..MaxPosts) /\ pc \in LoopPC /\ index \in 1..(MaxPosts + 1)
    /\ todo \subseteq Handle /\ current \in Handle \cup {NoHandle}
    /\ executing \subseteq Handle /\ connected \subseteq Handle
    /\ call \in [Caller -> {"none", "execute", "stop"}]
    /\ step \in [Caller -> {"none", "acquire", "append", "release", "check"} \cup Handle]
    /\ rest \in [Caller -> SUBSET Handle]
    /\ calls \in 0..MaxPosts /\ posted \in 0..MaxPosts
    /\ started \in Seq(1..MaxPosts) /\ Len(started) <= posted /\ runs \in 0..MaxRuns
    /\ exit \in {"none", "return", "raise"} /\ raised \in BOOLEAN /\ lost \in BOOLEAN

\* Every posted event is called at most once and in the order of the execute()
\* calls, and none disappears: the called ones and the waiting ones make up
\* everything posted (EventLoop.py:24-27, 71-75).
EventsOnceInOrder ==
    /\ started = [i \in 1..Len(started) |-> i]
    /\ \A i \in (Len(started) + 1)..posted : \E j \in 1..Len(events) : events[j] = i

\* The loop's thread is inside libndn with this handle.
Busy(h) == h = current /\ pc \in {"inside", "upcall", "timer"}

\* stop() does not take the connection from a handle libndn is busy with, when
\* only upcalls of ndn_run and events call it (EventLoop.py:89-94).
StopSparesBusy ==
    [][\A c \in Caller : stopFrom \subseteq {"upcall", "event"} /\ StopDisconnect(c)
          => ~Busy(step[c])]_vars

\* run() does not raise because of a stop() called by an upcall of ndn_run: only
\* a lost or missing connection or a raising event makes it (EventLoop.py:78-81).
UpcallStopIsQuiet ==
    stopFrom \subseteq {"upcall"} /\ exit = "raise" => lost \/ raised

\* The loop is between eventLock.acquire() and eventLock.release().
Turn == {"events", "event", "clear"}

\* c is inside execute(), past acquire().
Posts(c) == call[c] = "execute" /\ step[c] \in {"append", "release"}

\* An exception of an event has taken the loop past eventLock.release().
Leaked == eventLock = Loop /\ pc \notin Turn /\ ~Posts(Loop)

\* An event posts: its execute() is called between acquire() and release().
SelfPost == pc = "event" /\ call[Loop] = "execute"

\* The loop's thread waits for eventLock, which it holds itself.
WaitsForItself ==
    /\ eventLock = Loop
    /\ pc = "lock" \/ (call[Loop] = "execute" /\ step[Loop] = "acquire")

\* eventLock stays behind locked only if an event raised, and without that the
\* loop waits for itself only in an event that posts (EventLoop.py:25, 71-75).
LockLeaksOnlyByRaise ==
    /\ Leaked => raised
    /\ WaitsForItself => raised \/ SelfPost

\* When a run() that began with every face connected has returned, no connection
\* is left but the one whose upcall called stop() (EventLoop.py:91-94).
StopDisconnectsOthers ==
    exit = "return" /\ stopFrom \subseteq {"upcall"} /\ ~lost
        => \A h, k \in connected : h = k

\* An event has raised or posts: the loop may never get past its lock again.
Blocked == raised \/ SelfPost

\* A posted event is called, unless the loop ends or an event blocks it.
PostedEventsRun ==
    \A i \in 1..MaxPosts :
        (pc # "idle" /\ posted >= i) ~> (Len(started) >= i \/ pc = "idle" \/ Blocked)

\* Once running is reset, run() ends, unless an event blocks it (EventLoop.py:67-90).
StopEndsLoop == (pc # "idle" /\ ~running) ~> (pc = "idle" \/ Blocked)

\* execute() returns, unless an event blocks the loop (EventLoop.py:24-27).
ExecuteReturns ==
    \A c \in Caller : call[c] = "execute" ~> (call[c] = "none" \/ Blocked)

\* "disconnect only when nothing is running" (EventLoop.py:92): no ndn_run is in
\* progress on the handle that stop() disconnects.
DisconnectsOnlyIdle ==
    [][\A c \in Caller : StopDisconnect(c) => step[c] \notin executing]_vars

\* "Report only if this exception wasn't intentional due to disconnect()"
\* (EventLoop.py:80): after a stop() run() returns.
StopIsNotReported == exit = "raise" => running \/ lost \/ raised

-----------------------------------------------------------------------------
(* The abstract view of execute() and of the loop over self.events *)

\* eventLock will never be released.
Stuck == Leaked \/ SelfPost

\* How many of the events in the list have been called.
Gone == CASE pc = "event" \/ Leaked     -> index
          [] pc \in {"events", "clear"} -> index - 1
          [] OTHER                      -> 0

Queue == INSTANCE EventQueue WITH waiting <- SubSeq(events, Gone + 1, Len(events)),
                                  called  <- started,
                                  stuck   <- Stuck

\* Whatever threads, upcalls and timers post while the loop runs, stops and is
\* run again, the events form one queue, called in order and each once, until an
\* event raises or posts; after that the queue never moves again: execute() waits
\* forever, whoever calls it, and no event is called (EventLoop.py:24-27, 71-75).
ImplementsQueue == Queue!Spec
=============================================================================
