-------------------------- MODULE EventLoopProofs --------------------------
(***************************************************************************)
(* The event loop keeps its promises for every set of faces and threads and *)
(* every way of calling stop(): the proofs of the safety properties of      *)
(* module EventLoop, from one inductive invariant.                          *)
(***************************************************************************)
EXTENDS EventLoop, FiniteSetTheorems, SequenceTheorems, TLAPS

(***************************************************************************)
(* The inductive invariant.                                                 *)
(***************************************************************************)

\* The calls of execute() that have not appended their event yet.
Posting == {c \in Caller : call[c] = "execute" /\ step[c] \in {"acquire", "append"}}

\* Where a call can be, and from where it can have been made: the code of the
\* loop's thread makes calls only in an upcall or an event, and stays there
\* until they return.  An execute() of an event does not get past acquire().
CallsOK == \A c \in Caller :
    /\ call[c] = "execute" => /\ step[c] \in {"acquire", "append", "release"}
                              /\ c = Loop => pc \in {"upcall", "timer", "event"}
                              /\ c = Loop /\ pc = "event" => step[c] = "acquire"
    /\ call[c] = "stop" => /\ step[c] = "check" \/ step[c] \in rest[c]
                           /\ (IF c = Loop THEN pc ELSE "thread") \in stopFrom

\* The lock is held by a call past acquire() or by the loop in its turn; else
\* it is free, or an event that raised has left it locked.
LockOK ==
    /\ \A c \in Caller : Posts(c) => eventLock = c
    /\ pc \in Turn => eventLock = Loop
    /\ Leaked => raised

\* The list holds the last events posted; those called are the first ones, up to
\* the position of the loop in the list.
EventsOK ==
    /\ \A i \in 1..Len(started) : started[i] = i
    /\ \A j \in 1..Len(events) : events[j] = posted - Len(events) + j
    /\ Len(events) <= posted /\ index <= posted + 1
    /\ Gone <= Len(events) /\ Len(started) = posted - Len(events) + Gone
    /\ pc = "clear" => Gone = Len(events)

\* Every call of execute() posts one event.
CountOK == IsFiniteSet(Posting) /\ calls = posted + Cardinality(Posting)

\* The faces with a run_state node; the loop's own stop() has asked for it.
RunsOK ==
    /\ pc \in {"inside", "upcall", "timer"} => current \in Handle
    /\ executing = IF pc \in {"inside", "upcall"} THEN {current} ELSE {}
    /\ call[Loop] = "stop" /\ step[Loop] # "check" => step[Loop] \notin executing

\* When only upcalls of ndn_run call stop(): a connection goes only together
\* with running, and the loop does not come back to its lock after that.
QuietOK == stopFrom \subseteq {"upcall"} =>
    /\ call[Loop] = "stop" => ~running
    /\ ~running => pc \in {"upcall", "inside", "ready", "test", "idle"}
    /\ running /\ ~lost => connected = Handle
    /\ exit = "raise" => lost \/ raised

AtMostOne(S) == \A h, k \in S : h = k

\* The loop is in its first stop() of this run: it still has to come to
\* connected faces only, and all others but the one being run are gone.
Stopping == /\ call[Loop] = "stop"
            /\ rest[Loop] \subseteq connected
            /\ connected \subseteq rest[Loop] \cup executing

DisconnectOK == stopFrom \subseteq {"upcall"} /\ ~lost =>
    /\ ~running /\ pc # "idle" => AtMostOne(connected) \/ Stopping
    /\ exit = "return" => AtMostOne(connected)

IInv == /\ TypeOK /\ CallsOK /\ LockOK /\ EventsOK /\ CountOK /\ RunsOK
        /\ QuietOK /\ DisconnectOK

-----------------------------------------------------------------------------
(***************************************************************************)
(* Every step keeps the invariant: one lemma for each action, and in it one *)
(* step for each conjunct.                                                  *)
(***************************************************************************)

LEMMA ExecuteCallKeeps ==
    ASSUME IInv, NEW c \in Caller, ExecuteCall(c) PROVE IInv'
<1>1. TypeOK'
  BY EventLoopAssumption DEF IInv, TypeOK, ExecuteCall, loopVars
<1>2. CallsOK'
  BY DEF IInv, CallsOK, Place, LoopPC, ExecuteCall, MayCall, loopVars, TypeOK
<1>3. LockOK'
  BY DEF IInv, LockOK, Leaked, Posts, ExecuteCall, MayCall, loopVars, TypeOK
<1>4. EventsOK'
  <2>1. Posts(Loop)' <=> Posts(Loop)
    BY DEF IInv, TypeOK, ExecuteCall, MayCall, Posts
  <2>2. Gone' = Gone
    BY <2>1 DEF ExecuteCall, loopVars, Gone, Leaked
  <2>3. /\ events' = events /\ posted' = posted /\ started' = started
        /\ index' = index /\ pc' = pc
    BY DEF ExecuteCall, loopVars
  <2>4. QED
    BY <2>2, <2>3 DEF IInv, EventsOK
<1>5. CountOK'
  <2>1. Posting' = Posting \cup {c} /\ c \notin Posting
    BY DEF IInv, Posting, ExecuteCall, MayCall, loopVars, TypeOK
  <2>2. IsFiniteSet(Posting) /\ Cardinality(Posting) \in Nat
    BY FS_CardinalityType DEF IInv, CountOK
  <2>3. IsFiniteSet(Posting') /\ Cardinality(Posting') = Cardinality(Posting) + 1
    BY <2>1, <2>2, FS_AddElement
  <2>4. calls = posted + Cardinality(Posting) /\ calls \in Nat /\ posted \in Nat
    BY DEF IInv, CountOK, TypeOK
  <2>5. calls' = calls + 1 /\ posted' = posted
    BY DEF ExecuteCall
  <2>6. QED
    BY <2>2, <2>3, <2>4, <2>5 DEF CountOK
<1>6. RunsOK'
  BY DEF IInv, RunsOK, ExecuteCall, MayCall, loopVars
<1>7. QuietOK'
  BY DEF IInv, QuietOK, ExecuteCall, loopVars
<1>8. DisconnectOK'
  BY DEF IInv, DisconnectOK, Stopping, ExecuteCall, MayCall, loopVars
<1>9. QED
  BY <1>1, <1>2, <1>3, <1>4, <1>5, <1>6, <1>7, <1>8 DEF IInv

LEMMA ExecuteAcquireKeeps ==
    ASSUME IInv, NEW c \in Caller, ExecuteAcquire(c) PROVE IInv'
<1>1. TypeOK'
  BY DEF IInv, TypeOK, ExecuteAcquire, loopVars, ghostVars
<1>2. CallsOK'
  <2>1. ~(c = Loop /\ pc = "event")
    BY EventLoopAssumption DEF IInv, LockOK, Turn, ExecuteAcquire, Caller
  <2>2. QED
    BY <2>1 DEF IInv, TypeOK, CallsOK, ExecuteAcquire, loopVars
<1>3. LockOK'
  BY EventLoopAssumption DEF IInv, LockOK, Leaked, Posts, ExecuteAcquire, loopVars, TypeOK, Caller
<1>4. EventsOK'
  BY EventLoopAssumption DEF IInv, EventsOK, Gone, Leaked, Posts, ExecuteAcquire, loopVars, ghostVars, TypeOK, Caller
<1>5. CountOK'
  BY DEF IInv, CountOK, Posting, ExecuteAcquire, ghostVars
<1>6. RunsOK'
  BY DEF IInv, RunsOK, ExecuteAcquire, loopVars
<1>7. QuietOK'
  BY DEF IInv, QuietOK, ExecuteAcquire, loopVars, ghostVars
<1>8. DisconnectOK'
  BY DEF IInv, DisconnectOK, Stopping, ExecuteAcquire, loopVars, ghostVars
<1>9. QED
  BY <1>1, <1>2, <1>3, <1>4, <1>5, <1>6, <1>7, <1>8 DEF IInv

LEMMA ExecuteAppendKeeps ==
    ASSUME IInv, NEW c \in Caller, ExecuteAppend(c) PROVE IInv'
<1> DEFINE n == Len(events)
<1>a. /\ posted \in Nat /\ calls \in 0..MaxPosts /\ MaxPosts \in Nat
      /\ events \in Seq(1..MaxPosts) /\ n \in Nat
  BY EventLoopAssumption, LenProperties DEF IInv, TypeOK
<1>b. /\ IsFiniteSet(Posting) /\ Cardinality(Posting) \in Nat
      /\ calls = posted + Cardinality(Posting)
  BY FS_CardinalityType DEF IInv, CountOK
<1>c. c \in Posting
  BY DEF ExecuteAppend, Posting
<1>d. Posting' = Posting \ {c}
  BY DEF IInv, Posting, TypeOK, ExecuteAppend, loopVars
<1>e. IsFiniteSet(Posting') /\ Cardinality(Posting') = Cardinality(Posting) - 1
  BY <1>b, <1>c, <1>d, FS_RemoveElement
<1>f. Cardinality(Posting') \in Nat
  BY <1>e, FS_CardinalityType
<1>g. posted + 1 \in 1..MaxPosts
  BY <1>a, <1>b, <1>e, <1>f
<1>h. /\ events' \in Seq(1..MaxPosts)
      /\ Len(events') = n + 1
      /\ \A j \in 1..n : events'[j] = events[j]
      /\ events'[n + 1] = posted + 1
  BY <1>a, <1>g, AppendProperties DEF ExecuteAppend
<1> HIDE DEF n
<1>1. TypeOK'
  BY <1>a, <1>g, <1>h DEF IInv, TypeOK, ExecuteAppend, loopVars
<1>2. CallsOK'
  BY DEF IInv, CallsOK, ExecuteAppend, loopVars
<1>3. LockOK'
  BY DEF IInv, LockOK, Leaked, Posts, ExecuteAppend, loopVars
<1>4. EventsOK'
  <2>1. pc \notin Turn /\ ~Leaked
    BY DEF IInv, LockOK, CallsOK, Leaked, Posts, Turn, ExecuteAppend
  <2>2. pc' \notin Turn /\ ~Leaked'
    BY <2>1 DEF Leaked, Posts, Turn, ExecuteAppend, loopVars, IInv, TypeOK
  <2>3. Gone = 0 /\ Gone' = 0
    BY <2>1, <2>2 DEF Gone, Turn
  <2>4. /\ n <= posted /\ index <= posted + 1 /\ index \in Nat
        /\ Len(started) = posted - n
        /\ \A i \in 1..Len(started) : started[i] = i
        /\ \A j \in 1..n : events[j] = posted - n + j
    BY <1>a, <2>3 DEF IInv, EventsOK, TypeOK, n
  <2>5. \A j \in 1..(n + 1) : events'[j] = (posted + 1) - (n + 1) + j
    BY <1>a, <1>h, <2>4
  <2>6. index' = index /\ started' = started /\ posted' = posted + 1
    BY DEF ExecuteAppend, loopVars
  <2>7. QED
    BY <1>a, <1>h, <2>2, <2>3, <2>4, <2>5, <2>6 DEF EventsOK, Turn
<1>5. CountOK'
  <2>1. calls' = calls /\ posted' = posted + 1
    BY DEF ExecuteAppend
  <2>2. QED
    BY <1>a, <1>b, <1>e, <1>f, <2>1 DEF CountOK
<1>6. RunsOK'
  BY DEF IInv, RunsOK, ExecuteAppend, loopVars
<1>7. QuietOK'
  BY DEF IInv, QuietOK, ExecuteAppend, loopVars
<1>8. DisconnectOK'
  BY DEF IInv, DisconnectOK, Stopping, ExecuteAppend, loopVars
<1>9. QED
  BY <1>1, <1>2, <1>3, <1>4, <1>5, <1>6, <1>7, <1>8 DEF IInv

LEMMA ExecuteReleaseKeeps ==
    ASSUME IInv, NEW c \in Caller, ExecuteRelease(c) PROVE IInv'
<1>1. TypeOK'
  BY DEF IInv, TypeOK, ExecuteRelease, loopVars, ghostVars
<1>2. CallsOK'
  BY DEF IInv, CallsOK, ExecuteRelease, loopVars, TypeOK
<1>3. LockOK'
  <2>1. eventLock = c
    BY DEF IInv, LockOK, Posts, ExecuteRelease
  <2>2. pc \notin Turn
    BY <2>1 DEF IInv, LockOK, CallsOK, Turn, ExecuteRelease
  <2>3. \A d \in Caller : ~Posts(d)'
    BY <2>1 DEF IInv, LockOK, Posts, TypeOK, ExecuteRelease
  <2>4. eventLock' # Loop /\ pc' = pc
    BY EventLoopAssumption DEF ExecuteRelease, loopVars, ghostVars, Caller
  <2>5. QED
    BY <2>2, <2>3, <2>4 DEF LockOK, Leaked, Turn
<1>4. EventsOK'
  <2>1. pc \notin Turn /\ ~Leaked
    BY DEF IInv, LockOK, CallsOK, Leaked, Posts, Turn, ExecuteRelease
  <2>2. pc' = pc /\ ~Leaked'
    BY EventLoopAssumption DEF Leaked, Caller, ExecuteRelease, loopVars, ghostVars
  <2>3. Gone = 0 /\ Gone' = 0
    BY <2>1, <2>2 DEF Gone, Turn
  <2>4. QED
    BY <2>1, <2>2, <2>3 DEF IInv, EventsOK, Turn, ExecuteRelease, loopVars, ghostVars
<1>5. CountOK'
  BY DEF IInv, CountOK, Posting, ExecuteRelease, ghostVars
<1>6. RunsOK'
  BY DEF IInv, RunsOK, ExecuteRelease, loopVars
<1>7. QuietOK'
  BY DEF IInv, QuietOK, ExecuteRelease, loopVars, ghostVars
<1>8. DisconnectOK'
  BY DEF IInv, DisconnectOK, Stopping, ExecuteRelease, loopVars, ghostVars
<1>9. QED
  BY <1>1, <1>2, <1>3, <1>4, <1>5, <1>6, <1>7, <1>8 DEF IInv

LEMMA StopCallKeeps ==
    ASSUME IInv, NEW c \in Caller, StopCall(c) PROVE IInv'
<1>1. TypeOK'
  BY DEF IInv, TypeOK, StopCall, ghostVars
<1>2. CallsOK'
  BY DEF IInv, CallsOK, StopCall, MayCall, TypeOK
<1>3. LockOK'
  BY DEF IInv, LockOK, Leaked, Posts, StopCall, MayCall, ghostVars
<1>4. EventsOK'
  BY DEF IInv, EventsOK, Gone, Leaked, Posts, StopCall, MayCall, ghostVars
<1>5. CountOK'
  BY DEF IInv, CountOK, Posting, StopCall, MayCall, ghostVars
<1>6. RunsOK'
  BY DEF IInv, RunsOK, StopCall, TypeOK
<1>7. QuietOK'
  BY DEF IInv, QuietOK, StopCall, MayCall, ghostVars
<1>8. DisconnectOK'
  <2> SUFFICES ASSUME stopFrom \subseteq {"upcall"}, ~lost
               PROVE  /\ pc # "idle" => AtMostOne(connected) \/ Stopping'
                      /\ exit = "return" => AtMostOne(connected)
    BY DEF DisconnectOK, AtMostOne, StopCall, MayCall, ghostVars
  <2>1. c = Loop /\ call[Loop] = "none" /\ call'[Loop] = "stop" /\ rest'[Loop] = Handle
    BY EventLoopAssumption DEF IInv, TypeOK, StopCall, MayCall, ghostVars
  <2>2. CASE running
    BY <2>1, <2>2 DEF IInv, QuietOK, TypeOK, Stopping, DisconnectOK, StopCall, MayCall, ghostVars
  <2>3. CASE ~running
    BY <2>1, <2>3 DEF IInv, DisconnectOK, Stopping
  <2>4. QED
    BY <2>2, <2>3
<1>9. QED
  BY <1>1, <1>2, <1>3, <1>4, <1>5, <1>6, <1>7, <1>8 DEF IInv

LEMMA StopCheckKeeps ==
    ASSUME IInv, NEW c \in Caller, StopCheck(c) PROVE IInv'
<1>1. TypeOK'
  <2>1. step' \in [Caller -> {"none", "acquire", "append", "release", "check"} \cup Handle]
    BY DEF IInv, TypeOK, StopCheck
  <2>2. rest' \in [Caller -> SUBSET Handle]
    BY DEF IInv, TypeOK, StopCheck
  <2>3. QED
    BY <2>1, <2>2 DEF IInv, TypeOK, StopCheck, loopVars, ghostVars
<1>2. CallsOK'
  BY DEF IInv, CallsOK, StopCheck, loopVars, TypeOK
<1>3. LockOK'
  BY DEF IInv, LockOK, Leaked, Posts, StopCheck, loopVars, ghostVars, TypeOK, Caller
<1>4. EventsOK'
  BY DEF IInv, EventsOK, Gone, Leaked, Posts, StopCheck, loopVars, ghostVars, TypeOK, Caller
<1>5. CountOK'
  BY DEF IInv, CountOK, Posting, StopCheck, ghostVars, TypeOK
<1>6. RunsOK'
  BY DEF IInv, RunsOK, StopCheck, loopVars, TypeOK, Caller
<1>7. QuietOK'
  BY DEF IInv, QuietOK, StopCheck, loopVars, ghostVars
<1>8. DisconnectOK'
  <2>1. CASE rest' = rest
    BY <2>1 DEF IInv, DisconnectOK, AtMostOne, Stopping, StopCheck, loopVars, ghostVars
  <2>2. ASSUME NEW h \in executing, rest' = [rest EXCEPT ![c] = @ \ {h}]
        PROVE  Stopping => Stopping'
    BY <2>2 DEF IInv, TypeOK, Stopping, StopCheck, loopVars, ghostVars
  <2>3. QED
    BY <2>1, <2>2 DEF IInv, DisconnectOK, AtMostOne, StopCheck, loopVars, ghostVars
<1>9. QED
  BY <1>1, <1>2, <1>3, <1>4, <1>5, <1>6, <1>7, <1>8 DEF IInv

LEMMA StopDisconnectKeeps ==
    ASSUME IInv, NEW c \in Caller, StopDisconnect(c) PROVE IInv'
<1>1. TypeOK'
  BY DEF IInv, TypeOK, StopDisconnect, loopVars, ghostVars
<1>2. CallsOK'
  BY DEF IInv, CallsOK, StopDisconnect, loopVars, TypeOK
<1>3. LockOK'
  BY DEF IInv, LockOK, Leaked, Posts, StopDisconnect, loopVars, ghostVars
<1>4. EventsOK'
  BY DEF IInv, EventsOK, Gone, Leaked, Posts, StopDisconnect, loopVars, ghostVars
<1>5. CountOK'
  BY DEF IInv, CountOK, Posting, StopDisconnect, ghostVars
<1>6. RunsOK'
  BY DEF IInv, RunsOK, StopDisconnect, loopVars
<1>7. QuietOK'
  <2>1. stopFrom \subseteq {"upcall"} => c = Loop
    BY DEF IInv, CallsOK, StopDisconnect
  <2>2. QED
    BY <2>1 DEF IInv, QuietOK, StopDisconnect, loopVars, ghostVars
<1>8. DisconnectOK'
  <2>1. stopFrom \subseteq {"upcall"} => c = Loop
    BY DEF IInv, CallsOK, StopDisconnect
  <2>2. c = Loop /\ Stopping => Stopping'
    BY DEF IInv, TypeOK, Stopping, StopDisconnect, loopVars, ghostVars
  <2>3. AtMostOne(connected) => AtMostOne(connected')
    BY DEF AtMostOne, StopDisconnect
  <2>4. QED
    BY <2>1, <2>2, <2>3 DEF IInv, DisconnectOK, StopDisconnect, loopVars, ghostVars
<1>9. QED
  BY <1>1, <1>2, <1>3, <1>4, <1>5, <1>6, <1>7, <1>8 DEF IInv

LEMMA StopReturnKeeps ==
    ASSUME IInv, NEW c \in Caller, StopReturn(c) PROVE IInv'
<1>1. TypeOK'
  BY DEF IInv, TypeOK, StopReturn, loopVars, ghostVars
<1>2. CallsOK'
  BY DEF IInv, CallsOK, StopReturn, loopVars, TypeOK
<1>3. LockOK'
  BY DEF IInv, LockOK, Leaked, Posts, StopReturn, loopVars, ghostVars
<1>4. EventsOK'
  BY DEF IInv, EventsOK, Gone, Leaked, Posts, StopReturn, loopVars, ghostVars
<1>5. CountOK'
  BY DEF IInv, CountOK, Posting, StopReturn, ghostVars
<1>6. RunsOK'
  BY DEF IInv, RunsOK, StopReturn, loopVars, TypeOK
<1>7. QuietOK'
  BY DEF IInv, QuietOK, StopReturn, loopVars, ghostVars
<1>8. DisconnectOK'
  <2>1. stopFrom \subseteq {"upcall"} => c = Loop /\ pc = "upcall"
    BY DEF IInv, CallsOK, StopReturn
  <2>2. c = Loop /\ pc = "upcall" /\ Stopping => AtMostOne(connected)
    BY DEF IInv, RunsOK, Stopping, AtMostOne, StopReturn
  <2>3. QED
    BY <2>1, <2>2 DEF IInv, DisconnectOK, StopReturn, loopVars, ghostVars
<1>9. QED
  BY <1>1, <1>2, <1>3, <1>4, <1>5, <1>6, <1>7, <1>8 DEF IInv

LEMMA StopRaiseKeeps ==
    ASSUME IInv, NEW c \in Caller, StopRaise(c) PROVE IInv'
<1>1. TypeOK'
  BY DEF IInv, TypeOK, LoopPC, StopRaise
<1>2. CallsOK'
  BY DEF IInv, CallsOK, StopRaise, TypeOK
<1>3. LockOK'
  BY DEF IInv, LockOK, Leaked, Posts, Turn, StopRaise
<1>4. EventsOK'
  <2>1. CASE c = Loop /\ pc = "event"
    <3>1. pc' = "test" /\ Leaked' /\ Gone = index
      BY <2>1 DEF IInv, LockOK, TypeOK, Gone, Leaked, Posts, Turn, StopRaise
    <3>2. Gone' = index'
      BY <3>1 DEF Gone
    <3>3. QED
      BY <3>1, <3>2 DEF IInv, EventsOK, StopRaise
  <2>2. CASE ~(c = Loop /\ pc = "event")
    <3>1. pc' = pc /\ (Leaked' <=> Leaked)
      BY <2>2 DEF IInv, TypeOK, Leaked, Posts, StopRaise
    <3>2. Gone' = Gone
      BY <3>1 DEF Gone, StopRaise
    <3>3. QED
      BY <3>1, <3>2 DEF IInv, EventsOK, StopRaise
  <2>3. QED
    BY <2>1, <2>2
<1>5. CountOK'
  BY DEF IInv, CountOK, Posting, StopRaise
<1>6. RunsOK'
  BY DEF IInv, RunsOK, StopRaise, TypeOK
<1>7. QuietOK'
  BY DEF IInv, QuietOK, StopRaise
<1>8. DisconnectOK'
  <2>1. step[c] \in rest[c]
    BY EventLoopAssumption DEF IInv, CallsOK, StopRaise
  <2>2. stopFrom \subseteq {"upcall"} => c = Loop /\ pc = "upcall"
    BY DEF IInv, CallsOK, StopRaise
  <2>3. c = Loop => ~Stopping
    BY <2>1 DEF Stopping, StopRaise
  <2>4. QED
    BY <2>2, <2>3 DEF IInv, DisconnectOK, StopRaise
<1>9. QED
  BY <1>1, <1>2, <1>3, <1>4, <1>5, <1>6, <1>7, <1>8 DEF IInv

LEMMA ReconnectKeeps ==
    ASSUME IInv, NEW h \in Handle, Reconnect(h) PROVE IInv'
<1>1. TypeOK'
  BY DEF IInv, TypeOK, Reconnect, loopVars, callVars
<1>2. CallsOK'
  BY DEF IInv, CallsOK, Reconnect, loopVars, callVars
<1>3. LockOK'
  BY DEF IInv, LockOK, Leaked, Posts, Reconnect, loopVars, callVars
<1>4. EventsOK'
  BY DEF IInv, EventsOK, Gone, Leaked, Posts, Reconnect, loopVars, callVars
<1>5. CountOK'
  BY DEF IInv, CountOK, Posting, Reconnect, callVars
<1>6. RunsOK'
  BY DEF IInv, RunsOK, Reconnect, loopVars
<1>7. QuietOK'
  BY DEF IInv, QuietOK, Reconnect, loopVars, callVars
<1>8. DisconnectOK'
  BY DEF IInv, DisconnectOK, Reconnect, loopVars
<1>9. QED
  BY <1>1, <1>2, <1>3, <1>4, <1>5, <1>6, <1>7, <1>8 DEF IInv

LEMMA StartKeeps ==
    ASSUME IInv, Start PROVE IInv'
<1>1. TypeOK'
  <2>1. runs' \in 0..MaxRuns
    BY EventLoopAssumption DEF IInv, TypeOK, Start
  <2>2. QED
    BY <2>1 DEF IInv, TypeOK, LoopPC, Start, callVars
<1>2. CallsOK'
  BY DEF IInv, CallsOK, Place, Start, callVars, TypeOK
<1>3. LockOK'
  BY DEF IInv, LockOK, Leaked, Posts, Turn, Start, callVars
<1>4. EventsOK'
  BY DEF IInv, EventsOK, Gone, Leaked, Posts, Turn, Start, callVars
<1>5. CountOK'
  BY DEF IInv, CountOK, Posting, Start, callVars
<1>6. RunsOK'
  BY DEF IInv, RunsOK, Start
<1>7. QuietOK'
  BY DEF IInv, QuietOK, CallsOK, Caller, Start, callVars
<1>8. DisconnectOK'
  BY DEF IInv, DisconnectOK, Start
<1>9. QED
  BY <1>1, <1>2, <1>3, <1>4, <1>5, <1>6, <1>7, <1>8 DEF IInv

LEMMA TestRunningKeeps ==
    ASSUME IInv, TestRunning PROVE IInv'
<1>1. TypeOK'
  BY DEF IInv, TypeOK, LoopPC, TestRunning, callVars
<1>2. CallsOK'
  BY DEF IInv, CallsOK, Place, TestRunning, callVars, TypeOK
<1>3. LockOK'
  BY DEF IInv, LockOK, Leaked, Posts, Turn, TestRunning, callVars
<1>4. EventsOK'
  BY DEF IInv, EventsOK, Gone, Leaked, Posts, Turn, TestRunning, callVars
<1>5. CountOK'
  BY DEF IInv, CountOK, Posting, TestRunning, callVars
<1>6. RunsOK'
  BY DEF IInv, RunsOK, TestRunning
<1>7. QuietOK'
  BY DEF IInv, QuietOK, TestRunning, callVars
<1>8. DisconnectOK'
  BY DEF IInv, DisconnectOK, CallsOK, Stopping, Caller, TestRunning, callVars
<1>9. QED
  BY <1>1, <1>2, <1>3, <1>4, <1>5, <1>6, <1>7, <1>8 DEF IInv

LEMMA LoopAcquireKeeps ==
    ASSUME IInv, LoopAcquire PROVE IInv'
<1>1. TypeOK'
  BY EventLoopAssumption DEF IInv, TypeOK, LoopPC, LoopAcquire, callVars, ghostVars, Caller
<1>2. CallsOK'
  BY DEF IInv, CallsOK, Place, LoopAcquire, callVars, TypeOK
<1>3. LockOK'
  BY EventLoopAssumption DEF IInv, LockOK, Leaked, Posts, Turn, LoopAcquire, callVars
<1>4. EventsOK'
  BY EventLoopAssumption DEF IInv, EventsOK, Gone, Leaked, LoopAcquire, ghostVars, TypeOK, Caller
<1>5. CountOK'
  BY DEF IInv, CountOK, Posting, LoopAcquire, callVars, ghostVars
<1>6. RunsOK'
  BY DEF IInv, RunsOK, LoopAcquire
<1>7. QuietOK'
  BY DEF IInv, QuietOK, LoopAcquire, callVars, ghostVars
<1>8. DisconnectOK'
  BY DEF IInv, DisconnectOK, Stopping, LoopAcquire, callVars, ghostVars
<1>9. QED
  BY <1>1, <1>2, <1>3, <1>4, <1>5, <1>6, <1>7, <1>8 DEF IInv

LEMMA EventCallKeeps ==
    ASSUME IInv, EventCall PROVE IInv'
<1>a. Gone = index - 1
  BY DEF IInv, LockOK, Gone, Leaked, Turn, EventCall
<1>b. /\ events \in Seq(1..MaxPosts) /\ Len(events) \in Nat
      /\ started \in Seq(1..MaxPosts) /\ Len(started) \in Nat
      /\ index \in 1..Len(events) /\ posted \in Nat
  BY LenProperties DEF IInv, TypeOK, EventCall
<1>c. /\ Len(started) = posted - Len(events) + index - 1
      /\ Len(events) <= posted
      /\ events[index] = posted - Len(events) + index
      /\ \A i \in 1..Len(started) : started[i] = i
  BY <1>a, <1>b DEF IInv, EventsOK, EventCall
<1>d. events[index] \in 1..MaxPosts
  BY <1>b, ElementOfSeq
<1>e. /\ started' \in Seq(1..MaxPosts)
      /\ Len(started') = Len(started) + 1
      /\ \A i \in 1..Len(started) : started'[i] = started[i]
      /\ started'[Len(started) + 1] = events[index]
  BY <1>b, <1>d, AppendProperties DEF EventCall
<1>1. TypeOK'
  BY <1>b, <1>c, <1>e DEF IInv, TypeOK, LoopPC, EventCall, callVars
<1>2. CallsOK'
  BY DEF IInv, CallsOK, Place, EventCall, callVars, TypeOK
<1>3. LockOK'
  BY DEF IInv, LockOK, Leaked, Posts, Turn, EventCall, callVars
<1>4. EventsOK'
  <2>1. \A i \in 1..Len(started') : started'[i] = i
    BY <1>b, <1>c, <1>e
  <2>2. /\ pc' = "event" /\ events' = events /\ index' = index /\ posted' = posted
    BY DEF EventCall, callVars
  <2>3. Gone' = index
    BY <2>2 DEF Gone
  <2>4. QED
    BY <1>b, <1>c, <1>e, <2>1, <2>2, <2>3 DEF IInv, EventsOK
<1>5. CountOK'
  BY DEF IInv, CountOK, Posting, EventCall, callVars
<1>6. RunsOK'
  BY DEF IInv, RunsOK, EventCall
<1>7. QuietOK'
  BY DEF IInv, QuietOK, EventCall, callVars
<1>8. DisconnectOK'
  BY DEF IInv, DisconnectOK, Stopping, EventCall, callVars
<1>9. QED
  BY <1>1, <1>2, <1>3, <1>4, <1>5, <1>6, <1>7, <1>8 DEF IInv

LEMMA EventReturnKeeps ==
    ASSUME IInv, EventReturn PROVE IInv'
<1>1. TypeOK'
  <2>1. /\ index <= Len(events) /\ Len(events) <= posted
        /\ Len(events) \in Nat /\ posted \in 0..MaxPosts /\ index \in 1..(MaxPosts + 1)
    BY LenProperties DEF IInv, TypeOK, EventsOK, Gone, EventReturn
  <2>2. index' \in 1..(MaxPosts + 1)
    BY <2>1, EventLoopAssumption DEF EventReturn
  <2>3. QED
    BY <2>2 DEF IInv, TypeOK, LoopPC, EventReturn, callVars, ghostVars
<1>2. CallsOK'
  BY DEF IInv, CallsOK, EventReturn, callVars
<1>3. LockOK'
  BY DEF IInv, LockOK, Leaked, Posts, Turn, EventReturn, callVars
<1>4. EventsOK'
  <2>1. Gone = index /\ index \in Nat
    BY DEF IInv, TypeOK, Gone, EventReturn
  <2>2. pc' = "events" /\ index' = index + 1
    BY DEF EventReturn
  <2>3. ~Leaked' /\ Gone' = Gone
    BY <2>1, <2>2 DEF Gone, Leaked, Turn
  <2>4. index' <= posted + 1
    BY <2>1, <2>2, LenProperties DEF IInv, TypeOK, EventsOK
  <2>5. QED
    BY <2>2, <2>3, <2>4 DEF IInv, EventsOK, EventReturn, callVars, ghostVars
<1>5. CountOK'
  BY DEF IInv, CountOK, Posting, EventReturn, callVars, ghostVars
<1>6. RunsOK'
  BY DEF IInv, RunsOK, EventReturn
<1>7. QuietOK'
  BY DEF IInv, QuietOK, EventReturn, callVars, ghostVars
<1>8. DisconnectOK'
  BY DEF IInv, DisconnectOK, Stopping, EventReturn, ghostVars
<1>9. QED
  BY <1>1, <1>2, <1>3, <1>4, <1>5, <1>6, <1>7, <1>8 DEF IInv

LEMMA EventRaiseKeeps ==
    ASSUME IInv, EventRaise PROVE IInv'
<1>1. TypeOK'
  BY DEF IInv, TypeOK, LoopPC, EventRaise, callVars
<1>2. CallsOK'
  BY DEF IInv, CallsOK, EventRaise, callVars
<1>3. LockOK'
  BY DEF IInv, LockOK, Leaked, Posts, Turn, EventRaise, callVars
<1>4. EventsOK'
  <2>1. Gone = index /\ pc' \in {"test", "idle"} /\ Leaked'
    BY DEF IInv, LockOK, Gone, Leaked, Posts, Turn, EventRaise, callVars
  <2>2. Gone' = index'
    BY <2>1 DEF Gone
  <2>3. QED
    BY <2>1, <2>2 DEF IInv, EventsOK, EventRaise, callVars
<1>5. CountOK'
  BY DEF IInv, CountOK, Posting, EventRaise, callVars
<1>6. RunsOK'
  BY DEF IInv, RunsOK, EventRaise
<1>7. QuietOK'
  BY DEF IInv, QuietOK, EventRaise, callVars
<1>8. DisconnectOK'
  BY DEF IInv, DisconnectOK, Stopping, EventRaise
<1>9. QED
  BY <1>1, <1>2, <1>3, <1>4, <1>5, <1>6, <1>7, <1>8 DEF IInv

LEMMA EventsDoneKeeps ==
    ASSUME IInv, EventsDone PROVE IInv'
<1>1. TypeOK'
  BY DEF IInv, TypeOK, LoopPC, EventsDone, callVars, ghostVars
<1>2. CallsOK'
  BY DEF IInv, CallsOK, Place, EventsDone, callVars, TypeOK
<1>3. LockOK'
  BY DEF IInv, LockOK, Leaked, Posts, Turn, EventsDone, callVars
<1>4. EventsOK'
  <2>1. ~Leaked /\ ~Leaked' /\ pc' = "clear"
    BY DEF Leaked, Turn, EventsDone
  <2>2. Gone = index - 1 /\ Gone' = index - 1
    BY <2>1 DEF Gone, EventsDone
  <2>3. Gone = Len(events)
    <3>1. Len(events) \in Nat /\ index \in Nat
      BY LenProperties DEF IInv, TypeOK
    <3>2. QED
      BY <2>2, <3>1 DEF IInv, EventsOK, EventsDone
  <2>4. QED
    BY <2>2, <2>3 DEF IInv, EventsOK, EventsDone, callVars, ghostVars
<1>5. CountOK'
  BY DEF IInv, CountOK, Posting, EventsDone, callVars, ghostVars
<1>6. RunsOK'
  BY DEF IInv, RunsOK, EventsDone
<1>7. QuietOK'
  BY DEF IInv, QuietOK, EventsDone, callVars, ghostVars
<1>8. DisconnectOK'
  BY DEF IInv, DisconnectOK, Stopping, EventsDone, callVars, ghostVars
<1>9. QED
  BY <1>1, <1>2, <1>3, <1>4, <1>5, <1>6, <1>7, <1>8 DEF IInv

LEMMA ClearKeeps ==
    ASSUME IInv, Clear PROVE IInv'
<1>1. TypeOK'
  BY DEF IInv, TypeOK, LoopPC, Clear, callVars, ghostVars
<1>2. CallsOK'
  BY DEF IInv, CallsOK, Place, Clear, callVars, TypeOK
<1>3. LockOK'
  <2>1. \A d \in Caller : ~Posts(d)
    BY DEF IInv, LockOK, CallsOK, Posts, Turn, Caller, Clear
  <2>2. \A d \in Caller : ~Posts(d)'
    BY <2>1 DEF Posts, Clear, callVars, ghostVars
  <2>3. eventLock' # Loop /\ pc' = "schedule"
    BY EventLoopAssumption DEF Clear, Caller
  <2>4. QED
    BY <2>2, <2>3 DEF LockOK, Leaked, Turn
<1>4. EventsOK'
  <2>1. pc' = "schedule" /\ ~Leaked'
    BY EventLoopAssumption DEF Leaked, Caller, Clear
  <2>2. events' = <<>> /\ Len(events') = 0 /\ Gone' = 0
    BY <2>1, EmptySeq DEF Gone, Clear
  <2>3. /\ Len(events) \in Nat /\ Len(started) \in Nat /\ posted \in Nat
        /\ Len(started) = posted
    BY LenProperties DEF IInv, TypeOK, EventsOK, Clear
  <2>4. QED
    BY <2>1, <2>2, <2>3 DEF IInv, EventsOK, Clear, callVars, ghostVars
<1>5. CountOK'
  BY DEF IInv, CountOK, Posting, Clear, callVars, ghostVars
<1>6. RunsOK'
  BY DEF IInv, RunsOK, Clear
<1>7. QuietOK'
  BY DEF IInv, QuietOK, Clear, callVars, ghostVars
<1>8. DisconnectOK'
  BY DEF IInv, DisconnectOK, Stopping, Clear, callVars, ghostVars
<1>9. QED
  BY <1>1, <1>2, <1>3, <1>4, <1>5, <1>6, <1>7, <1>8 DEF IInv

LEMMA ProcessScheduledKeeps ==
    ASSUME IInv, ProcessScheduled PROVE IInv'
<1>1. TypeOK'
  BY DEF IInv, TypeOK, LoopPC, ProcessScheduled, callVars, ghostVars
<1>2. CallsOK'
  BY DEF IInv, CallsOK, Place, ProcessScheduled, callVars, TypeOK
<1>3. LockOK'
  BY DEF IInv, LockOK, Leaked, Posts, Turn, ProcessScheduled, callVars, ghostVars
<1>4. EventsOK'
  BY DEF IInv, EventsOK, Gone, Leaked, Posts, Turn, ProcessScheduled, callVars, ghostVars
<1>5. CountOK'
  BY DEF IInv, CountOK, Posting, ProcessScheduled, callVars, ghostVars
<1>6. RunsOK'
  BY DEF IInv, RunsOK, ProcessScheduled, TypeOK
<1>7. QuietOK'
  BY DEF IInv, QuietOK, ProcessScheduled, callVars, ghostVars
<1>8. DisconnectOK'
  BY DEF IInv, DisconnectOK, Stopping, ProcessScheduled, callVars, ghostVars
<1>9. QED
  BY <1>1, <1>2, <1>3, <1>4, <1>5, <1>6, <1>7, <1>8 DEF IInv

LEMMA ScheduledDoneKeeps ==
    ASSUME IInv, ScheduledDone PROVE IInv'
<1>1. TypeOK'
  BY DEF IInv, TypeOK, LoopPC, ScheduledDone, callVars, ghostVars
<1>2. CallsOK'
  BY DEF IInv, CallsOK, Place, ScheduledDone, callVars, TypeOK
<1>3. LockOK'
  BY DEF IInv, LockOK, Leaked, Posts, Turn, ScheduledDone, callVars, ghostVars
<1>4. EventsOK'
  BY DEF IInv, EventsOK, Gone, Leaked, Posts, Turn, ScheduledDone, callVars, ghostVars
<1>5. CountOK'
  BY DEF IInv, CountOK, Posting, ScheduledDone, callVars, ghostVars
<1>6. RunsOK'
  BY DEF IInv, RunsOK, ScheduledDone
<1>7. QuietOK'
  BY DEF IInv, QuietOK, ScheduledDone, callVars, ghostVars
<1>8. DisconnectOK'
  BY DEF IInv, DisconnectOK, Stopping, ScheduledDone, callVars, ghostVars
<1>9. QED
  BY <1>1, <1>2, <1>3, <1>4, <1>5, <1>6, <1>7, <1>8 DEF IInv

LEMMA SelectKeeps ==
    ASSUME IInv, Select PROVE IInv'
<1>1. TypeOK'
  BY DEF IInv, TypeOK, LoopPC, Select, callVars
<1>2. CallsOK'
  BY DEF IInv, CallsOK, Place, Select, callVars, TypeOK
<1>3. LockOK'
  BY DEF IInv, LockOK, Leaked, Posts, Turn, Select, callVars
<1>4. EventsOK'
  BY DEF IInv, EventsOK, Gone, Leaked, Posts, Turn, Select, callVars
<1>5. CountOK'
  BY DEF IInv, CountOK, Posting, Select, callVars
<1>6. RunsOK'
  BY DEF IInv, RunsOK, Select
<1>7. QuietOK'
  BY DEF IInv, QuietOK, Select, callVars
<1>8. DisconnectOK'
  BY DEF IInv, DisconnectOK, Stopping, Select, callVars
<1>9. QED
  BY <1>1, <1>2, <1>3, <1>4, <1>5, <1>6, <1>7, <1>8 DEF IInv

LEMMA RunHandleKeeps ==
    ASSUME IInv, RunHandle PROVE IInv'
<1>1. TypeOK'
  BY DEF IInv, TypeOK, LoopPC, RunHandle, callVars, ghostVars
<1>2. CallsOK'
  BY DEF IInv, CallsOK, Place, RunHandle, callVars, TypeOK
<1>3. LockOK'
  BY DEF IInv, LockOK, Leaked, Posts, Turn, RunHandle, callVars, ghostVars
<1>4. EventsOK'
  BY DEF IInv, EventsOK, Gone, Leaked, Posts, Turn, RunHandle, callVars, ghostVars
<1>5. CountOK'
  BY DEF IInv, CountOK, Posting, RunHandle, callVars, ghostVars
<1>6. RunsOK'
  <2>1. executing = {} /\ call[Loop] # "stop"
    BY DEF IInv, TypeOK, RunsOK, CallsOK, Caller, Place, RunHandle
  <2>2. pc' = "inside" /\ call' = call /\ current' \in Handle /\ executing' = {current'}
    BY <2>1 DEF IInv, TypeOK, RunHandle, callVars, ghostVars
  <2>3. QED
    BY <2>1, <2>2 DEF RunsOK
<1>7. QuietOK'
  BY DEF IInv, QuietOK, RunHandle, callVars, ghostVars
<1>8. DisconnectOK'
  BY DEF IInv, DisconnectOK, Stopping, RunHandle, callVars, ghostVars
<1>9. QED
  BY <1>1, <1>2, <1>3, <1>4, <1>5, <1>6, <1>7, <1>8 DEF IInv

LEMMA RunOnceDoneKeeps ==
    ASSUME IInv, RunOnceDone PROVE IInv'
<1>1. TypeOK'
  BY DEF IInv, TypeOK, LoopPC, RunOnceDone, callVars, ghostVars
<1>2. CallsOK'
  BY DEF IInv, CallsOK, Place, RunOnceDone, callVars, TypeOK
<1>3. LockOK'
  BY DEF IInv, LockOK, Leaked, Posts, Turn, RunOnceDone, callVars, ghostVars
<1>4. EventsOK'
  BY DEF IInv, EventsOK, Gone, Leaked, Posts, Turn, RunOnceDone, callVars, ghostVars
<1>5. CountOK'
  BY DEF IInv, CountOK, Posting, RunOnceDone, callVars, ghostVars
<1>6. RunsOK'
  BY DEF IInv, RunsOK, RunOnceDone
<1>7. QuietOK'
  BY DEF IInv, QuietOK, RunOnceDone, callVars, ghostVars
<1>8. DisconnectOK'
  BY DEF IInv, DisconnectOK, Stopping, RunOnceDone, callVars, ghostVars
<1>9. QED
  BY <1>1, <1>2, <1>3, <1>4, <1>5, <1>6, <1>7, <1>8 DEF IInv

LEMMA UpcallKeeps ==
    ASSUME IInv, Upcall PROVE IInv'
<1>1. TypeOK'
  BY DEF IInv, TypeOK, LoopPC, Upcall, callVars, ghostVars
<1>2. CallsOK'
  BY DEF IInv, CallsOK, Place, Upcall, callVars, TypeOK
<1>3. LockOK'
  BY DEF IInv, LockOK, Leaked, Posts, Turn, Upcall, callVars, ghostVars
<1>4. EventsOK'
  BY DEF IInv, EventsOK, Gone, Leaked, Posts, Turn, Upcall, callVars, ghostVars
<1>5. CountOK'
  BY DEF IInv, CountOK, Posting, Upcall, callVars, ghostVars
<1>6. RunsOK'
  BY DEF IInv, RunsOK, Upcall, callVars
<1>7. QuietOK'
  BY DEF IInv, QuietOK, Upcall, callVars, ghostVars
<1>8. DisconnectOK'
  BY DEF IInv, DisconnectOK, Stopping, Upcall, callVars, ghostVars
<1>9. QED
  BY <1>1, <1>2, <1>3, <1>4, <1>5, <1>6, <1>7, <1>8 DEF IInv

LEMMA UpcallReturnKeeps ==
    ASSUME IInv, UpcallReturn PROVE IInv'
<1>1. TypeOK'
  BY DEF IInv, TypeOK, LoopPC, UpcallReturn, callVars, ghostVars
<1>2. CallsOK'
  BY DEF IInv, CallsOK, UpcallReturn, callVars
<1>3. LockOK'
  BY DEF IInv, LockOK, Leaked, Posts, Turn, UpcallReturn, callVars, ghostVars
<1>4. EventsOK'
  BY DEF IInv, EventsOK, Gone, Leaked, Posts, Turn, UpcallReturn, callVars, ghostVars
<1>5. CountOK'
  BY DEF IInv, CountOK, Posting, UpcallReturn, callVars, ghostVars
<1>6. RunsOK'
  BY DEF IInv, RunsOK, UpcallReturn, callVars
<1>7. QuietOK'
  BY DEF IInv, QuietOK, UpcallReturn, callVars, ghostVars
<1>8. DisconnectOK'
  BY DEF IInv, DisconnectOK, Stopping, UpcallReturn, ghostVars
<1>9. QED
  BY <1>1, <1>2, <1>3, <1>4, <1>5, <1>6, <1>7, <1>8 DEF IInv

LEMMA RunReturnKeeps ==
    ASSUME IInv, RunReturn PROVE IInv'
<1>1. TypeOK'
  BY DEF IInv, TypeOK, LoopPC, RunReturn, callVars
<1>2. CallsOK'
  BY DEF IInv, CallsOK, Place, RunReturn, callVars, TypeOK
<1>3. LockOK'
  BY DEF IInv, LockOK, Leaked, Posts, Turn, RunReturn, callVars
<1>4. EventsOK'
  BY DEF IInv, EventsOK, Gone, Leaked, Posts, Turn, RunReturn, callVars
<1>5. CountOK'
  BY DEF IInv, CountOK, Posting, RunReturn, callVars
<1>6. RunsOK'
  BY DEF IInv, RunsOK, RunReturn
<1>7. QuietOK'
  BY DEF IInv, QuietOK, RunsOK, RunReturn, callVars
<1>8. DisconnectOK'
  BY DEF IInv, DisconnectOK, CallsOK, Stopping, AtMostOne, Caller, RunReturn, callVars
<1>9. QED
  BY <1>1, <1>2, <1>3, <1>4, <1>5, <1>6, <1>7, <1>8 DEF IInv

LEMMA ConnectionLostKeeps ==
    ASSUME IInv, ConnectionLost PROVE IInv'
<1>1. TypeOK'
  BY DEF IInv, TypeOK, ConnectionLost, loopVars, callVars
<1>2. CallsOK'
  BY DEF IInv, CallsOK, ConnectionLost, loopVars, callVars
<1>3. LockOK'
  BY DEF IInv, LockOK, Leaked, Posts, ConnectionLost, loopVars, callVars
<1>4. EventsOK'
  BY DEF IInv, EventsOK, Gone, Leaked, Posts, ConnectionLost, loopVars, callVars
<1>5. CountOK'
  BY DEF IInv, CountOK, Posting, ConnectionLost, callVars
<1>6. RunsOK'
  BY DEF IInv, RunsOK, ConnectionLost, loopVars, callVars
<1>7. QuietOK'
  BY DEF IInv, QuietOK, ConnectionLost, loopVars, callVars
<1>8. DisconnectOK'
  BY DEF IInv, DisconnectOK, ConnectionLost
<1>9. QED
  BY <1>1, <1>2, <1>3, <1>4, <1>5, <1>6, <1>7, <1>8 DEF IInv

\* A loop that was just made is at rest (EventLoop.py:17-22).
LEMMA InitIInv == Init => IInv
<1> SUFFICES ASSUME Init PROVE IInv
  OBVIOUS
<1>1. TypeOK
  <2>1. /\ stopFrom \in SUBSET Place /\ eventLock \in Caller \cup {Free}
        /\ events \in Seq(1..MaxPosts) /\ started \in Seq(1..MaxPosts)
        /\ Len(started) = 0 /\ index \in 1..(MaxPosts + 1)
        /\ calls \in 0..MaxPosts /\ posted \in 0..MaxPosts /\ runs \in 0..MaxRuns
    BY EventLoopAssumption, EmptySeq DEF Init
  <2>2. /\ call \in [Caller -> {"none", "execute", "stop"}]
        /\ step \in [Caller -> {"none", "acquire", "append", "release", "check"} \cup Handle]
        /\ rest \in [Caller -> SUBSET Handle]
    BY DEF Init
  <2>3. /\ running \in BOOLEAN /\ pc \in LoopPC /\ todo \subseteq Handle
        /\ current \in Handle \cup {NoHandle} /\ executing \subseteq Handle
        /\ connected \subseteq Handle
        /\ exit \in {"none", "return", "raise"} /\ raised \in BOOLEAN /\ lost \in BOOLEAN
    BY DEF Init, LoopPC
  <2>4. Len(started) <= posted
    BY <2>1
  <2>5. QED
    BY <2>1, <2>2, <2>3, <2>4 DEF TypeOK
<1>2. CallsOK /\ RunsOK /\ QuietOK /\ DisconnectOK
  BY DEF Init, CallsOK, RunsOK, QuietOK, DisconnectOK, Caller
<1>3. LockOK /\ ~Leaked
  BY EventLoopAssumption DEF Init, LockOK, Leaked, Posts, Turn, Caller
<1>4. EventsOK
  BY <1>3, EmptySeq DEF Init, EventsOK, Gone
<1>5. CountOK
  <2>1. Posting = {}
    BY DEF Init, Posting
  <2>2. QED
    BY <2>1, FS_EmptySet DEF Init, CountOK
<1>6. QED
  BY <1>1, <1>2, <1>3, <1>4, <1>5 DEF IInv

LEMMA StutterKeeps == IInv /\ UNCHANGED vars => IInv'
<1> SUFFICES ASSUME IInv, UNCHANGED vars PROVE IInv'
  OBVIOUS
<1> USE DEF vars, loopVars, callVars, ghostVars
<1>1. TypeOK' /\ CallsOK' /\ RunsOK' /\ QuietOK'
  BY DEF IInv, TypeOK, CallsOK, RunsOK, QuietOK
<1>2. LockOK'
  BY DEF IInv, LockOK, Leaked, Posts
<1>3. EventsOK'
  BY DEF IInv, EventsOK, Gone, Leaked, Posts
<1>4. CountOK'
  BY DEF IInv, CountOK, Posting
<1>5. DisconnectOK'
  BY DEF IInv, DisconnectOK, AtMostOne, Stopping
<1>6. QED
  BY <1>1, <1>2, <1>3, <1>4, <1>5 DEF IInv

LEMMA NextKeeps == IInv /\ [Next]_vars => IInv'
<1> SUFFICES ASSUME IInv, Next PROVE IInv'
  BY StutterKeeps
<1>1. ASSUME NEW c \in Caller, ExecuteCall(c) \/ StopCall(c) \/ InCall(c)
      PROVE  IInv'
  BY <1>1, ExecuteCallKeeps, ExecuteAcquireKeeps, ExecuteAppendKeeps, ExecuteReleaseKeeps,
     StopCallKeeps, StopCheckKeeps, StopDisconnectKeeps, StopReturnKeeps, StopRaiseKeeps
     DEF InCall
<1>2. ASSUME NEW h \in Handle, Reconnect(h)
      PROVE  IInv'
  BY <1>2, ReconnectKeeps
<1>3. CASE LoopStep
  BY <1>3, TestRunningKeeps, LoopAcquireKeeps, EventCallKeeps, EventsDoneKeeps, ClearKeeps,
     ProcessScheduledKeeps, ScheduledDoneKeeps, SelectKeeps, RunHandleKeeps, RunOnceDoneKeeps
     DEF LoopStep
<1>4. CASE Start \/ EventReturn \/ EventRaise \/ ConnectionLost
  BY <1>4, StartKeeps, EventReturnKeeps, EventRaiseKeeps, ConnectionLostKeeps
<1>5. CASE Upcall \/ UpcallReturn \/ RunReturn
  BY <1>5, UpcallKeeps, UpcallReturnKeeps, RunReturnKeeps
<1>6. QED
  BY <1>1, <1>2, <1>3, <1>4, <1>5 DEF Next

\* What the loop and its callers are doing fits together at any moment.
THEOREM Invariance == Spec => []IInv
<1> QED  BY InitIInv, NextKeeps, PTL DEF Spec

-----------------------------------------------------------------------------
(***************************************************************************)
(* The theorems.                                                            *)
(***************************************************************************)

\* Type correctness of the state of an EventLoop (EventLoop.py:17-102).
THEOREM TypeCorrect == Spec => []TypeOK
<1>1. IInv => TypeOK
  BY DEF IInv
<1> QED  BY <1>1, Invariance, PTL

\* However many threads post while the loop runs, stops and is run again, no
\* event is lost, called twice or called before an earlier one
\* (EventLoop.py:24-27, 71-75).
THEOREM EventsCalledInOrder == Spec => []EventsOnceInOrder
<1>1. IInv => EventsOnceInOrder
  <2> SUFFICES ASSUME IInv PROVE EventsOnceInOrder
    OBVIOUS
  <2>1. /\ started \in Seq(1..MaxPosts) /\ started = [i \in 1..Len(started) |-> started[i]]
        /\ Len(started) \in Nat /\ Len(events) \in Nat /\ posted \in Nat
    BY LenProperties DEF IInv, TypeOK
  <2>2. started = [i \in 1..Len(started) |-> i]
    BY <2>1 DEF IInv, EventsOK
  <2>3. ASSUME NEW i \in (Len(started) + 1)..posted
        PROVE  \E j \in 1..Len(events) : events[j] = i
    <3>1. Gone \in Nat
      BY DEF IInv, EventsOK, TypeOK, Gone
    <3>2. i - (posted - Len(events)) \in 1..Len(events)
      BY <2>1, <2>3, <3>1 DEF IInv, EventsOK
    <3>3. events[i - (posted - Len(events))] = i
      BY <2>1, <2>3, <3>2 DEF IInv, EventsOK
    <3>4. QED
      BY <3>2, <3>3
  <2>4. QED
    BY <2>2, <2>3 DEF EventsOnceInOrder
<1> QED  BY <1>1, Invariance, PTL

\* Stop called by upcalls of ndn_run, on however many faces and in whatever
\* order they come, never makes run() raise (EventLoop.py:78-81, 89-94).
THEOREM UpcallStopsAreQuiet == Spec => []UpcallStopIsQuiet
<1>1. IInv => UpcallStopIsQuiet
  BY DEF IInv, QuietOK, UpcallStopIsQuiet
<1> QED  BY <1>1, Invariance, PTL

\* eventLock stays locked past release() only after an event raised, and the
\* loop waits for its own lock only then or in an event that posts
\* (EventLoop.py:25, 71-75).
THEOREM LockLeaksByRaiseOnly == Spec => []LockLeaksOnlyByRaise
<1>1. IInv => LockLeaksOnlyByRaise
  <2> SUFFICES ASSUME IInv PROVE LockLeaksOnlyByRaise
    OBVIOUS
  <2>1. Leaked => raised
    BY DEF IInv, LockOK
  <2>2. ASSUME eventLock = Loop, pc = "lock" PROVE Leaked
    BY <2>2 DEF IInv, CallsOK, Leaked, Posts, Turn, Caller
  <2>3. ASSUME eventLock = Loop, call[Loop] = "execute", step[Loop] = "acquire"
        PROVE  Leaked \/ SelfPost
    BY <2>3 DEF IInv, CallsOK, Leaked, SelfPost, Posts, Turn, Caller
  <2>4. QED
    BY <2>1, <2>2, <2>3 DEF LockLeaksOnlyByRaise, WaitsForItself
<1> QED  BY <1>1, Invariance, PTL

\* After stop() by an upcall and the return of run(), one face at most is left
\* connected (EventLoop.py:89-94).
THEOREM StopsDisconnectOthers == Spec => []StopDisconnectsOthers
<1>1. IInv => StopDisconnectsOthers
  BY DEF IInv, DisconnectOK, AtMostOne, StopDisconnectsOthers
<1> QED  BY <1>1, Invariance, PTL

\* A face that libndn is working on is not disconnected under it by a stop()
\* of an upcall of ndn_run or of an event (EventLoop.py:89-94).
THEOREM StopsSpareBusy == Spec => StopSparesBusy
<1>1. IInv => \A c \in Caller :
                 stopFrom \subseteq {"upcall", "event"} /\ StopDisconnect(c) => ~Busy(step[c])
  <2> SUFFICES ASSUME IInv, NEW c \in Caller, stopFrom \subseteq {"upcall", "event"},
                      StopDisconnect(c)
               PROVE  ~Busy(step[c])
    OBVIOUS
  <2>1. c = Loop /\ call[Loop] = "stop" /\ pc \in {"upcall", "event"}
    BY DEF IInv, CallsOK, StopDisconnect
  <2>2. step[c] # "check"
    BY EventLoopAssumption DEF StopDisconnect
  <2>3. step[c] \notin executing /\ (pc = "upcall" => executing = {current})
    BY <2>1, <2>2 DEF IInv, RunsOK
  <2>4. QED
    BY <2>1, <2>3 DEF Busy
<1> QED  BY <1>1, Invariance, PTL DEF StopSparesBusy

-----------------------------------------------------------------------------
(***************************************************************************)
(* The events form a queue.                                                 *)
(***************************************************************************)

\* The events not yet called.
Waiting == SubSeq(events, Gone + 1, Len(events))

\* s holds the numbers from m + 1 to n, in order.
IsRange(s, m, n) == /\ s \in Seq(Nat) /\ Len(s) = n - m
                    /\ \A i \in 1..(n - m) : s[i] = m + i

\* The waiting events are those from the one after the last one called to the last one posted.
WaitingOK == /\ IsRange(Waiting, Len(started), posted)
             /\ Len(started) \in Nat /\ posted \in Nat /\ Len(started) <= posted

LEMMA WaitingIs == IInv => WaitingOK
<1> SUFFICES ASSUME IInv PROVE WaitingOK
  OBVIOUS
<1>1. /\ events \in Seq(1..MaxPosts) /\ Len(events) \in Nat
      /\ Len(started) \in Nat /\ posted \in Nat /\ Gone \in Nat
  BY LenProperties DEF IInv, TypeOK, Gone
<1>2. /\ Gone <= Len(events) /\ Len(started) = posted - Len(events) + Gone
      /\ \A j \in 1..Len(events) : events[j] = posted - Len(events) + j
  BY DEF IInv, EventsOK
<1>3. \A j \in (Gone + 1)..Len(events) : events[j] \in Nat
  BY <1>1, <1>2
<1>4. /\ Waiting \in Seq(Nat)
      /\ Len(Waiting) = Len(events) - Gone
      /\ \A i \in 1..(Len(events) - Gone) : Waiting[i] = events[Gone + i]
  BY <1>1, <1>2, <1>3, SubSeqProperties DEF Waiting
<1>5. QED
  BY <1>1, <1>2, <1>4 DEF IsRange, WaitingOK

\* Two sequences of consecutive numbers with the same ends are the same.
LEMMA RangeUnique ==
    ASSUME NEW m \in Nat, NEW n \in Nat, m <= n,
           NEW s, NEW t, IsRange(s, m, n), IsRange(t, m, n)
    PROVE  s = t
<1>1. /\ s \in Seq(Nat) /\ t \in Seq(Nat) /\ Len(s) = n - m /\ Len(t) = n - m
      /\ \A i \in 1..(n - m) : s[i] = t[i]
  BY DEF IsRange
<1>2. QED
  BY <1>1, SeqEqual

\* An event raises or posts.
Jams == EventRaise \/ (pc = "event" /\ (StopRaise(Loop) \/ ExecuteCall(Loop)))

\* A step of the loop or of a caller that neither posts nor calls an event nor
\* jams the queue.
Others == \/ \E c \in Caller : \/ (ExecuteCall(c) /\ ~(c = Loop /\ pc = "event"))
                               \/ ExecuteAcquire(c) \/ ExecuteRelease(c)
                               \/ StopCall(c) \/ StopCheck(c) \/ StopDisconnect(c)
                               \/ StopReturn(c)
                               \/ (StopRaise(c) /\ ~(c = Loop /\ pc = "event"))
          \/ \E h \in Handle : Reconnect(h)
          \/ Start \/ TestRunning \/ LoopAcquire \/ EventReturn \/ EventsDone \/ Clear
          \/ ProcessScheduled \/ ScheduledDone \/ Select
          \/ RunHandle \/ RunOnceDone \/ Upcall \/ UpcallReturn \/ RunReturn
          \/ ConnectionLost \/ UNCHANGED vars

\* Such a step leaves the queue alone.
Unmoved == posted' = posted /\ started' = started /\ (Leaked' <=> Leaked)

LEMMA OthersKeepSelfPost == ASSUME IInv, Others PROVE SelfPost' <=> SelfPost
<1>1. ASSUME NEW c \in Caller, ExecuteCall(c), ~(c = Loop /\ pc = "event")
      PROVE  SelfPost' <=> SelfPost
  BY <1>1 DEF IInv, TypeOK, ExecuteCall, loopVars, SelfPost
<1>2. ASSUME NEW c \in Caller, ExecuteAcquire(c) \/ StopCheck(c) \/ StopDisconnect(c)
      PROVE  SelfPost' <=> SelfPost
  BY <1>2 DEF ExecuteAcquire, StopCheck, StopDisconnect, loopVars, SelfPost
<1>3. ASSUME NEW c \in Caller, ExecuteRelease(c)
      PROVE  SelfPost' <=> SelfPost
  BY <1>3 DEF IInv, TypeOK, CallsOK, ExecuteRelease, loopVars, SelfPost
<1>4. ASSUME NEW c \in Caller, StopCall(c) \/ StopReturn(c)
      PROVE  SelfPost' <=> SelfPost
  <2>1. /\ pc' = pc /\ call[c] # "execute"
        /\ \E x \in {"none", "stop"} : call' = [call EXCEPT ![c] = x]
    BY <1>4 DEF StopCall, StopReturn, MayCall, loopVars
  <2>2. QED
    BY <2>1 DEF IInv, TypeOK, SelfPost
<1>5. ASSUME NEW c \in Caller, StopRaise(c), ~(c = Loop /\ pc = "event")
      PROVE  SelfPost' <=> SelfPost
  BY <1>5 DEF IInv, TypeOK, StopRaise, SelfPost
<1>6. CASE (\E h \in Handle : Reconnect(h)) \/ Start \/ TestRunning \/ ConnectionLost
  BY <1>6 DEF Reconnect, Start, TestRunning, ConnectionLost, loopVars, callVars, SelfPost
<1>7. CASE LoopAcquire \/ EventReturn \/ EventsDone \/ Clear
  BY <1>7 DEF LoopAcquire, EventReturn, EventsDone, Clear, SelfPost
<1>8. CASE ProcessScheduled \/ ScheduledDone \/ Select
  BY <1>8 DEF ProcessScheduled, ScheduledDone, Select, SelfPost
<1>9. CASE RunHandle \/ RunOnceDone \/ Upcall \/ UpcallReturn \/ RunReturn
  BY <1>9 DEF RunHandle, RunOnceDone, Upcall, UpcallReturn, RunReturn, SelfPost
<1>10. CASE UNCHANGED vars
  BY <1>10 DEF vars, loopVars, callVars, SelfPost
<1>11. QED
  BY <1>1, <1>2, <1>3, <1>4, <1>5, <1>6, <1>7, <1>8, <1>9, <1>10 DEF Others

LEMMA OthersStutter == ASSUME IInv, Others PROVE Unmoved
<1>1. ASSUME NEW c \in Caller, ExecuteCall(c) PROVE Unmoved
  <2>1. Posts(Loop)' <=> Posts(Loop)
    BY <1>1 DEF IInv, TypeOK, ExecuteCall, MayCall, Posts
  <2>2. QED
    BY <1>1, <2>1 DEF ExecuteCall, Leaked, loopVars, Unmoved
<1>2. ASSUME NEW c \in Caller, ExecuteAcquire(c) PROVE Unmoved
  BY <1>2, EventLoopAssumption
     DEF IInv, TypeOK, ExecuteAcquire, Leaked, Posts, Caller, loopVars, ghostVars, Unmoved
<1>3. ASSUME NEW c \in Caller, ExecuteRelease(c) PROVE Unmoved
  BY <1>3, EventLoopAssumption
     DEF IInv, LockOK, ExecuteRelease, Leaked, Posts, Caller, ghostVars, Unmoved
<1>4. ASSUME NEW c \in Caller, StopCall(c) PROVE Unmoved
  <2>1. call[c] = "none" /\ call' = [call EXCEPT ![c] = "stop"]
    BY <1>4 DEF StopCall, MayCall
  <2>2. ~Posts(c) /\ ~Posts(c)' /\ (c # Loop => (Posts(Loop)' <=> Posts(Loop)))
    BY <1>4, <2>1 DEF IInv, TypeOK, StopCall, Posts
  <2>3. QED
    BY <1>4, <2>2 DEF StopCall, Leaked, ghostVars, Unmoved
<1>5. ASSUME NEW c \in Caller, StopCheck(c) PROVE Unmoved
  <2>1. call' = call /\ call[c] = "stop" /\ (c # Loop => step'[Loop] = step[Loop])
    <3>1. PICK h \in rest[c] : step' = step \/ step' = [step EXCEPT ![c] = h]
      BY <1>5 DEF StopCheck
    <3>2. QED
      BY <1>5, <3>1 DEF IInv, TypeOK, StopCheck, Caller
  <2>2. Posts(Loop)' <=> Posts(Loop)
    BY <2>1 DEF Posts
  <2>3. QED
    BY <1>5, <2>2 DEF StopCheck, Leaked, loopVars, ghostVars, Unmoved
<1>6. ASSUME NEW c \in Caller, StopDisconnect(c) PROVE Unmoved
  <2>1. Posts(Loop)' <=> Posts(Loop)
    BY <1>6 DEF IInv, TypeOK, StopDisconnect, Posts
  <2>2. QED
    BY <1>6, <2>1 DEF StopDisconnect, Leaked, loopVars, ghostVars, Unmoved
<1>7. ASSUME NEW c \in Caller, StopReturn(c) PROVE Unmoved
  <2>1. Posts(Loop)' <=> Posts(Loop)
    BY <1>7 DEF IInv, TypeOK, StopReturn, Posts
  <2>2. QED
    BY <1>7, <2>1 DEF StopReturn, Leaked, loopVars, ghostVars, Unmoved
<1>8. ASSUME NEW c \in Caller, StopRaise(c), ~(c = Loop /\ pc = "event") PROVE Unmoved
  <2>1. Posts(Loop)' <=> Posts(Loop)
    BY <1>8 DEF IInv, TypeOK, StopRaise, Posts
  <2>2. QED
    BY <1>8, <2>1 DEF StopRaise, Leaked, Unmoved
<1>9. CASE LoopAcquire \/ Clear
  BY <1>9, EventLoopAssumption
     DEF IInv, LockOK, LoopAcquire, Clear, Leaked, Turn, Caller, ghostVars, Unmoved
<1>10. CASE EventReturn \/ EventsDone
  BY <1>10 DEF EventReturn, EventsDone, Leaked, Turn, ghostVars, Unmoved
<1>11. CASE (\E h \in Handle : Reconnect(h)) \/ Start \/ TestRunning \/ ConnectionLost
  BY <1>11 DEF Reconnect, Start, TestRunning, ConnectionLost, Leaked, Posts, Turn,
              loopVars, callVars, Unmoved
<1>12. CASE ProcessScheduled \/ ScheduledDone \/ Select
  BY <1>12 DEF ProcessScheduled, ScheduledDone, Select, Leaked, Posts, Turn,
              callVars, ghostVars, Unmoved
<1>13. CASE RunHandle \/ RunOnceDone \/ Upcall \/ UpcallReturn \/ RunReturn
  BY <1>13 DEF RunHandle, RunOnceDone, Upcall, UpcallReturn, RunReturn, Leaked, Posts, Turn,
              callVars, ghostVars, Unmoved
<1>14. CASE UNCHANGED vars
  BY <1>14 DEF vars, loopVars, callVars, ghostVars, Leaked, Posts, Unmoved
<1>15. QED
  BY <1>1, <1>2, <1>3, <1>4, <1>5, <1>6, <1>7, <1>8, <1>9, <1>10, <1>11, <1>12, <1>13,
     <1>14 DEF Others

\* A step is a post, a call of an event, the end of the queue, or another.
LEMMA FourKinds ==
    [Next]_vars => \/ Others
                   \/ \E c \in Caller : ExecuteAppend(c)
                   \/ EventCall
                   \/ Jams
<1> SUFFICES ASSUME Next
             PROVE  \/ Others
                    \/ \E c \in Caller : ExecuteAppend(c)
                    \/ EventCall
                    \/ Jams
  BY DEF Others
<1>1. ASSUME NEW c \in Caller, StopRaise(c), ~(c = Loop /\ pc = "event") PROVE Others
  BY <1>1 DEF Others
<1>2. ASSUME NEW c \in Caller, StopCall(c) \/ InCall(c), ~ExecuteAppend(c), ~StopRaise(c)
      PROVE  Others
  BY <1>2 DEF InCall, Others
<1>0. ASSUME NEW c \in Caller, ExecuteCall(c), ~(c = Loop /\ pc = "event") PROVE Others
  BY <1>0 DEF Others
<1>3. CASE LoopStep \/ (\E h \in Handle : Reconnect(h))
  BY <1>3 DEF LoopStep, Others
<1>4. CASE \/ Start \/ EventReturn \/ Upcall \/ UpcallReturn \/ RunReturn
           \/ ConnectionLost
  BY <1>4 DEF Others
<1>5. QED
  BY <1>0, <1>1, <1>2, <1>3, <1>4 DEF Next, Jams

\* The events form one queue, in which each step takes part as a post, as a
\* call, as the exception or the deadlock that ends it, or not at all
\* (EventLoop.py:24-27, 67-90).
THEOREM LoopImplementsQueue == Spec => ImplementsQueue
<1>1. Init => Queue!Init
  <2> SUFFICES ASSUME Init PROVE Queue!Init
    OBVIOUS
  <2>1. ~Stuck /\ Gone = 0
    BY EventLoopAssumption DEF Init, Stuck, Leaked, SelfPost, Gone, Turn, Caller
  <2>2. Waiting = <<>>
    BY <2>1, SubSeqEmpty, EmptySeq DEF Init, Waiting
  <2>3. QED
    BY <2>1, <2>2 DEF Init, Queue!Init, Waiting
<1>2. IInv /\ IInv' /\ [Next]_vars => [Queue!Next]_(Queue!vars)
  <2> SUFFICES ASSUME IInv, IInv', [Next]_vars PROVE [Queue!Next]_(Queue!vars)
    OBVIOUS
  <2> DEFINE m == Len(started)
  <2>1. WaitingOK /\ WaitingOK'
    BY WaitingIs, PTL
  <2>2. /\ IsRange(Waiting, m, posted) /\ IsRange(Waiting', Len(started'), posted')
        /\ m \in Nat /\ posted \in Nat /\ m <= posted
        /\ posted' \in Nat /\ Len(started') <= posted'
    BY <2>1 DEF WaitingOK, IsRange
  <2>3. CASE Others
    <3>1. posted' = posted /\ started' = started /\ (Stuck' <=> Stuck)
      BY <2>3, OthersStutter, OthersKeepSelfPost DEF Unmoved, Stuck
    <3>2. Waiting' = Waiting
      BY <2>2, <3>1, RangeUnique
    <3>3. Stuck' = Stuck
      BY <3>1 DEF Stuck
    <3>4. QED
      BY <3>1, <3>2, <3>3 DEF Queue!vars, Waiting
  <2>4. ASSUME NEW c \in Caller, ExecuteAppend(c)
        PROVE  Queue!Post
    <3>1. posted' = posted + 1 /\ started' = started
      BY <2>4 DEF ExecuteAppend
    <3>2. ~Stuck
      <4>1. eventLock = c /\ pc \notin Turn
        BY <2>4 DEF ExecuteAppend, IInv, LockOK, CallsOK, Turn, Posts
      <4>2. QED
        BY <2>4, <4>1 DEF ExecuteAppend, Stuck, Leaked, SelfPost, Turn, Posts
    <3>3. Stuck' = Stuck
      <4>1. Posts(c)' /\ eventLock' = c /\ call' = call /\ pc' = pc
        BY <2>4 DEF ExecuteAppend, IInv, TypeOK, LockOK, Posts, loopVars
      <4>2. ~Stuck'
        BY <3>2, <4>1 DEF Stuck, Leaked, SelfPost
      <4>3. QED
        BY <3>2, <4>2 DEF Stuck
    <3>4. Len(Waiting) = posted - m /\ m + Len(Waiting) + 1 = posted + 1
      BY <2>2 DEF IsRange
    <3>5. /\ Append(Waiting, posted + 1) \in Seq(Nat)
          /\ Len(Append(Waiting, posted + 1)) = posted - m + 1
          /\ \A i \in 1..(posted - m) : Append(Waiting, posted + 1)[i] = m + i
          /\ Append(Waiting, posted + 1)[posted - m + 1] = posted + 1
      BY <2>2, <3>4, AppendProperties DEF IsRange
    <3>6. Waiting' = Append(Waiting, posted + 1)
      <4> HIDE DEF m
      <4>1. \A i \in 1..((posted + 1) - m) : Append(Waiting, posted + 1)[i] = m + i
        <5>1. ASSUME NEW i \in 1..((posted + 1) - m)
              PROVE  i \in 1..(posted - m) \/ (i = posted - m + 1 /\ m + i = posted + 1)
          BY <2>2, <5>1
        <5>2. QED
          BY <3>5, <5>1
      <4>2. Len(Append(Waiting, posted + 1)) = (posted + 1) - m
        BY <2>2, <3>5
      <4>3. IsRange(Append(Waiting, posted + 1), m, posted + 1)
        BY <3>5, <4>1, <4>2 DEF IsRange
      <4>4. IsRange(Waiting', m, posted + 1)
        BY <2>2, <3>1 DEF m
      <4>5. posted + 1 \in Nat /\ m <= posted + 1
        BY <2>2
      <4>6. QED
        BY <2>2, <4>3, <4>4, <4>5, RangeUnique
    <3>7. QED
      BY <3>1, <3>2, <3>3, <3>4, <3>6 DEF Queue!Post, Waiting
  <2>5. ASSUME EventCall
        PROVE  Queue!Call
    <3>1. /\ posted' = posted /\ started' = Append(started, events[index])
          /\ ~Stuck /\ Stuck' = Stuck
      <4>1. call[Loop] # "execute" /\ call' = call
        BY <2>5 DEF EventCall, IInv, CallsOK, Caller, callVars
      <4>2. ~Stuck /\ ~Stuck'
        BY <2>5, <4>1 DEF EventCall, Stuck, Leaked, SelfPost, Turn
      <4>3. QED
        BY <2>5, <4>2 DEF EventCall, Stuck
    <3>2. /\ index \in 1..Len(events) /\ Len(events) \in Nat /\ Gone = index - 1
          /\ events \in Seq(1..MaxPosts) /\ started \in Seq(1..MaxPosts)
      BY <2>5, <3>1, LenProperties DEF EventCall, IInv, TypeOK, Gone
    <3>3. events[index] = m + 1 /\ events[index] \in 1..MaxPosts
      <4>1. events[index] = posted - Len(events) + index /\ m = posted - Len(events) + Gone
        BY <3>2 DEF IInv, EventsOK
      <4>2. events[index] \in 1..MaxPosts
        BY <3>2, ElementOfSeq
      <4>3. QED
        BY <2>2, <3>2, <4>1, <4>2
    <3>4. Len(started') = m + 1
      BY <3>1, <3>2, <3>3, AppendProperties
    <3>5. Waiting # <<>>
      BY <2>2, <3>1, <3>4, EmptySeq DEF IsRange
    <3>6. /\ Tail(Waiting) \in Seq(Nat) /\ Len(Tail(Waiting)) = posted - m - 1
          /\ \A i \in 1..(posted - m - 1) : Tail(Waiting)[i] = m + 1 + i
          /\ Head(Waiting) = m + 1
      BY <2>2, <3>5, HeadTailProperties DEF IsRange
    <3>7. Waiting' = Tail(Waiting)
      <4> HIDE DEF m
      <4>1. \A i \in 1..(posted - (m + 1)) : Tail(Waiting)[i] = (m + 1) + i
        BY <2>2, <3>6
      <4>2. IsRange(Tail(Waiting), m + 1, posted)
        BY <2>2, <3>6, <4>1 DEF IsRange
      <4>3. IsRange(Waiting', m + 1, posted) /\ m + 1 \in Nat /\ m + 1 <= posted
        BY <2>2, <3>1, <3>4
      <4>4. QED
        BY <2>2, <4>2, <4>3, RangeUnique
    <3>8. started' = Append(started, Head(Waiting))
      BY <3>1, <3>3, <3>6
    <3>9. QED
      BY <3>1, <3>5, <3>7, <3>8 DEF Queue!Call, Waiting
  <2>6. ASSUME Jams
        PROVE  Queue!Jam
    <3>0. pc = "event" /\ call[Loop] # "execute"
      BY <2>6 DEF Jams, EventRaise, StopRaise, ExecuteCall, MayCall
    <3>1. posted' = posted /\ started' = started
      BY <2>6 DEF Jams, EventRaise, StopRaise, ExecuteCall
    <3>2. ~Stuck /\ Stuck' = TRUE
      <4>1. ~Stuck
        BY <3>0 DEF Stuck, Leaked, SelfPost, Turn
      <4>2. ASSUME EventRaise PROVE Leaked'
        <5>1. eventLock' = Loop /\ pc' \in {"test", "idle"} /\ ~Posts(Loop)'
          BY <3>0, <4>2 DEF EventRaise, IInv, LockOK, Posts, Turn, callVars
        <5>2. QED
          BY <5>1 DEF Leaked, Turn
      <4>3. ASSUME StopRaise(Loop) PROVE Leaked'
        <5>1. eventLock' = Loop /\ pc' = "test" /\ ~Posts(Loop)'
          BY <3>0, <4>3 DEF StopRaise, IInv, TypeOK, LockOK, Posts, Turn, Caller
        <5>2. QED
          BY <5>1 DEF Leaked, Turn
      <4>4. ASSUME ExecuteCall(Loop) PROVE SelfPost'
        BY <3>0, <4>4 DEF ExecuteCall, IInv, TypeOK, SelfPost, Caller, loopVars
      <4>5. Stuck'
        BY <2>6, <4>2, <4>3, <4>4 DEF Jams, Stuck
      <4>6. QED
        BY <4>1, <4>5 DEF Stuck
    <3>3. Gone = index /\ index \in 1..(MaxPosts + 1)
      BY <3>0 DEF Gone, IInv, TypeOK
    <3>4. Len(started) >= 1
      BY <2>2, <3>0, <3>3, LenProperties, EventLoopAssumption DEF IInv, TypeOK, EventsOK
    <3>5. Waiting' = Waiting
      BY <2>2, <3>1, RangeUnique
    <3>6. started # <<>>
      BY <3>4, EmptySeq
    <3>7. QED
      BY <3>1, <3>2, <3>5, <3>6 DEF Queue!Jam, Waiting
  <2>7. QED
    BY <2>3, <2>4, <2>5, <2>6, FourKinds DEF Queue!Next
<1>3. QED
  BY <1>1, <1>2, Invariance, PTL DEF Spec, ImplementsQueue, Queue!Spec

\* Once an event has raised or posts, it is for good: eventLock is never released,
\* so no event is added to the list, dropped from it or called, and every execute()
\* waits in acquire(), also in the next run() (EventLoop.py:25, 71).
THEOREM JamIsForGood == Spec => [][Stuck => Stuck' /\ UNCHANGED <<eventLock, events, started>>]_vars
<1>1. IInv /\ [Next]_vars => (Stuck => Stuck' /\ UNCHANGED <<eventLock, events, started>>)
  <2> SUFFICES ASSUME IInv, [Next]_vars, Stuck
               PROVE  Stuck' /\ UNCHANGED <<eventLock, events, started>>
    OBVIOUS
  <2>1. /\ eventLock = Loop /\ eventLock # Free
        /\ pc \in Turn => pc = "event" /\ call[Loop] = "execute"
    BY EventLoopAssumption DEF IInv, LockOK, Stuck, Leaked, SelfPost, Turn, Caller
  <2>2. \A c \in Caller : ~Posts(c)
    <3> SUFFICES ASSUME NEW c \in Caller, Posts(c) PROVE FALSE
      OBVIOUS
    <3>1. c = Loop
      BY <2>1 DEF IInv, LockOK
    <3>2. pc = "event"
      BY <3>1 DEF Stuck, Leaked, SelfPost
    <3>3. QED
      BY <3>1, <3>2 DEF IInv, CallsOK, Posts
  <2>3. CASE Others
    <3>1. Stuck' /\ started' = started
      BY <2>3, OthersStutter, OthersKeepSelfPost DEF Unmoved, Stuck
    <3>2. eventLock' = eventLock /\ events' = events
      <4>1. ASSUME NEW c \in Caller, ExecuteAcquire(c) \/ ExecuteRelease(c) PROVE FALSE
        BY <2>1, <2>2, <4>1 DEF ExecuteAcquire, ExecuteRelease, Posts
      <4>2. ASSUME LoopAcquire \/ Clear PROVE FALSE
        BY <2>1, <4>2 DEF LoopAcquire, Clear, Turn
      <4>3. ASSUME NEW c \in Caller,
                   \/ ExecuteCall(c) \/ StopCall(c) \/ StopCheck(c) \/ StopDisconnect(c)
                   \/ StopReturn(c) \/ StopRaise(c)
            PROVE  eventLock' = eventLock /\ events' = events
        BY <4>3 DEF ExecuteCall, StopCall, StopCheck, StopDisconnect, StopReturn, StopRaise
      <4>4. CASE \/ \E h \in Handle : Reconnect(h)
                 \/ Start \/ TestRunning \/ EventReturn \/ EventsDone \/ ConnectionLost
        BY <4>4 DEF Reconnect, Start, TestRunning, EventReturn, EventsDone, ConnectionLost
      <4>5. CASE \/ ProcessScheduled \/ ScheduledDone \/ Select
                 \/ RunHandle \/ RunOnceDone \/ Upcall \/ UpcallReturn \/ RunReturn
        BY <4>5 DEF ProcessScheduled, ScheduledDone, Select, RunHandle,
                    RunOnceDone, Upcall, UpcallReturn, RunReturn
      <4>6. CASE UNCHANGED vars
        BY <4>6 DEF vars
      <4>7. QED
        BY <2>3, <4>1, <4>2, <4>3, <4>4, <4>5, <4>6 DEF Others
    <3>3. QED
      BY <3>1, <3>2
  <2>4. ASSUME NEW c \in Caller, ExecuteAppend(c) PROVE FALSE
    BY <2>2, <2>4 DEF ExecuteAppend, Posts
  <2>5. ASSUME EventCall PROVE FALSE
    BY <2>1, <2>5 DEF EventCall, Turn
  <2>6. ASSUME Jams PROVE FALSE
    <3>1. pc = "event" /\ call[Loop] # "execute"
      BY <2>6 DEF Jams, EventRaise, StopRaise, ExecuteCall, MayCall
    <3>2. QED
      BY <2>1, <3>1 DEF Turn
  <2>7. QED
    BY <2>3, <2>4, <2>5, <2>6, FourKinds
<1>2. QED
  BY <1>1, Invariance, PTL DEF Spec

-----------------------------------------------------------------------------
(***************************************************************************)
(* How the loop uses its faces.                                             *)
(***************************************************************************)

\* The only call of a worker that touches a face is stop(): unless the application
\* makes it from a thread, the faces are used by the loop's thread alone, as
\* module Face asks for (OneOwner), and their own locks are never contended.
LEMMA FacesHaveOneUser ==
    ASSUME IInv, "thread" \notin stopFrom, NEW c \in Worker
    PROVE  ~StopCall(c) /\ ~StopCheck(c) /\ ~StopDisconnect(c) /\ ~StopRaise(c)
<1>1. c \in Caller /\ c # Loop
  BY EventLoopAssumption DEF Caller
<1>2. call[c] # "stop"
  BY <1>1 DEF IInv, CallsOK
<1>3. ~StopCall(c)
  BY <1>1 DEF StopCall, MayCall
<1>4. QED
  BY <1>2, <1>3 DEF StopCheck, StopDisconnect, StopRaise
=============================================================================
