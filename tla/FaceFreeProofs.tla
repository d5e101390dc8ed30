-------------------------- MODULE FaceFreeProofs --------------------------
(***************************************************************************)
(* What holds of a Face however an application uses it, and which uses keep *)
(* its runs apart: proofs about the executions of FreeSpec, which need not  *)
(* be disciplined.                                                          *)
(***************************************************************************)
EXTENDS FaceProofs, FiniteSetTheorems

(***************************************************************************)
(* The run_state list has as many nodes as there are runs in progress.      *)
(***************************************************************************)

\* The frames that are in ndn_run.
Runners == {f \in Frame : InRun(f)}

\* One node for each run; the lock and the discipline play no part in it.
Counted == /\ pc \in [Frame -> PC]
           /\ op \in [Frame -> Op \cup {"none"}]
           /\ IsFiniteSet(Runners)
           /\ runStates = Cardinality(Runners)

\* Most steps neither enter a run nor return from one.
LEMMA SameRunners ==
    ASSUME Counted, runStates' = runStates,
           pc' \in [Frame -> PC], op' \in [Frame -> Op \cup {"none"}],
           \A g \in Frame : InRun(g)' <=> InRun(g)
    PROVE  Counted'
<1>1. Runners' = Runners
  BY DEF Runners
<1>2. QED
  BY <1>1 DEF Counted

\* A run adds its node when it enters libndn and removes it when it leaves.
LEMMA StepCounts == Counted /\ [Next]_vars => Counted'
<1> SUFFICES ASSUME Counted, [Next]_vars PROVE Counted'
  OBVIOUS
<1> DEFINE Typed == pc' \in [Frame -> PC] /\ op' \in [Frame -> Op \cup {"none"}]
           Same  == runStates' = runStates /\ \A g \in Frame : InRun(g)' <=> InRun(g)
<1>1. pc \in [Frame -> PC] /\ op \in [Frame -> Op \cup {"none"}]
  BY DEF Counted
<1>2. ASSUME NEW f \in Frame, NEW o \in Op,
             EnterConditional(f, o) \/ EnterChecked(f, o) \/ EnterUnchecked(f, o)
      PROVE  Counted'
  <2>1. Typed
    BY <1>1, <1>2 DEF EnterConditional, EnterChecked, EnterUnchecked, GoTo, PC
  <2>2. Same
    BY <1>1, <1>2 DEF EnterConditional, EnterChecked, EnterUnchecked, MayCall, GoTo, InRun
  <2>3. QED
    BY <2>1, <2>2, SameRunners
<1>3. ASSUME NEW f \in Frame,
             \/ AcquireCheck(f) \/ Acquire(f) \/ CallLocked(f) \/ OutputIsPending(f)
             \/ ProcessScheduled(f) \/ Connect(f) \/ Disconnect(f) \/ SetRunTimeout(f)
             \/ ReleaseCheck(f) \/ Release(f)
      PROVE  Counted'
  <2> USE DEF AcquireCheck, Acquire, CallLocked, OutputIsPending, ProcessScheduled, Connect,
              Disconnect, SetRunTimeout, ReleaseCheck, Release, GoTo, Finish
  <2>1. Typed
    BY <1>1, <1>3 DEF PC
  <2>2. Same
    <3>1. ASSUME CallLocked(f) \/ ProcessScheduled(f) PROVE op[f] # "run" /\ pc[f] = "call"
      BY <3>1, OpFacts
    <3>2. CASE CallLocked(f) \/ ProcessScheduled(f)
      BY <1>1, <3>1, <3>2 DEF InRun
    <3>3. CASE ~(CallLocked(f) \/ ProcessScheduled(f))
      BY <1>1, <1>3, <3>3 DEF InRun
    <3>4. QED
      BY <3>2, <3>3
  <2>3. QED
    BY <2>1, <2>2, SameRunners
<1>4. ASSUME NEW f \in Frame,
             GetEnter(f) \/ GetReturn(f) \/ Dispatch(f) \/ UpcallReturn(f)
      PROVE  Counted'
  <2> USE DEF GetEnter, GetReturn, Dispatch, UpcallReturn, Filters, GoTo, Finish
  <2>1. Typed
    BY <1>1, <1>4 DEF PC
  <2>2. Same
    BY <1>1, <1>4 DEF InRun
  <2>3. QED
    BY <2>1, <2>2, SameRunners
<1>5. ASSUME NEW f \in Frame, RunEnter(f) PROVE Counted'
  <2>1. Typed
    BY <1>1, <1>5 DEF RunEnter, GoTo, PC
  <2>2. f \notin Runners /\ Runners' = Runners \cup {f}
    BY <1>1, <1>5 DEF RunEnter, GoTo, Runners, InRun
  <2>3. /\ IsFiniteSet(Runners') /\ Cardinality(Runners') = Cardinality(Runners) + 1
    BY <2>2, FS_AddElement DEF Counted
  <2>4. QED
    BY <1>5, <2>1, <2>3 DEF Counted, RunEnter
<1>6. ASSUME NEW f \in Frame, RunReturn(f) PROVE Counted'
  <2>1. Typed
    BY <1>1, <1>6 DEF RunReturn, GoTo, PC
  <2>2. f \in Runners /\ Runners' = Runners \ {f}
    BY <1>1, <1>6 DEF RunReturn, GoTo, Runners, InRun
  <2>3. /\ IsFiniteSet(Runners') /\ Cardinality(Runners') = Cardinality(Runners) - 1
    BY <2>2, FS_RemoveElement DEF Counted
  <2>4. QED
    BY <1>6, <2>1, <2>3 DEF Counted, RunReturn
<1>7. CASE ConnectionLost \/ UNCHANGED vars
  BY <1>1, <1>7, SameRunners DEF ConnectionLost, vars, InRun
<1>8. QED
  BY <1>2, <1>3, <1>4, <1>5, <1>6, <1>7 DEF Next, Enter, Continue, Return

\* There is no run at first.
LEMMA InitCounts == InitFor(Deployments) => Counted
<1> SUFFICES ASSUME InitFor(Deployments) PROVE Counted
  OBVIOUS
<1>1. Runners = {}
  BY DEF InitFor, Runners, InRun
<1>2. QED
  BY <1>1, FS_EmptySet DEF InitFor, Counted, PC

\* The number of nodes answers the question whether some run is in progress.
LEMMA CountTells == Counted => RunStateCoherent
<1> SUFFICES ASSUME Counted PROVE RunStateCoherent
  OBVIOUS
<1>1. Cardinality(Runners) \in Nat /\ (Cardinality(Runners) = 0 <=> Runners = {})
  BY FS_CardinalityType, FS_EmptySet DEF Counted
<1>2. QED
  BY <1>1 DEF Counted, RunStateCoherent, IsRunExecuting, Runners

\* is_run_executing tells the truth about every use of a Face, on every path
\* into ndn_run and out of it (util.c:119-174, methods_handle.c:356-366): also
\* where runs overlap, and where the test decides wrongly about the lock.
THEOREM RunStatesAlways == FreeSpec => []RunStateCoherent
  BY InitCounts, StepCounts, CountTells, PTL DEF FreeSpec

-----------------------------------------------------------------------------
(***************************************************************************)
(* Which uses of a Face keep its runs apart.                                *)
(***************************************************************************)

\* Only one thread can come to run the face, in its own code or in an upcall.
OneRunner(d) == \E t \in Thread : \A u \in Thread \ {t} :
    /\ "run" \notin d.top[u]
    /\ "run" \in d.up => d.top[u] \cap {"get", "process_scheduled"} = {}
    /\ "run" \in d.final => d.top[u] \cap Filters = {}

\* The calls that skip the lock while a run is in progress are made by upcalls
\* of a run only: that run is still in progress when they return.
CallsInRuns(d) == \A t \in Thread :
    /\ d.top[t] \cap Conditional = {}
    /\ d.up \cap Conditional = {} \/ "process_scheduled" \notin d.top[t]

\* Only upcalls of get, and FINAL upcalls of filters, run the face, if any: they
\* wait for the lock of the call that dispatches them.
RunsInGets(d) == \A t \in Thread : d.top[t] \cap {"run", "process_scheduled"} = {}

KeepsApart(d) == OneRunner(d) \/ CallsInRuns(d) \/ RunsInGets(d)

\* No upcall of a run comes past the assertion of another one.
NestOK == \A f \in Frame : f[2] = "up" /\ op[f] = "run" => op[Outer(f)] # "run"

\* Only runs take the lock, and hold it until they give it back.
RunsHold == CallsInRuns(uses) => \A f \in Frame :
    /\ op[f] = "run" /\ pc[f] \in {"call", "inside", "upcall", "unlock"} => lock = f
    /\ pc[f] \in {"acquire", "unlock"} => op[f] = "run"

\* A run never gets the lock.
GetsHold == RunsInGets(uses) => \A f \in Frame :
    /\ op[f] = "run" => pc[f] = "acquire"
    /\ op[f] \in Conditional /\ pc[f] \notin {"check", "acquire"} => lock = f

\* What can be said of the frames alone.
FramesOK == OpOK /\ PcOK /\ NestOK

FreeInv == Counted /\ FramesOK /\ RunsHold /\ GetsHold

\* No step changes the deployment.
LEMMA UsesStay == [Next]_vars => uses' = uses
  BY DEF vars, Next, Enter, Continue, Return, EnterConditional, EnterUnchecked,
         EnterChecked, AcquireCheck, Acquire, CallLocked, ProcessScheduled,
         OutputIsPending, Connect, Disconnect, SetRunTimeout, ReleaseCheck, Release,
         RunEnter, GetEnter, Dispatch, UpcallReturn, RunReturn, GetReturn,
         ConnectionLost

\* A call comes to its next point ...
LEMMA GoToKeepsFrames ==
    ASSUME Counted, FramesOK, NEW f \in Frame, NEW l \in PC \ {"idle"},
           GoTo(f, l), op' = op, uses' = uses,
           pc[f] # "idle", pc[f] = "upcall" => pc[Inner(f)] = "idle",
           l \in {"check", "after"} => op[f] \in Conditional,
           l \in {"acquire", "unlock"} => op[f] \in Locking,
           l = "inside" => op[f] \in {"run", "get"},
           l = "upcall" => /\ f[2] = "main"
                           /\ op[f] \in {"run", "get", "process_scheduled"} \cup Filters
    PROVE  FramesOK'
<1>1. pc \in [Frame -> PC] /\ op \in [Frame -> Op \cup {"none"}]
  BY DEF Counted
<1>2. OpOK'
  <2>1. ASSUME NEW g \in Frame, pc[g] # "idle", g[2] = "up", Outer(g) = f
        PROVE  pc[f] # "upcall"
    BY <2>1, FrameFacts DEF Outer, Inner
  <2>2. QED
    BY <1>1, <2>1, FrameFacts DEF FramesOK, OpOK, CallsOf, GoTo
<1>3. PcOK'
  BY <1>1 DEF FramesOK, PcOK, GoTo
<1>4. NestOK'
  BY DEF FramesOK, NestOK
<1>5. QED
  BY <1>2, <1>3, <1>4 DEF FramesOK

\* ... or ends.
LEMMA FinishKeepsFrames ==
    ASSUME Counted, FramesOK, NEW f \in Frame, Finish(f), uses' = uses,
           pc[f] # "idle", pc[f] = "upcall" => pc[Inner(f)] = "idle"
    PROVE  FramesOK'
<1>1. pc \in [Frame -> PC] /\ op \in [Frame -> Op \cup {"none"}]
  BY DEF Counted
<1>2. OpOK'
  <2>1. ASSUME NEW g \in Frame, pc[g] # "idle", g[2] = "up", Outer(g) = f
        PROVE  pc[f] # "upcall"
    BY <2>1, FrameFacts DEF Outer, Inner
  <2>2. QED
    BY <1>1, <2>1, FrameFacts DEF FramesOK, OpOK, CallsOf, Finish
<1>3. PcOK'
  BY <1>1 DEF FramesOK, PcOK, Finish
<1>4. NestOK'
  BY <1>1, FrameFacts DEF FramesOK, NestOK, Finish
<1>5. QED
  BY <1>2, <1>3, <1>4 DEF FramesOK

\* Every step keeps what can be said of the frames alone.
LEMMA FramesKept == Counted /\ FramesOK /\ [Next]_vars => FramesOK'
<1> SUFFICES ASSUME Counted, FramesOK, [Next]_vars PROVE FramesOK'
  OBVIOUS
<1>0. pc \in [Frame -> PC] /\ op \in [Frame -> Op \cup {"none"}] /\ RunStateCoherent
  BY CountTells DEF Counted
<1>1. ASSUME NEW f \in Frame, NEW o \in Op,
             EnterConditional(f, o) \/ EnterChecked(f, o) \/ EnterUnchecked(f, o)
      PROVE  FramesOK'
  <2> USE FrameFacts, OpFacts
      DEF EnterConditional, EnterChecked, EnterUnchecked, MayCall, GoTo
  <2>1. OpOK'
    BY <1>0, <1>1 DEF FramesOK, OpOK, CallsOf, PcOK
  <2>2. PcOK'
    BY <1>0, <1>1 DEF FramesOK, PcOK
  <2>3. o = "run" => \A g \in Frame : ~InRun(g)
    BY <1>0, <1>1 DEF RunStateCoherent
  <2>4. NestOK'
    BY <1>0, <1>1, <2>3 DEF FramesOK, NestOK, OpOK, PcOK, InRun
  <2>5. QED
    BY <2>1, <2>2, <2>4 DEF FramesOK
<1>2. ASSUME NEW f \in Frame, AcquireCheck(f) \/ Acquire(f) \/ CallLocked(f)
      PROVE  FramesOK'
  <2>1. PICK l \in {"acquire", "call", "after", "upcall"} :
             /\ GoTo(f, l) /\ op' = op /\ uses' = uses
             /\ pc[f] \in {"check", "acquire", "call"}
             /\ l \in {"acquire", "after"} => op[f] \in Conditional
             /\ l = "upcall" => f[2] = "main" /\ op[f] \in Filters
    BY <1>2, OpFacts DEF AcquireCheck, Acquire, CallLocked, FramesOK, PcOK
  <2>2. QED
    BY <2>1, GoToKeepsFrames, OpFacts DEF PC
<1>3. ASSUME NEW f \in Frame,
             OutputIsPending(f) \/ Connect(f) \/ Disconnect(f) \/ SetRunTimeout(f) \/ Release(f)
      PROVE  FramesOK'
  BY <1>3, FinishKeepsFrames DEF OutputIsPending, Connect, Disconnect, SetRunTimeout, Release
<1>4. ASSUME NEW f \in Frame, ReleaseCheck(f) \/ ProcessScheduled(f) PROVE FramesOK'
  <2>1. CASE Finish(f)
    BY <1>4, <2>1, FinishKeepsFrames DEF ReleaseCheck, ProcessScheduled
  <2>2. CASE ~Finish(f)
    <3>1. PICK l \in {"unlock", "upcall"} :
               /\ GoTo(f, l) /\ op' = op /\ uses' = uses
               /\ pc[f] \in {"after", "call"}
               /\ l = "unlock" => op[f] \in Conditional
               /\ l = "upcall" => f[2] = "main" /\ op[f] = "process_scheduled"
      BY <1>4, <2>2 DEF ReleaseCheck, ProcessScheduled, FramesOK, PcOK
    <3>2. QED
      BY <3>1, GoToKeepsFrames, OpFacts DEF PC
  <2>3. QED
    BY <2>1, <2>2
<1>5. ASSUME NEW f \in Frame,
             \/ RunEnter(f) \/ GetEnter(f) \/ Dispatch(f) \/ UpcallReturn(f)
             \/ RunReturn(f) \/ GetReturn(f)
      PROVE  FramesOK'
  <2>1. CASE Finish(f)
    BY <1>5, <2>1, FinishKeepsFrames
       DEF RunEnter, GetEnter, Dispatch, UpcallReturn, RunReturn, GetReturn
  <2>2. CASE ~Finish(f)
    <3>1. PICK l \in {"inside", "after", "upcall", "unlock"} :
               /\ GoTo(f, l) /\ op' = op /\ uses' = uses
               /\ pc[f] \in {"call", "inside", "upcall"}
               /\ pc[f] = "upcall" => pc[Inner(f)] = "idle"
               /\ l = "after" => op[f] = "get" \/ op[f] \in Filters
               /\ l = "unlock" => op[f] = "run"
               /\ l \in {"inside", "upcall"} => op[f] \in {"run", "get"}
               /\ l = "upcall" => f[2] = "main"
      BY <1>5, <2>2 DEF RunEnter, GetEnter, Dispatch, UpcallReturn, RunReturn, GetReturn,
                        FramesOK, PcOK
    <3>2. QED
      BY <3>1, GoToKeepsFrames, OpFacts DEF PC
  <2>3. QED
    BY <2>1, <2>2
<1>6. CASE ConnectionLost \/ UNCHANGED vars
  BY <1>6 DEF ConnectionLost, vars, FramesOK, OpOK, CallsOf, PcOK, NestOK
<1>7. QED
  BY <1>1, <1>2, <1>3, <1>4, <1>5, <1>6 DEF Next, Enter, Continue, Return

\* Where the calls under a run are the only conditional ones, each of them is
\* told of that run by both tests.
LEMMA RunSeen ==
    ASSUME Counted, FramesOK, CallsInRuns(uses), NEW f \in Frame, pc[f] \in {"check", "after"}
    PROVE  IsRunExecuting
<1>1. op[f] \in Conditional
  BY DEF FramesOK, PcOK
<1>2. f[2] = "up"
  BY <1>1, FrameFacts DEF FramesOK, OpOK, CallsInRuns
<1>3. /\ op[f] \in CallsOf(op[Outer(f)])
      /\ pc[Outer(f)] = "upcall" /\ Outer(f) \in Frame
  BY <1>2, FrameFacts DEF FramesOK, OpOK
<1>4. op[Outer(f)] \in uses.top[f[1]]
  BY <1>3, FrameFacts DEF FramesOK, OpOK
<1>5. op[Outer(f)] = "run"
  BY <1>1, <1>3, <1>4, FrameFacts, OpFacts DEF FramesOK, PcOK, CallsInRuns, CallsOf
<1>6. QED
  BY <1>3, <1>5, CountTells DEF RunStateCoherent, InRun

\* So only runs come to the lock, and each keeps it to its end.
LEMMA RunsHoldKept == Counted /\ FramesOK /\ RunsHold /\ [Next]_vars => RunsHold'
<1> SUFFICES ASSUME Counted, FramesOK, RunsHold, [Next]_vars, CallsInRuns(uses), uses' = uses
             PROVE  RunsHold'
  BY UsesStay DEF RunsHold
<1>0. /\ pc \in [Frame -> PC] /\ op \in [Frame -> Op \cup {"none"}]
      /\ \A f \in Frame :
           /\ op[f] = "run" /\ pc[f] \in {"call", "inside", "upcall", "unlock"} => lock = f
           /\ pc[f] \in {"acquire", "unlock"} => op[f] = "run"
  BY DEF Counted, RunsHold
<1> USE OpFacts DEF RunsHold, GoTo, Finish
<1>1. ASSUME NEW f \in Frame, NEW o \in Op,
             EnterConditional(f, o) \/ EnterChecked(f, o) \/ EnterUnchecked(f, o)
      PROVE  RunsHold'
  BY <1>0, <1>1 DEF EnterConditional, EnterChecked, EnterUnchecked
<1>2. ASSUME NEW f \in Frame, AcquireCheck(f) \/ ReleaseCheck(f) PROVE RunsHold'
  <2>1. op[f] \in Conditional /\ IsRunExecuting
    BY <1>2, RunSeen DEF AcquireCheck, ReleaseCheck, FramesOK, PcOK
  <2>2. QED
    BY <1>0, <1>2, <2>1 DEF AcquireCheck, ReleaseCheck
<1>3. ASSUME NEW f \in Frame, Acquire(f) \/ Release(f) PROVE RunsHold'
  BY <1>0, <1>3, FaceAssumption DEF Acquire, Release
<1>4. ASSUME NEW f \in Frame,
             \/ CallLocked(f) \/ OutputIsPending(f) \/ ProcessScheduled(f)
             \/ Connect(f) \/ Disconnect(f) \/ SetRunTimeout(f)
      PROVE  RunsHold'
  BY <1>0, <1>4 DEF CallLocked, OutputIsPending, ProcessScheduled, Connect, Disconnect,
                    SetRunTimeout
<1>5. ASSUME NEW f \in Frame,
             \/ RunEnter(f) \/ GetEnter(f) \/ Dispatch(f) \/ UpcallReturn(f)
             \/ RunReturn(f) \/ GetReturn(f)
      PROVE  RunsHold'
  BY <1>0, <1>5 DEF RunEnter, GetEnter, Dispatch, UpcallReturn, RunReturn, GetReturn,
                    Filters
<1>6. CASE ConnectionLost \/ UNCHANGED vars
  BY <1>0, <1>6 DEF ConnectionLost, vars
<1>7. QED
  BY <1>1, <1>2, <1>3, <1>4, <1>5, <1>6 DEF Next, Enter, Continue, Return

\* Where only upcalls of get come to run the face, no run is ever in progress.
LEMMA NoRunSeen ==
    ASSUME Counted, GetsHold, RunsInGets(uses)
    PROVE  ~IsRunExecuting
  BY CountTells DEF GetsHold, RunStateCoherent, InRun

\* So every call that got the lock has it until it gives it back.
LEMMA GetsHoldKept == Counted /\ FramesOK /\ GetsHold /\ [Next]_vars => GetsHold'
<1> SUFFICES ASSUME Counted, FramesOK, GetsHold, [Next]_vars, RunsInGets(uses), uses' = uses
             PROVE  GetsHold'
  BY UsesStay DEF GetsHold
<1>0. /\ pc \in [Frame -> PC] /\ op \in [Frame -> Op \cup {"none"}]
      /\ \A f \in Frame :
           /\ op[f] = "run" => pc[f] = "acquire"
           /\ op[f] \in Conditional /\ pc[f] \notin {"check", "acquire"} => lock = f
  BY DEF Counted, GetsHold
<1>9. ASSUME NEW f \in Frame, Acquire(f) PROVE f[2] = "main" /\ op[f] \in Conditional
  <2>1. op[f] \in Locking /\ lock = Free /\ pc[f] = "acquire"
    BY <1>9 DEF Acquire, FramesOK, PcOK
  <2>2. ASSUME f[2] = "up" PROVE FALSE
    <3>1. pc[Outer(f)] = "upcall" /\ Outer(f) \in Frame /\ op[Outer(f)] \in uses.top[f[1]]
      BY <2>1, <2>2, FrameFacts DEF FramesOK, OpOK
    <3>2. op[Outer(f)] \in Conditional
      BY <3>1, FrameFacts, OpFacts DEF FramesOK, PcOK, RunsInGets
    <3>3. lock = Outer(f)
      BY <1>0, <3>1, <3>2, OpFacts
    <3>4. QED
      BY <2>1, <3>1, <3>3, FaceAssumption
  <2>3. f[2] = "main"
    BY <2>2, FrameFacts
  <2>4. op[f] # "run"
    BY <2>1, <2>3, FrameFacts DEF FramesOK, OpOK, RunsInGets
  <2>5. QED
    BY <2>1, <2>3, <2>4, OpFacts
<1> USE OpFacts DEF GetsHold, GoTo, Finish
<1>1. ASSUME NEW f \in Frame, NEW o \in Op,
             EnterConditional(f, o) \/ EnterChecked(f, o) \/ EnterUnchecked(f, o)
      PROVE  GetsHold'
  BY <1>0, <1>1 DEF EnterConditional, EnterChecked, EnterUnchecked
<1>2. ASSUME NEW f \in Frame, AcquireCheck(f) \/ ReleaseCheck(f) PROVE GetsHold'
  BY <1>0, <1>2, NoRunSeen DEF AcquireCheck, ReleaseCheck, FramesOK, PcOK
<1>3. ASSUME NEW f \in Frame, Acquire(f) PROVE GetsHold'
  <2>1. op[f] # "run" /\ op' = op /\ lock' = f /\ pc' = [pc EXCEPT ![f] = "call"]
    BY <1>9, <1>3 DEF Acquire
  <2>2. \A g \in Frame : lock # g
    BY <1>3, FaceAssumption DEF Acquire
  <2>3. QED
    BY <1>0, <2>1, <2>2
<1>4. ASSUME NEW f \in Frame, Release(f) PROVE GetsHold'
  <2>1. op[f] \in Conditional
    BY <1>0, <1>4 DEF Release, FramesOK, PcOK
  <2>2. QED
    BY <1>0, <1>4, <2>1, FaceAssumption DEF Release
<1>5. ASSUME NEW f \in Frame,
             \/ CallLocked(f) \/ OutputIsPending(f) \/ ProcessScheduled(f)
             \/ Connect(f) \/ Disconnect(f) \/ SetRunTimeout(f)
      PROVE  GetsHold'
  BY <1>0, <1>5 DEF CallLocked, OutputIsPending, ProcessScheduled, Connect, Disconnect,
                    SetRunTimeout
<1>6. ASSUME NEW f \in Frame,
             \/ RunEnter(f) \/ GetEnter(f) \/ Dispatch(f) \/ UpcallReturn(f)
             \/ RunReturn(f) \/ GetReturn(f)
      PROVE  GetsHold'
  BY <1>0, <1>6 DEF RunEnter, GetEnter, Dispatch, UpcallReturn, RunReturn, GetReturn,
                    Filters
<1>7. CASE ConnectionLost \/ UNCHANGED vars
  BY <1>0, <1>7 DEF ConnectionLost, vars
<1>8. QED
  BY <1>1, <1>2, <1>3, <1>4, <1>5, <1>6, <1>7 DEF Next, Enter, Continue, Return

\* It holds while nobody has called the face.
LEMMA InitFreeInv == InitFor(Deployments) => FreeInv
  BY InitCounts, FrameFacts, OpFacts
     DEF InitFor, FreeInv, FramesOK, OpOK, PcOK, NestOK, RunsHold, GetsHold

\* At most one frame is in ndn_run.
LEMMA RunsAreApart == FreeInv /\ KeepsApart(uses) => RunsDoNotOverlap
<1> SUFFICES ASSUME FreeInv, KeepsApart(uses) PROVE RunsDoNotOverlap
  OBVIOUS
<1>1. ASSUME NEW h \in Frame, InRun(h)
      PROVE  /\ h[2] = "main" => "run" \in uses.top[h[1]]
             /\ h[2] = "up" => /\ "run" \in CallsOf(op[Outer(h)]) /\ op[Outer(h)] # "run"
                               /\ op[Outer(h)] \in uses.top[h[1]]
                               /\ op[Outer(h)] \in {"get", "process_scheduled"} \cup Filters
  BY <1>1, FrameFacts DEF InRun, FreeInv, FramesOK, OpOK, PcOK, NestOK
<1>2. ASSUME NEW f \in Frame, NEW g \in Frame, InRun(f), InRun(g)
      PROVE  f = g
  <2>1. CASE OneRunner(uses)
    <3>1. f[1] = g[1]
      BY <1>1, <1>2, <2>1, FrameFacts DEF OneRunner, CallsOf
    <3>2. f[2] = g[2]
      <4>1. ASSUME NEW h \in Frame, NEW k \in Frame, InRun(h), InRun(k),
                   h[1] = k[1], h[2] = "main", k[2] = "up"
            PROVE  FALSE
        <5>1. h = Outer(k)
          BY <4>1, FrameFacts
        <5>2. op[h] = "run" /\ op[Outer(k)] # "run"
          BY <1>1, <4>1 DEF InRun
        <5>3. QED
          BY <5>1, <5>2
      <4>2. QED
        BY <1>2, <3>1, <4>1, FrameFacts
    <3>3. QED
      BY <3>1, <3>2, FrameFacts
  <2>2. CASE CallsInRuns(uses)
    BY <1>2, <2>2 DEF FreeInv, RunsHold, InRun
  <2>3. CASE RunsInGets(uses)
    BY <1>2, <2>3 DEF FreeInv, GetsHold, InRun
  <2>4. QED
    BY <2>1, <2>2, <2>3 DEF KeepsApart
<1>3. CASE Runners = {}
  BY <1>3, FS_EmptySet DEF FreeInv, Counted, RunsDoNotOverlap
<1>4. ASSUME NEW h \in Runners PROVE RunsDoNotOverlap
  <2>1. Runners = {h}
    BY <1>2, <1>4 DEF Runners
  <2>2. Cardinality(Runners) = 1
    BY <2>1, FS_Singleton
  <2>3. QED
    BY <2>2 DEF FreeInv, Counted, RunsDoNotOverlap
<1>5. QED
  BY <1>3, <1>4

\* Where the frames, the nodes and the lock are, in any deployment.
THEOREM FreeInvariance == FreeSpec => []FreeInv
<1>1. FreeInv /\ [Next]_vars => FreeInv'
  BY StepCounts, FramesKept, RunsHoldKept, GetsHoldKept DEF FreeInv
<1>2. QED
  BY <1>1, InitFreeInv, PTL DEF FreeSpec

\* The assertion of Face.run, which is evaluated before the lock is taken, keeps
\* runs apart in every deployment that KeepsApart describes, disciplined or not
\* (Face.py:60-66).
THEOREM RunsStayApart == FreeSpec => [](KeepsApart(uses) => RunsDoNotOverlap)
<1>1. FreeInv => (KeepsApart(uses) => RunsDoNotOverlap)
  BY RunsAreApart
<1>2. QED
  BY <1>1, FreeInvariance, PTL

\* In the deployments in which either the runs or the gets own the lock, it is
\* given back by who took it (Face.py:37-47).
THEOREM OwnersRelease == FreeSpec => [](CallsInRuns(uses) \/ RunsInGets(uses) => ReleaseOwn)
<1>1. FreeInv => (CallsInRuns(uses) \/ RunsInGets(uses) => ReleaseOwn)
  <2> SUFFICES ASSUME FreeInv, CallsInRuns(uses) \/ RunsInGets(uses),
                      NEW f \in Frame, pc[f] = "unlock"
               PROVE  lock = f
    BY DEF ReleaseOwn
  <2>1. op[f] \in Locking
    BY DEF FreeInv, FramesOK, PcOK
  <2>2. CASE CallsInRuns(uses)
    BY <2>2 DEF FreeInv, RunsHold
  <2>3. CASE RunsInGets(uses)
    BY <2>1, <2>3, OpFacts DEF FreeInv, GetsHold
  <2>4. QED
    BY <2>2, <2>3
<1>2. QED
  BY <1>1, FreeInvariance, PTL
=============================================================================
