----------------------------- MODULE FaceProofs -----------------------------
(***************************************************************************)
(* The lock protocol of Face is sound for every set of threads and every    *)
(* disciplined deployment: the proofs of the safety properties of module    *)
(* Face, from one inductive invariant.                                      *)
(***************************************************************************)
EXTENDS Face, TLAPS

(***************************************************************************)
(* The inductive invariant.                                                 *)
(***************************************************************************)

\* The calls that take the lock, when they are made outside of a run.
Locking == Conditional \cup {"run"}

\* The points of a locking call at which it holds the lock.
Holding == {"call", "inside", "upcall", "after", "unlock"}

\* The deployment is one of the disciplined ones.
UsesOK == Discipline(uses)

\* A frame executes only methods the deployment lets it call, and an upcall's
\* frame only while its thread is in an upcall.
OpOK == \A f \in Frame :
    /\ pc[f] = "idle" <=> op[f] = "none"
    /\ pc[f] # "idle" /\ f[2] = "main" => op[f] \in uses.top[f[1]]
    /\ pc[f] # "idle" /\ f[2] = "up" =>
           op[f] \in CallsOf(op[Outer(f)]) /\ pc[Outer(f)] = "upcall"

\* Which methods can be at which point.
PcOK == \A f \in Frame :
    /\ pc[f] \in {"check", "after"} => op[f] \in Conditional
    /\ pc[f] \in {"acquire", "unlock"} => op[f] \in Locking
    /\ pc[f] = "inside" => op[f] \in {"run", "get"}
    /\ pc[f] = "upcall" =>
           f[2] = "main" /\ op[f] \in {"run", "get", "process_scheduled"} \cup Filters

\* The call is made outside of a run: by the thread itself, or by an upcall
\* that process_scheduled dispatches.
Alone(f) == f[2] = "main" \/ op[Outer(f)] = "process_scheduled"

\* The lock is held by exactly the locking call outside of a run that is past
\* acquire.
LockOK ==
    /\ \A f \in Frame : Alone(f) /\ op[f] \in Locking /\ pc[f] \in Holding => lock = f
    /\ \A f \in Frame : lock = f => Alone(f) /\ op[f] \in Locking /\ pc[f] \in Holding

\* A call made under a run never comes near the lock, and no upcall of a get,
\* or of a filter that is replaced or cleared, makes a call that might.
UpOK == \A f \in Frame : f[2] = "up" =>
    /\ pc[f] \in {"acquire", "unlock"} => Alone(f)
    /\ op[f] = "run" => Alone(f)
    /\ op[f] \in Conditional => op[Outer(f)] \in {"run", "process_scheduled"}

\* The run_state list has one node while a run is in progress, else none.
RunsOK == /\ (\E f \in Frame : InRun(f)) => runStates = 1
          /\ (\A f \in Frame : ~InRun(f)) => runStates = 0

IInv == TypeOK /\ UsesOK /\ OpOK /\ PcOK /\ LockOK /\ UpOK /\ RunsOK

-----------------------------------------------------------------------------
(***************************************************************************)
(* Frames and deployments.                                                  *)
(***************************************************************************)

\* The two frames of a thread, and how they are told apart.
LEMMA FrameFacts ==
    /\ \A f \in Frame : /\ f[1] \in Thread
                        /\ f[2] \in {"main", "up"}
                        /\ Outer(f) \in Frame /\ Inner(f) \in Frame
                        /\ Outer(f)[1] = f[1] /\ Outer(f)[2] = "main"
                        /\ Inner(f)[1] = f[1] /\ Inner(f)[2] = "up"
                        /\ Outer(Inner(f)) = Outer(f)
                        /\ f[2] = "main" => Outer(f) = f
    /\ \A f, g \in Frame : f[1] = g[1] /\ f[2] = g[2] => f = g
    /\ "none" \notin Op
  BY DEF Frame, Level, Outer, Inner, Op, Conditional, Locked, Checked, Unchecked

\* Which methods take the lock, and which do not.
LEMMA OpFacts ==
    /\ "none" \notin Op /\ "none" \notin Locking
    /\ "process_scheduled" \notin Locking /\ "output_is_pending" \notin Locking
    /\ Conditional \subseteq Op /\ Locked \subseteq Conditional
    /\ Filters \subseteq Locked
    /\ "run" \in Locking /\ "get" \in Conditional /\ "run" \in Op
    /\ "run" \notin Conditional /\ "run" \notin Checked /\ "run" \notin Unchecked
    /\ "get" \notin Locked
    /\ Conditional \subseteq Locking
    /\ \A o \in Checked \cup Unchecked : o \in Op /\ o \notin Locking /\ o # "get"
    /\ \A o \in Locking : o = "run" \/ o \in Conditional
    /\ {"connect", "disconnect", "setRunTimeout"} = Unchecked
  BY DEF Op, Conditional, Locked, Filters, Checked, Unchecked, Locking

\* In a disciplined deployment, a thread that runs the face or looks after its
\* timers, and a thread that makes a conditional call or looks after its
\* timers, are the same thread.
LEMMA RunnerIsCaller ==
    ASSUME NEW d \in Deployment, Discipline(d), NEW t \in Thread, NEW u \in Thread,
           NEW a \in {"run", "process_scheduled"}, a \in d.top[t],
           NEW b \in Conditional \cup {"process_scheduled"}, b \in d.top[u]
    PROVE  t = u
<1> DEFINE tt == Touches(d, t)
           uu == Touches(d, u)
<1>1. a \in tt /\ b \in uu
  BY DEF Touches, Conditional, Locked
<1>2. b # "run" /\ a \notin Conditional
  BY DEF Conditional, Locked
<1>3. CASE OneOwner(d)
  BY <1>1, <1>3 DEF OneOwner
<1>4. CASE RunnersOnly(d)
  BY <1>1, <1>2, <1>4 DEF RunnersOnly
<1>5. CASE CallersOnly(d)
  BY <1>1, <1>2, <1>5 DEF CallersOnly
<1>6. QED
  BY <1>3, <1>4, <1>5 DEF Discipline

\* A frame in ndn_run holds the lock, and its node is the only one.
LEMMA RunHolds ==
    ASSUME IInv, NEW f \in Frame, InRun(f)
    PROVE  Alone(f) /\ lock = f /\ runStates = 1
  BY FrameFacts DEF IInv, InRun, UpOK, Alone, LockOK, RunsOK, Locking, Holding

\* The main call of a frame that makes a call outside of a run: the call
\* itself, or process_scheduled in an upcall.
LEMMA AloneMain ==
    ASSUME IInv, NEW f \in Frame, Alone(f), pc[f] # "idle"
    PROVE  /\ op[Outer(f)] \in uses.top[f[1]]
           /\ f[2] = "main" => op[Outer(f)] = op[f] /\ pc[Outer(f)] = pc[f]
           /\ f[2] = "up" => op[Outer(f)] = "process_scheduled" /\ pc[Outer(f)] = "upcall"
<1>1. CASE f[2] = "main"
  BY <1>1, FrameFacts DEF IInv, OpOK
<1>2. CASE f[2] = "up"
  <2>1. op[Outer(f)] = "process_scheduled" /\ pc[Outer(f)] = "upcall"
    BY <1>2, FrameFacts DEF IInv, OpOK, Alone
  <2>2. op[Outer(f)] \in uses.top[f[1]]
    BY <2>1, FrameFacts DEF IInv, OpOK
  <2>3. QED
    BY <1>2, <2>1, <2>2
<1>3. QED
  BY <1>1, <1>2, FrameFacts

\* A call outside of a run that is about to ask is_run_executing gets the
\* answer "no".
LEMMA AloneSeesNoRun ==
    ASSUME IInv, NEW f \in Frame, Alone(f), pc[f] \in {"check", "after"}
    PROVE  ~IsRunExecuting
<1>1. op[f] \in Conditional
  BY DEF IInv, PcOK
<1>2. /\ op[Outer(f)] \in (Conditional \cup {"process_scheduled"}) \cap uses.top[f[1]]
      /\ pc[Outer(f)] \in {"check", "after"} \/ op[Outer(f)] = "process_scheduled"
  BY <1>1, AloneMain, FrameFacts
<1>3. ASSUME NEW g \in Frame, InRun(g) PROVE FALSE
  <2>1. /\ Alone(g) /\ pc[g] \in {"inside", "upcall"} /\ op[g] = "run"
        /\ op[Outer(g)] \in {"run", "process_scheduled"} \cap uses.top[g[1]]
    BY <1>3, RunHolds, AloneMain, FrameFacts DEF InRun
  <2>2. g[1] = f[1]
    BY <1>2, <2>1, RunnerIsCaller, FrameFacts DEF IInv, UsesOK, TypeOK
  <2>3. Outer(g) = Outer(f)
    BY <2>2, FrameFacts
  <2>4. CASE f[2] = "main"
    BY <1>1, <2>1, <2>3, <2>4, AloneMain, FrameFacts, OpFacts
  <2>5. CASE f[2] = "up"
    <3>1. op[Outer(g)] = "process_scheduled"
      BY <2>3, <2>5, AloneMain
    <3>2. g[2] = "up"
      BY <2>1, <3>1, AloneMain, FrameFacts
    <3>3. g = f
      BY <2>2, <2>5, <3>2, FrameFacts
    <3>4. QED
      BY <2>1, <3>3
  <2>6. QED
    BY <2>4, <2>5, FrameFacts
<1>4. QED
  BY <1>3 DEF IInv, RunsOK, IsRunExecuting

\* A call under a run that is about to ask is_run_executing gets the answer
\* "yes".
LEMMA UpSeesRun ==
    ASSUME IInv, NEW f \in Frame, ~Alone(f), pc[f] \in {"check", "after"}
    PROVE  IsRunExecuting
<1>1. op[f] \in Conditional /\ pc[Outer(f)] = "upcall" /\ op[Outer(f)] = "run"
  BY FrameFacts DEF IInv, PcOK, OpOK, UpOK, Alone
<1>2. InRun(Outer(f))
  BY <1>1 DEF InRun
<1>3. QED
  BY <1>2, FrameFacts, RunHolds DEF IsRunExecuting

\* An upcall makes a call that may take the lock only under a run or under
\* process_scheduled; under a run is_run_executing says so.
LEMMA UpcallUnderRun ==
    ASSUME IInv, NEW f \in Frame, NEW o \in Locking, f[2] = "up", MayCall(f, o)
    PROVE  /\ op[Outer(f)] \in {"run", "process_scheduled"}
           /\ IsRunExecuting \/ Alone(f)
<1>1. /\ pc[Outer(f)] = "upcall" /\ Outer(f) \in Frame /\ f[1] \in Thread
      /\ o \in CallsOf(op[Outer(f)])
  BY FrameFacts DEF MayCall
<1>2. /\ op[Outer(f)] \in {"run", "get", "process_scheduled"} \cup Filters
      /\ op[Outer(f)] \in uses.top[f[1]]
  BY <1>1, FrameFacts DEF IInv, PcOK, OpOK
<1>7. op[Outer(f)] \notin Filters
  BY <1>1, <1>2 DEF IInv, UsesOK, Discipline, FiltersOutsideRun, Locking, CallsOf
<1>3. op[Outer(f)] # "get"
  BY <1>1, <1>2, <1>7 DEF IInv, UsesOK, Discipline, GetsOutsideRun, Locking, CallsOf
<1>4. CASE op[Outer(f)] = "run"
  BY <1>1, <1>4, RunHolds DEF InRun, IsRunExecuting
<1>5. CASE op[Outer(f)] = "process_scheduled"
  BY <1>5 DEF Alone
<1>6. QED
  BY <1>2, <1>3, <1>4, <1>5, <1>7

-----------------------------------------------------------------------------
(***************************************************************************)
(* The invariant is inductive: one lemma per action.                        *)
(***************************************************************************)

\* The invariant holds in the initial states: nobody is in a call.
LEMMA InitInv == Init => IInv
<1> SUFFICES ASSUME Init PROVE IInv
  OBVIOUS
<1> USE DEF Init, InitFor
<1>1. TypeOK /\ UsesOK
  BY FaceAssumption DEF TypeOK, UsesOK, PC, Timeouts
<1>2. OpOK /\ PcOK /\ RunsOK
  BY DEF OpOK, PcOK, RunsOK, InRun
<1>3. LockOK /\ UpOK
  BY FaceAssumption, FrameFacts, OpFacts DEF LockOK, UpOK, Alone, Holding
<1>4. QED
  BY <1>1, <1>2, <1>3 DEF IInv

\* Beginning a conditional call keeps it: an upcall's call is made under a run
\* (Face.py:37-41).
LEMMA EnterConditionalInv ==
    ASSUME IInv, NEW f \in Frame, NEW o \in Op, EnterConditional(f, o)
    PROVE  IInv'
<1> USE FrameFacts, OpFacts DEF IInv, EnterConditional, GoTo, Finish, MayCall, CallsOf
<1>1. TypeOK'
  BY SMT DEF TypeOK, PC, Timeouts
<1>2. UsesOK'
  BY DEF UsesOK
<1>3. OpOK'
  BY UpcallUnderRun, SMT DEF OpOK, TypeOK, PcOK, UpOK, Alone
<1>4. PcOK'
  BY UpcallUnderRun, SMT DEF TypeOK, PcOK
<1>5. LockOK'
  BY UpcallUnderRun, SMT DEF TypeOK, OpOK, PcOK, LockOK, UpOK, Alone, Holding
<1>6. UpOK'
  BY UpcallUnderRun, SMT DEF TypeOK, PcOK, UpOK, Alone, OpOK
<1>7. RunsOK'
  BY UpcallUnderRun, SMT DEF TypeOK, PcOK, RunsOK, InRun
<1>8. QED
  BY <1>1, <1>2, <1>3, <1>4, <1>5, <1>6, <1>7

\* Beginning run, process_scheduled or output_is_pending keeps it: no upcall of a
\* run gets past the assertion (Face.py:52-61).
LEMMA EnterCheckedInv ==
    ASSUME IInv, NEW f \in Frame, NEW o \in Op, EnterChecked(f, o)
    PROVE  IInv'
<1> USE FrameFacts, OpFacts DEF IInv, EnterChecked, GoTo, Finish, MayCall, CallsOf
<1>1. TypeOK'
  BY SMT DEF TypeOK, PC, Timeouts
<1>2. UsesOK'
  BY DEF UsesOK
<1>3. OpOK'
  BY UpcallUnderRun, SMT DEF OpOK, TypeOK, PcOK, UpOK, Alone
<1>4. PcOK'
  BY UpcallUnderRun, SMT DEF TypeOK, PcOK
<1>5. LockOK'
  BY UpcallUnderRun, SMT DEF TypeOK, OpOK, PcOK, LockOK, UpOK, Alone, Holding
<1>6. UpOK'
  BY UpcallUnderRun, SMT DEF TypeOK, PcOK, UpOK, Alone, OpOK
<1>7. RunsOK'
  BY UpcallUnderRun, SMT DEF TypeOK, PcOK, RunsOK, InRun
<1>8. QED
  BY <1>1, <1>2, <1>3, <1>4, <1>5, <1>6, <1>7

\* Beginning connect, disconnect or setRunTimeout keeps it (Face.py:28-32, 68-69).
LEMMA EnterUncheckedInv ==
    ASSUME IInv, NEW f \in Frame, NEW o \in Op, EnterUnchecked(f, o)
    PROVE  IInv'
<1> USE FrameFacts, OpFacts DEF IInv, EnterUnchecked, GoTo, Finish, MayCall, CallsOf
<1>1. TypeOK'
  BY SMT DEF TypeOK, PC, Timeouts
<1>2. UsesOK'
  BY DEF UsesOK
<1>3. OpOK'
  BY SMT DEF OpOK, TypeOK, PcOK, UpOK, Alone
<1>4. PcOK'
  BY SMT DEF TypeOK, PcOK
<1>5. LockOK'
  BY SMT DEF TypeOK, OpOK, PcOK, LockOK, UpOK, Alone, Holding
<1>6. UpOK'
  BY SMT DEF TypeOK, PcOK, UpOK, Alone, OpOK
<1>7. RunsOK'
  BY SMT DEF TypeOK, PcOK, RunsOK, InRun
<1>8. QED
  BY <1>1, <1>2, <1>3, <1>4, <1>5, <1>6, <1>7

\* The first test keeps it: a main call is told "no run" and goes to the lock, an
\* upcall's call is told "run" and goes past it (Face.py:37-41).
LEMMA AcquireCheckInv ==
    ASSUME IInv, NEW f \in Frame, AcquireCheck(f)
    PROVE  IInv'
<1> USE FrameFacts, OpFacts DEF IInv, AcquireCheck, GoTo, Finish, MayCall, CallsOf
<1>1. TypeOK'
  BY SMT DEF TypeOK, PC, Timeouts
<1>2. UsesOK'
  BY DEF UsesOK
<1>3. OpOK'
  BY AloneSeesNoRun, UpSeesRun, SMT DEF OpOK, TypeOK, PcOK, UpOK, Alone
<1>4. PcOK'
  BY AloneSeesNoRun, UpSeesRun, SMT DEF TypeOK, PcOK
<1>5. LockOK'
  BY AloneSeesNoRun, UpSeesRun, SMT DEF TypeOK, OpOK, PcOK, LockOK, UpOK, Alone, Holding
<1>6. UpOK'
  BY AloneSeesNoRun, UpSeesRun, SMT DEF TypeOK, PcOK, UpOK, Alone, OpOK
<1>7. RunsOK'
  BY AloneSeesNoRun, UpSeesRun, SMT DEF TypeOK, PcOK, RunsOK, InRun
<1>8. QED
  BY <1>1, <1>2, <1>3, <1>4, <1>5, <1>6, <1>7

\* Taking the lock keeps it: the lock was free, so no other call holds it.
LEMMA AcquireInv ==
    ASSUME IInv, NEW f \in Frame, Acquire(f)
    PROVE  IInv'
<1> USE FrameFacts, OpFacts DEF IInv, Acquire, GoTo, Finish, MayCall, CallsOf
<1>1. TypeOK'
  BY SMT DEF TypeOK, PC, Timeouts
<1>2. UsesOK'
  BY DEF UsesOK
<1>3. OpOK'
  BY SMT DEF OpOK, TypeOK, PcOK, UpOK, Alone
<1>4. PcOK'
  BY SMT DEF TypeOK, PcOK
<1>5. LockOK'
  BY FaceAssumption, SMT DEF TypeOK, OpOK, PcOK, LockOK, UpOK, Alone, Holding
<1>6. UpOK'
  BY SMT DEF TypeOK, PcOK, UpOK, Alone, OpOK
<1>7. RunsOK'
  BY SMT DEF TypeOK, PcOK, RunsOK, InRun
<1>8. QED
  BY <1>1, <1>2, <1>3, <1>4, <1>5, <1>6, <1>7

\* A C call made with the interpreter lock keeps it, with and without the FINAL
\* upcall of a filter (methods_handle.c:403-593, 681-726).
LEMMA CallLockedInv ==
    ASSUME IInv, NEW f \in Frame, CallLocked(f)
    PROVE  IInv'
<1> USE FrameFacts, OpFacts DEF IInv, CallLocked, GoTo, Finish, MayCall, CallsOf
<1>1. TypeOK'
  BY SMT DEF TypeOK, PC, Timeouts
<1>2. UsesOK'
  BY DEF UsesOK
<1>3. OpOK'
  BY SMT DEF OpOK, TypeOK, PcOK, UpOK, Alone
<1>4. PcOK'
  BY SMT DEF TypeOK, PcOK
<1>5. LockOK'
  BY SMT DEF TypeOK, OpOK, PcOK, LockOK, UpOK, Alone, Holding
<1>6. UpOK'
  BY SMT DEF TypeOK, PcOK, UpOK, Alone, OpOK
<1>7. RunsOK'
  BY SMT DEF TypeOK, PcOK, RunsOK, InRun
<1>8. QED
  BY <1>1, <1>2, <1>3, <1>4, <1>5, <1>6, <1>7

\* output_is_pending keeps it (methods_handle.c:320-336).
LEMMA OutputIsPendingInv ==
    ASSUME IInv, NEW f \in Frame, OutputIsPending(f)
    PROVE  IInv'
<1> USE FrameFacts, OpFacts DEF IInv, OutputIsPending, GoTo, Finish, MayCall, CallsOf
<1>1. TypeOK'
  BY SMT DEF TypeOK, PC, Timeouts
<1>2. UsesOK'
  BY DEF UsesOK
<1>3. OpOK'
  BY SMT DEF OpOK, TypeOK, PcOK, UpOK, Alone
<1>4. PcOK'
  BY SMT DEF TypeOK, PcOK
<1>5. LockOK'
  <2>1. f[2] = "up" \/ pc[Inner(f)] = "idle"
    BY DEF OpOK
  <2>2. \A g \in Frame : op[g] \in Locking \/ op'[g] \in Locking
            => /\ op'[g] = op[g] /\ pc'[g] = pc[g]
               /\ g[2] = "main" \/ op'[Outer(g)] = op[Outer(g)]
    BY <2>1, SMT DEF TypeOK, OpOK
  <2>3. QED
    BY <2>2, SMT DEF LockOK, Alone, TypeOK, OpOK
<1>6. UpOK'
  BY SMT DEF TypeOK, PcOK, UpOK, Alone, OpOK
<1>7. RunsOK'
  BY SMT DEF TypeOK, PcOK, RunsOK, InRun
<1>8. QED
  BY <1>1, <1>2, <1>3, <1>4, <1>5, <1>6, <1>7

\* process_scheduled keeps it: there is no lock in play (methods_handle.c:306-318).
LEMMA ProcessScheduledInv ==
    ASSUME IInv, NEW f \in Frame, ProcessScheduled(f)
    PROVE  IInv'
<1> USE FrameFacts, OpFacts DEF IInv, ProcessScheduled, GoTo, Finish, MayCall, CallsOf
<1>1. TypeOK'
  BY SMT DEF TypeOK, PC, Timeouts
<1>2. UsesOK'
  BY DEF UsesOK
<1>3. OpOK'
  BY SMT DEF OpOK, TypeOK, PcOK, UpOK, Alone
<1>4. PcOK'
  BY SMT DEF TypeOK, PcOK
<1>5. LockOK'
  BY SMT DEF TypeOK, OpOK, PcOK, LockOK, UpOK, Alone, Holding
<1>6. UpOK'
  BY SMT DEF TypeOK, PcOK, UpOK, Alone, OpOK
<1>7. RunsOK'
  BY SMT DEF TypeOK, PcOK, RunsOK, InRun
<1>8. QED
  BY <1>1, <1>2, <1>3, <1>4, <1>5, <1>6, <1>7

\* connect keeps it (methods_handle.c:217-237).
LEMMA ConnectInv ==
    ASSUME IInv, NEW f \in Frame, Connect(f)
    PROVE  IInv'
<1> USE FrameFacts, OpFacts DEF IInv, Connect, GoTo, Finish, MayCall, CallsOf
<1>1. TypeOK'
  <2>1. connected' \in BOOLEAN
    BY Zenon DEF TypeOK
  <2>2. /\ uses' \in Deployment /\ pc' \in [Frame -> PC] /\ runStates' \in Nat
        /\ op' \in [Frame -> Op \cup {"none"}] /\ lock' \in Frame \cup {Free}
        /\ runTimeout' \in Timeouts
    BY SMT DEF TypeOK, PC
  <2>3. QED
    BY <2>1, <2>2 DEF TypeOK
<1>2. UsesOK'
  BY DEF UsesOK
<1>3. OpOK'
  BY SMT DEF OpOK, TypeOK, PcOK, UpOK, Alone
<1>4. PcOK'
  BY SMT DEF TypeOK, PcOK
<1>5. LockOK'
  BY SMT DEF TypeOK, OpOK, PcOK, LockOK, UpOK, Alone, Holding
<1>6. UpOK'
  BY SMT DEF TypeOK, PcOK, UpOK, Alone, OpOK
<1>7. RunsOK'
  BY SMT DEF TypeOK, PcOK, RunsOK, InRun
<1>8. QED
  BY <1>1, <1>2, <1>3, <1>4, <1>5, <1>6, <1>7

\* disconnect keeps it (methods_handle.c:243-263).
LEMMA DisconnectInv ==
    ASSUME IInv, NEW f \in Frame, Disconnect(f)
    PROVE  IInv'
<1> USE FrameFacts, OpFacts DEF IInv, Disconnect, GoTo, Finish, MayCall, CallsOf
<1>1. TypeOK'
  <2>1. connected' \in BOOLEAN
    BY Zenon DEF TypeOK
  <2>2. /\ uses' \in Deployment /\ pc' \in [Frame -> PC] /\ runStates' \in Nat
        /\ op' \in [Frame -> Op \cup {"none"}] /\ lock' \in Frame \cup {Free}
        /\ runTimeout' \in Timeouts
    BY SMT DEF TypeOK, PC
  <2>3. QED
    BY <2>1, <2>2 DEF TypeOK
<1>2. UsesOK'
  BY DEF UsesOK
<1>3. OpOK'
  BY SMT DEF OpOK, TypeOK, PcOK, UpOK, Alone
<1>4. PcOK'
  BY SMT DEF TypeOK, PcOK
<1>5. LockOK'
  BY SMT DEF TypeOK, OpOK, PcOK, LockOK, UpOK, Alone, Holding
<1>6. UpOK'
  BY SMT DEF TypeOK, PcOK, UpOK, Alone, OpOK
<1>7. RunsOK'
  BY SMT DEF TypeOK, PcOK, RunsOK, InRun
<1>8. QED
  BY <1>1, <1>2, <1>3, <1>4, <1>5, <1>6, <1>7

\* setRunTimeout keeps it, from whichever thread it comes (Face.py:68-69).
LEMMA SetRunTimeoutInv ==
    ASSUME IInv, NEW f \in Frame, SetRunTimeout(f)
    PROVE  IInv'
<1> USE FrameFacts, OpFacts DEF IInv, SetRunTimeout, GoTo, Finish, MayCall, CallsOf
<1>1. TypeOK'
  BY SMT DEF TypeOK, PC, Timeouts
<1>2. UsesOK'
  BY DEF UsesOK
<1>3. OpOK'
  BY SMT DEF OpOK, TypeOK, PcOK, UpOK, Alone
<1>4. PcOK'
  BY SMT DEF TypeOK, PcOK
<1>5. LockOK'
  BY SMT DEF TypeOK, OpOK, PcOK, LockOK, UpOK, Alone, Holding
<1>6. UpOK'
  BY SMT DEF TypeOK, PcOK, UpOK, Alone, OpOK
<1>7. RunsOK'
  BY SMT DEF TypeOK, PcOK, RunsOK, InRun
<1>8. QED
  BY <1>1, <1>2, <1>3, <1>4, <1>5, <1>6, <1>7

\* Entering ndn_run keeps it: the call holds the lock, so there is no other run
\* and the new node is the only one (methods_handle.c:338-360).
LEMMA RunEnterInv ==
    ASSUME IInv, NEW f \in Frame, RunEnter(f)
    PROVE  IInv'
<1> USE FrameFacts, OpFacts DEF IInv, RunEnter, GoTo, Finish, MayCall, CallsOf
<1>1. TypeOK'
  BY SMT DEF TypeOK, PC, Timeouts
<1>2. UsesOK'
  BY DEF UsesOK
<1>3. OpOK'
  BY RunHolds, SMT DEF OpOK, TypeOK, PcOK, UpOK, Alone
<1>4. PcOK'
  BY RunHolds, SMT DEF TypeOK, PcOK
<1>5. LockOK'
  BY RunHolds, SMT DEF TypeOK, OpOK, PcOK, LockOK, UpOK, Alone, Holding
<1>6. UpOK'
  BY RunHolds, SMT DEF TypeOK, PcOK, UpOK, Alone, OpOK
<1>7. RunsOK'
  <2>1. Alone(f) /\ lock = f
    BY DEF UpOK, Alone, LockOK, Holding
  <2>2. \A g \in Frame : ~InRun(g)
    BY <2>1, RunHolds DEF InRun
  <2>3. runStates' = 1 /\ InRun(f)'
    BY <2>2 DEF RunsOK, InRun, TypeOK
  <2>4. QED
    BY <2>3 DEF RunsOK
<1>8. QED
  BY <1>1, <1>2, <1>3, <1>4, <1>5, <1>6, <1>7

\* Entering ndn_get keeps it (methods_handle.c:597-650).
LEMMA GetEnterInv ==
    ASSUME IInv, NEW f \in Frame, GetEnter(f)
    PROVE  IInv'
<1> USE FrameFacts, OpFacts DEF IInv, GetEnter, GoTo, Finish, MayCall, CallsOf
<1>1. TypeOK'
  BY SMT DEF TypeOK, PC, Timeouts
<1>2. UsesOK'
  BY DEF UsesOK
<1>3. OpOK'
  BY SMT DEF OpOK, TypeOK, PcOK, UpOK, Alone
<1>4. PcOK'
  BY SMT DEF TypeOK, PcOK
<1>5. LockOK'
  BY SMT DEF TypeOK, OpOK, PcOK, LockOK, UpOK, Alone, Holding
<1>6. UpOK'
  BY SMT DEF TypeOK, PcOK, UpOK, Alone, OpOK
<1>7. RunsOK'
  BY SMT DEF TypeOK, PcOK, RunsOK, InRun
<1>8. QED
  BY <1>1, <1>2, <1>3, <1>4, <1>5, <1>6, <1>7

\* The beginning of an upcall keeps it (methods_handle.c:105-140).
LEMMA DispatchInv ==
    ASSUME IInv, NEW f \in Frame, Dispatch(f)
    PROVE  IInv'
<1> USE FrameFacts, OpFacts DEF IInv, Dispatch, GoTo, Finish, MayCall, CallsOf
<1>1. TypeOK'
  BY SMT DEF TypeOK, PC, Timeouts
<1>2. UsesOK'
  BY DEF UsesOK
<1>3. OpOK'
  BY SMT DEF OpOK, TypeOK, PcOK, UpOK, Alone
<1>4. PcOK'
  BY SMT DEF TypeOK, PcOK
<1>5. LockOK'
  BY SMT DEF TypeOK, OpOK, PcOK, LockOK, UpOK, Alone, Holding
<1>6. UpOK'
  BY SMT DEF TypeOK, PcOK, UpOK, Alone, OpOK
<1>7. RunsOK'
  BY SMT DEF TypeOK, PcOK, RunsOK, InRun
<1>8. QED
  BY <1>1, <1>2, <1>3, <1>4, <1>5, <1>6, <1>7

\* The end of an upcall keeps it: its own call has ended (methods_handle.c:140-167).
LEMMA UpcallReturnInv ==
    ASSUME IInv, NEW f \in Frame, UpcallReturn(f)
    PROVE  IInv'
<1> USE FrameFacts, OpFacts DEF IInv, UpcallReturn, GoTo, Finish, MayCall, CallsOf
<1>1. TypeOK'
  BY SMT DEF TypeOK, PC, Timeouts
<1>2. UsesOK'
  BY DEF UsesOK
<1>3. OpOK'
  BY SMT DEF OpOK, TypeOK, PcOK, UpOK, Alone
<1>4. PcOK'
  BY SMT DEF TypeOK, PcOK
<1>5. LockOK'
  <2>1. pc[Inner(f)] = "idle" /\ f[2] = "main" /\ op[f] # "none"
    BY DEF OpOK, PcOK
  <2>2. CASE op[f] = "process_scheduled"
    <3>1. \A g \in Frame : op[g] \in Locking \/ op'[g] \in Locking
              => /\ op'[g] = op[g] /\ pc'[g] = pc[g]
                 /\ g[2] = "main" \/ op'[Outer(g)] = op[Outer(g)]
      BY <2>1, <2>2, SMT DEF TypeOK, OpOK, Filters
    <3>2. QED
      BY <3>1, <2>2, SMT DEF LockOK, Alone, TypeOK, OpOK, Filters
  <2>3. CASE op[f] # "process_scheduled"
    BY <2>3, SMT DEF TypeOK, OpOK, PcOK, LockOK, UpOK, Alone, Holding
  <2>4. QED
    BY <2>2, <2>3
<1>6. UpOK'
  BY SMT DEF TypeOK, PcOK, UpOK, Alone, OpOK
<1>7. RunsOK'
  BY SMT DEF TypeOK, PcOK, RunsOK, InRun
<1>8. QED
  BY <1>1, <1>2, <1>3, <1>4, <1>5, <1>6, <1>7

\* Leaving ndn_run keeps it: the node that goes is the only one
\* (methods_handle.c:360-379).
LEMMA RunReturnInv ==
    ASSUME IInv, NEW f \in Frame, RunReturn(f)
    PROVE  IInv'
<1> USE FrameFacts, OpFacts DEF IInv, RunReturn, GoTo, Finish, MayCall, CallsOf
<1>1. TypeOK'
  BY RunHolds, SMT DEF TypeOK, PC, Timeouts, InRun
<1>2. UsesOK'
  BY DEF UsesOK
<1>3. OpOK'
  BY RunHolds, SMT DEF OpOK, TypeOK, PcOK, UpOK, Alone
<1>4. PcOK'
  BY RunHolds, SMT DEF TypeOK, PcOK
<1>5. LockOK'
  BY RunHolds, SMT DEF TypeOK, OpOK, PcOK, LockOK, UpOK, Alone, Holding
<1>6. UpOK'
  BY RunHolds, SMT DEF TypeOK, PcOK, UpOK, Alone, OpOK
<1>7. RunsOK'
  BY RunHolds, SMT DEF TypeOK, PcOK, RunsOK, InRun
<1>8. QED
  BY <1>1, <1>2, <1>3, <1>4, <1>5, <1>6, <1>7

\* Leaving ndn_get keeps it (methods_handle.c:650-679).
LEMMA GetReturnInv ==
    ASSUME IInv, NEW f \in Frame, GetReturn(f)
    PROVE  IInv'
<1> USE FrameFacts, OpFacts DEF IInv, GetReturn, GoTo, Finish, MayCall, CallsOf
<1>1. TypeOK'
  BY SMT DEF TypeOK, PC, Timeouts
<1>2. UsesOK'
  BY DEF UsesOK
<1>3. OpOK'
  BY SMT DEF OpOK, TypeOK, PcOK, UpOK, Alone
<1>4. PcOK'
  BY SMT DEF TypeOK, PcOK
<1>5. LockOK'
  BY SMT DEF TypeOK, OpOK, PcOK, LockOK, UpOK, Alone, Holding
<1>6. UpOK'
  BY SMT DEF TypeOK, PcOK, UpOK, Alone, OpOK
<1>7. RunsOK'
  BY SMT DEF TypeOK, PcOK, RunsOK, InRun
<1>8. QED
  BY <1>1, <1>2, <1>3, <1>4, <1>5, <1>6, <1>7

\* The second test keeps it: it gives the answer the first one gave
\* (Face.py:43-47).
LEMMA ReleaseCheckInv ==
    ASSUME IInv, NEW f \in Frame, ReleaseCheck(f)
    PROVE  IInv'
<1> USE FrameFacts, OpFacts DEF IInv, ReleaseCheck, GoTo, Finish, MayCall, CallsOf
<1>1. TypeOK'
  BY SMT DEF TypeOK, PC, Timeouts
<1>2. UsesOK'
  BY DEF UsesOK
<1>3. OpOK'
  BY AloneSeesNoRun, UpSeesRun, SMT DEF OpOK, TypeOK, PcOK, UpOK, Alone
<1>4. PcOK'
  BY AloneSeesNoRun, UpSeesRun, SMT DEF TypeOK, PcOK
<1>5. LockOK'
  BY AloneSeesNoRun, UpSeesRun, SMT DEF TypeOK, OpOK, PcOK, LockOK, UpOK, Alone, Holding
<1>6. UpOK'
  BY AloneSeesNoRun, UpSeesRun, SMT DEF TypeOK, PcOK, UpOK, Alone, OpOK
<1>7. RunsOK'
  BY AloneSeesNoRun, UpSeesRun, SMT DEF TypeOK, PcOK, RunsOK, InRun
<1>8. QED
  BY <1>1, <1>2, <1>3, <1>4, <1>5, <1>6, <1>7

\* Giving the lock back keeps it: the caller held it.
LEMMA ReleaseInv ==
    ASSUME IInv, NEW f \in Frame, Release(f)
    PROVE  IInv'
<1> USE FrameFacts, OpFacts DEF IInv, Release, GoTo, Finish, MayCall, CallsOf
<1>1. TypeOK'
  BY SMT DEF TypeOK, PC, Timeouts
<1>2. UsesOK'
  BY DEF UsesOK
<1>3. OpOK'
  BY SMT DEF OpOK, TypeOK, PcOK, UpOK, Alone
<1>4. PcOK'
  BY SMT DEF TypeOK, PcOK
<1>5. LockOK'
  BY FaceAssumption, SMT DEF TypeOK, OpOK, PcOK, LockOK, UpOK, Alone, Holding
<1>6. UpOK'
  BY SMT DEF TypeOK, PcOK, UpOK, Alone, OpOK
<1>7. RunsOK'
  BY SMT DEF TypeOK, PcOK, RunsOK, InRun
<1>8. QED
  BY <1>1, <1>2, <1>3, <1>4, <1>5, <1>6, <1>7

\* The invariant does not mention the connection.
LEMMA ConnectionLostInv ==
    ASSUME IInv, ConnectionLost
    PROVE  IInv'
<1> USE DEF IInv, ConnectionLost
<1>1. TypeOK' /\ UsesOK'
  BY DEF TypeOK, UsesOK
<1>2. OpOK' /\ PcOK' /\ LockOK' /\ UpOK' /\ RunsOK'
  BY DEF OpOK, CallsOf, PcOK, LockOK, UpOK, Alone, RunsOK, InRun
<1>3. QED
  BY <1>1, <1>2

\* Every step of the Face preserves the invariant.
LEMMA StepInv == IInv /\ [Next]_vars => IInv'
<1> SUFFICES ASSUME IInv, [Next]_vars PROVE IInv'
  OBVIOUS
<1>1. ASSUME NEW f \in Frame, Enter(f) PROVE IInv'
  BY <1>1, EnterConditionalInv, EnterCheckedInv, EnterUncheckedInv DEF Enter
<1>2. ASSUME NEW f \in Frame, Continue(f) PROVE IInv'
  BY <1>2, AcquireCheckInv, AcquireInv, CallLockedInv, OutputIsPendingInv,
     ProcessScheduledInv, ConnectInv, DisconnectInv, SetRunTimeoutInv, RunEnterInv, GetEnterInv, ReleaseCheckInv,
     ReleaseInv DEF Continue
<1>3. ASSUME NEW f \in Frame, Return(f) PROVE IInv'
  BY <1>3, RunReturnInv, GetReturnInv DEF Return
<1>4. CASE UNCHANGED vars
  BY <1>4 DEF vars, IInv, TypeOK, UsesOK, OpOK, CallsOf, PcOK, LockOK, UpOK, Alone, RunsOK, InRun
<1>5. QED
  BY <1>1, <1>2, <1>3, <1>4, DispatchInv, UpcallReturnInv, ConnectionLostInv DEF Next

-----------------------------------------------------------------------------
(***************************************************************************)
(* The theorems.                                                            *)
(***************************************************************************)

\* The inductive invariant holds in every execution.
THEOREM Invariance == Spec => []IInv
  BY InitInv, StepInv, PTL DEF Spec

\* Type correctness of the state of a Face (Face.py, util.c:119-174): in
\* particular run_state_clear never runs on a list without its node.
THEOREM TypeCorrect == Spec => []TypeOK
<1>1. IInv => TypeOK
  BY DEF IInv
<1>2. QED
  BY <1>1, Invariance, PTL

\* A frame that uses the handle belongs to a main call that uses it too.
LEMMA OuterUses ==
    ASSUME IInv, NEW f \in Frame, Using(f)
    PROVE  \E m \in Frame : /\ m[1] = f[1] /\ m[2] = "main" /\ Using(m)
                            /\ op[m] \in uses.top[m[1]]
<1>1. CASE f[2] = "main"
  BY <1>1 DEF IInv, OpOK, Using
<1>2. CASE f[2] = "up"
  <2>1. pc[Outer(f)] = "upcall" /\ Outer(f) \in Frame
    BY <1>2, FrameFacts DEF IInv, OpOK, Using
  <2>2. /\ op[Outer(f)] \in {"run", "get", "process_scheduled"} \cup Filters
        /\ op[Outer(f)] \in uses.top[f[1]]
    BY <2>1, FrameFacts DEF IInv, OpOK, PcOK
  <2>3. op[Outer(f)] # "setRunTimeout"
    BY <2>2 DEF Filters
  <2>4. QED
    BY <2>1, <2>2, <2>3, FrameFacts DEF Using
<1>3. QED
  BY <1>1, <1>2, FrameFacts

\* Whichever of its three forms the discipline takes, two threads never use
\* the handle at once.
LEMMA ExclusiveFromInv == IInv => ExclusiveAccess
<1> SUFFICES ASSUME IInv, NEW f0 \in Frame, NEW g0 \in Frame, Using(f0), Using(g0),
                    f0[1] # g0[1]
             PROVE  FALSE
  BY DEF ExclusiveAccess
<1>1. PICK f \in Frame : /\ f[1] = f0[1] /\ f[2] = "main" /\ Using(f)
                         /\ op[f] \in uses.top[f[1]]
  BY OuterUses
<1>2. PICK g \in Frame : /\ g[1] = g0[1] /\ g[2] = "main" /\ Using(g)
                         /\ op[g] \in uses.top[g[1]]
  BY OuterUses
<1>3. f[1] # g[1] /\ f[1] \in Thread /\ g[1] \in Thread
  BY <1>1, <1>2, FrameFacts
<1>4. op[f] \in Touches(uses, f[1]) /\ op[g] \in Touches(uses, g[1])
  BY <1>1, <1>2 DEF Touches, Using
<1>5. CASE OneOwner(uses)
  BY <1>3, <1>4, <1>5 DEF OneOwner
<1>6. ASSUME op[f] \in Locking, op[g] \in Locking PROVE FALSE
  BY <1>1, <1>2, <1>3, <1>6 DEF IInv, LockOK, Alone, Holding, Using
<1>7. CASE RunnersOnly(uses)
  BY <1>3, <1>4, <1>6, <1>7 DEF RunnersOnly, Locking
<1>8. CASE CallersOnly(uses)
  BY <1>3, <1>4, <1>6, <1>8 DEF CallersOnly, Locking
<1>9. QED
  BY <1>5, <1>7, <1>8 DEF IInv, UsesOK, Discipline

\* For any number of threads and any disciplined deployment, the handle is
\* used by one thread at a time (Face.py:37-141).
THEOREM Exclusion == Spec => []ExclusiveAccess
  BY Invariance, ExclusiveFromInv, PTL

\* No call gives back a lock it did not take, and no run overlaps another;
\* the list of running handles tells the truth (Face.py:43-66, util.c:119-174).
LEMMA LockingFromInv ==
    IInv => ReleaseOwn /\ NoSelfDeadlock /\ RunStateCoherent /\ RunsDoNotOverlap
<1> SUFFICES ASSUME IInv
             PROVE  ReleaseOwn /\ NoSelfDeadlock /\ RunStateCoherent /\ RunsDoNotOverlap
  OBVIOUS
<1> USE FrameFacts DEF IInv
<1>1. ReleaseOwn
  BY DEF ReleaseOwn, LockOK, UpOK, PcOK, Alone, Holding
<1>2. NoSelfDeadlock
  <2> SUFFICES ASSUME NEW f \in Frame, NEW g \in Frame, pc[f] = "acquire", lock = g,
                      f[1] = g[1]
               PROVE  FALSE
    BY DEF NoSelfDeadlock
  <2>1. /\ Alone(f) /\ op[f] \in Locking
        /\ Alone(g) /\ op[g] \in Locking /\ pc[g] \in Holding
    BY DEF LockOK, UpOK, PcOK, Alone
  <2>2. f # g /\ f[2] # g[2]
    BY <2>1 DEF Holding
  <2>3. Outer(f) = g \/ Outer(g) = f
    BY <2>2
  <2>4. QED
    BY <2>1, <2>2, <2>3, OpFacts DEF Alone
<1>3. RunStateCoherent /\ RunsDoNotOverlap
  BY DEF RunStateCoherent, RunsDoNotOverlap, RunsOK, IsRunExecuting
<1>4. QED
  BY <1>1, <1>2, <1>3

\* release() is called only by the call that holds the lock (Face.py:43-47).
THEOREM ReleasesOwnLock == Spec => []ReleaseOwn
  BY Invariance, LockingFromInv, PTL

\* No call waits for a lock that its own thread holds (Face.py:37-41, 62).
THEOREM NoSelfDeadlocks == Spec => []NoSelfDeadlock
  BY Invariance, LockingFromInv, PTL

\* is_run_executing answers truthfully, and the assertion of Face.run is true
\* when ndn_run is entered as well as when it is evaluated (Face.py:61).
THEOREM RunStates == Spec => [](RunStateCoherent /\ RunsDoNotOverlap)
  BY Invariance, LockingFromInv, PTL

-----------------------------------------------------------------------------
(***************************************************************************)
(* Face implements HandleAccess.                                            *)
(***************************************************************************)

\* A step moves one frame.
LEMMA OneFrameMoves ==
    ASSUME TypeOK, Next
    PROVE  \E f \in Frame : \A g \in Frame : g # f => pc'[g] = pc[g] /\ op'[g] = op[g]
<1> USE DEF TypeOK, GoTo, Finish
<1>1. ASSUME NEW f \in Frame, Enter(f) \/ Continue(f) \/ Dispatch(f) \/ UpcallReturn(f) \/ Return(f)
      PROVE  \A g \in Frame : g # f => pc'[g] = pc[g] /\ op'[g] = op[g]
  <2>1. CASE Enter(f)
    BY <2>1 DEF Enter, EnterConditional, EnterChecked, EnterUnchecked
  <2>2. CASE Continue(f)
    BY <2>2 DEF Continue, AcquireCheck, Acquire, CallLocked, OutputIsPending,
                ProcessScheduled, Connect,
                Disconnect, SetRunTimeout, RunEnter, GetEnter, ReleaseCheck, Release
  <2>3. CASE Dispatch(f) \/ UpcallReturn(f) \/ Return(f)
    BY <2>3 DEF Dispatch, UpcallReturn, Return, RunReturn, GetReturn
  <2>4. QED
    BY <1>1, <2>1, <2>2, <2>3
<1>2. CASE ConnectionLost
  BY <1>2 DEF ConnectionLost
<1>3. QED
  BY <1>1, <1>2 DEF Next

\* What the abstract user is.
UserOK == /\ \A f \in Frame : Using(f) => user = f[1]
          /\ (\A f \in Frame : ~Using(f)) => user = NoThread

\* The abstract user is the thread of any frame that uses the handle.
LEMMA UserIs == IInv => UserOK
<1> SUFFICES ASSUME IInv PROVE UserOK
  OBVIOUS
<1>1. ASSUME NEW f \in Frame, Using(f) PROVE user = f[1]
  <2> DEFINE h == CHOOSE g \in Frame : Using(g)
  <2>1. h \in Frame /\ Using(h)
    BY <1>1
  <2>2. h[1] = f[1]
    BY <1>1, <2>1, ExclusiveFromInv DEF ExclusiveAccess
  <2>3. QED
    BY <1>1, <2>2 DEF user
<1>2. QED
  BY <1>1 DEF user, UserOK

\* The handle passes from one thread to another only through "nobody": the
\* lock protocol implements exclusive access (Face.py:37-141).
THEOREM FaceImplementsAccess == Spec => ImplementsAccess
<1>1. Init => Access!Init
  <2> SUFFICES ASSUME Init PROVE user = NoThread
    BY DEF Access!Init
  <2>1. \A f \in Frame : ~Using(f)
    BY DEF Init, InitFor, Using
  <2>2. QED
    BY <2>1 DEF user
<1>2. IInv /\ IInv' /\ [Next]_vars => [Access!Next]_user
  <2> SUFFICES ASSUME IInv, IInv', [Next]_vars, user' # user
               PROVE  Access!Next
    OBVIOUS
  <2>1. UserOK /\ UserOK'
    BY UserIs, PTL
  <2>2. Next
    BY DEF vars, user, Using
  <2>3. PICK f \in Frame : \A g \in Frame : g # f => (Using(g)' <=> Using(g))
    BY <2>2, OneFrameMoves DEF IInv, Using
  <2>4. CASE Using(f) /\ ~Using(f)'
    <3>1. user = f[1]
      BY <2>1, <2>4 DEF UserOK
    <3>2. \A g \in Frame : ~Using(g)'
      BY <2>1, <2>3, <2>4, <3>1 DEF UserOK
    <3>3. user' = NoThread
      BY <2>1, <3>2 DEF UserOK
    <3>4. QED
      BY <3>1, <3>3, FrameFacts DEF Access!Next, Access!Leave
  <2>5. CASE ~Using(f) /\ Using(f)'
    <3>1. user' = f[1]
      BY <2>1, <2>5 DEF UserOK
    <3>2. \A g \in Frame : ~Using(g)
      BY <2>1, <2>3, <2>5, <3>1 DEF UserOK
    <3>3. user = NoThread
      BY <2>1, <3>2 DEF UserOK
    <3>4. QED
      BY <3>1, <3>3, FrameFacts DEF Access!Next, Access!Enter
  <2>6. CASE Using(f)' <=> Using(f)
    BY <2>1, <2>3, <2>6 DEF UserOK
  <2>7. QED
    BY <2>4, <2>5, <2>6
<1>3. QED
  BY <1>1, <1>2, Invariance, PTL DEF Spec, ImplementsAccess, Access!Spec
=============================================================================
