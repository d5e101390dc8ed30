# PyNDN: a TLA+ model of the bindings

PyNDN binds libndn, the client library of Named Data Networking, to Python 2.
A C extension (`csrc/`, module `_pyndn`) wraps libndn's handle and buffers in
capsules; the Python package (`python/ndn/`) puts objects on top of them. This
directory holds specifications of its behaviour, the TLC configurations that
check them on small instances, and TLAPS proofs of the properties that matter
most. Line numbers refer to `python/ndn/` and `csrc/`.

## The system

| part | state | operations | properties that make it correct |
|---|---|---|---|
| Face (`Face.py`, `methods_handle.c`, `util.c:119-174`) | `_handle_lock`; the handle; a process-wide list with a node for each `ndn_run` in progress | connect, disconnect, run, setRunTimeout, process_scheduled, output_is_pending, expressInterest, set/clearInterestFilter, get, put | one thread in libndn at a time; the lock is returned by who took it; upcalls can call back; runs do not overlap |
| EventLoop (`EventLoop.py`) | `running`, `eventLock`, `events`, the faces | run, run_once, run_scheduled, execute, stop | events called once, in order; a stop ends the loop and disconnects only what is idle |
| Closures (`Closure.py`, `methods_handle.c:105-167, 459-557`, `objects.c:75-178`) | reference counts of capsule and closure | express, filter, upcall, FINAL | freed once, after the last upcall |
| Data objects (`Name`, `Interest`, `Data`, `SignedInfo`, `KeyLocator`, `Signature`) | attributes, and `ndn_data`, the cached wire form | set an attribute, ask for `ndn_data`, sign | the cached form is that of the attributes |
| Converters (`methods_{name,interest,contentobject,signedinfo,signature,key}.c`) | parse caches `pi`, `pco`, `comps` in the capsules | to and from the wire | a cache is absent or valid; round trips |
| Keys (`Key.py`, `key_utils.c`, `methods_key.c`, `methods.c`) | private and public key capsules | generate, read, write | every object freed once on every path |
| NameCrypto (`NameCrypto.py`, `methods_namecrypto.c`, `namecrypto/`) | sequence number and time of each side | authenticate, verify | a command is accepted at most once, and only if authentic |
| `nre.py` | compiled expression, match positions | compile, match | agrees with the definition of matching |
| `LocalPrefixDiscovery`, `Repository` | applications of the above | | stop and restart of a loop |
| `impl/` | none | ndnb, segmenting, enumeration | round trips, boundaries |
| `utils.py`, `__init__.py`, `pyndn.c`, build files, examples | set-up | | |

How they interact. An application calls the Face from its threads and gives it
closures; libndn calls `ndn_upcall_handler`, on the thread that is in
`ndn_run`, `ndn_get` or `ndn_process_scheduled_operations`, which calls the
Python closure, which calls the Face again. The EventLoop owns the `run` of
several faces; other threads reach it through `execute` and `stop`. Packets are
data objects; the C side asks them for `ndn_data`.

What is hard: the Face decides by the run_state list, outside of its lock,
whether to take the lock, and decides again whether to give it back; upcalls
re-enter the object that dispatches them; `stop` tests and then acts; events
raise with the lock held; wire forms are cached beside mutable, shared
attributes; references travel through C with an owner that depends on the
path. `PROJECT.json` lists each of these at its line, under "hazards".

## Modules

| module | what it is |
|---|---|
| `HandleAccess` | abstract specification: at most one thread uses a handle |
| `Face` | the Face, its lock, the run_state list; implements `HandleAccess` |
| `MCFace` | deployments for TLC |
| `FaceProofs` | TLAPS proofs about `Face` under the discipline |
| `FaceFreeProofs` | TLAPS proofs about `Face` used in any way |
| `EventQueue` | abstract specification: events are called once each, in order, until one raises or posts |
| `EventLoop` | the loop over several faces; implements `EventQueue` |
| `MCEventLoop` | from where `stop()` is called, for TLC |
| `EventLoopProofs` | TLAPS proofs about `EventLoop` |
| `ClosureLife` | abstract specification: the life of an `ndn_closure` that libndn may call |
| `Closures` | closures, capsules and upcalls with their reference counts; implements `ClosureLife` |
| `ClosuresProofs` | TLAPS proofs about `Closures` |
| `Interests` | Names and Interests, their wire forms and the parse cache |
| `InterestsProofs` | TLAPS proofs about `Interests` |
| `DataPackets` | Data, SignedInfo, KeyLocator and Names: the chain a packet is signed from |
| `DataPacketsProofs` | TLAPS proofs about `DataPackets` |
| `CommandLog` | abstract specification: signed commands are accepted at most once, in order |
| `NameCrypto` | authenticated commands between senders and a verifier; implements `CommandLog` |
| `NameCryptoProofs` | TLAPS proofs about `NameCrypto` |
| `Nre` | the matcher of name regular expressions, and the language it should decide |
| `MCClosures`, `MCInterests`, `MCDataPackets`, `MCNameCrypto`, `MCNre` | the instances for TLC |

### Face

A **frame** is a method call in progress: a thread's own (`<<t, "main">>`) or
that of the upcall its main call is dispatching (`<<t, "up">>`). `pc[f]` says
where the call is; `op[f]` which method it is; `lock` is `_handle_lock` with its
holder as history; `runStates` counts the nodes of this handle in the run_state
list.

| action | code |
|---|---|
| `EnterConditional`, `AcquireCheck`, `Acquire` | a method up to `_acquire_lock` (`Face.py:37-41`): the test and the acquire are two steps |
| `EnterChecked` | the assertion of `run`, `process_scheduled`, `output_is_pending` (53, 57, 61); a failed assertion changes nothing |
| `CallLocked` | the C function of put, expressInterest and the filters, which keeps the interpreter lock; a filter that is replaced or cleared gets its FINAL upcall from inside (`methods_handle.c:546, 583`), with `_handle_lock` held and no run_state node |
| `ProcessScheduled` | `_pyndn_cmd_process_scheduled_operations`, one step under the interpreter lock unless interests are due: their upcalls run Python |
| `RunEnter`, `GetEnter` / `RunReturn`, `GetReturn` | the C functions that give the interpreter lock away, up to libndn and from there on |
| `Dispatch`, `UpcallReturn` | `ndn_upcall_handler` under `run` and `get`; the end of any upcall |
| `ReleaseCheck`, `Release` | `_release_lock` (43-47), the `finally` of `run` (66) |
| `Connect`, `Disconnect`, `SetRunTimeout`, `OutputIsPending` | one step: they take no lock and keep the interpreter |
| `ConnectionLost` | ndnd closes the socket |

Nothing in the code keeps applications from mixing uses that the protocol does
not support, so the specification has a *deployment* as a constant of each
execution: which methods each thread calls, which ones upcalls call, and which
ones the FINAL upcalls of filters call (none for the closure that `setInterestFilter`
makes, any for a closure given to `_setInterestFilter`).
`Discipline` is the rule under which the protocol is sound:

- one thread owns the face (an EventLoop's faces, the tests), or threads do
  nothing but `run` it, or threads only make the calls that take the lock and
  nobody runs it; `setRunTimeout` is free for all (`tests/ndnRun.py:19-24`);
- if `get` is called outside of a run, upcalls call nothing that takes the lock:
  `get` holds the lock and leaves no run_state node, so a `put` in its upcall
  would wait for its own thread;
- if a filter is replaced or cleared outside of a run, FINAL upcalls of filters call
  nothing that takes the lock, for the same reason, nor `process_scheduled`.

`Spec` starts in a disciplined deployment, `FreeSpec` in any.

Abstractions. Arguments and results of the calls, the handle's other tables and
the capsules are left out. `get` may be refused before it reaches libndn
(`GetEnter`), for a wrong template or because the C layer accepts only a class
called `NDN` (`methods_handle.c:613`); for the short calls a refusal looks like
any other end. `defer_verification` and `fileno` read or write one word
of the handle and change nothing that is modelled; the destruction of the Face
and failing `malloc`s are left out. `ndn_process_scheduled_operations` is
modelled from libndn: it expires interests and so dispatches timeout upcalls.
Bound: calls made by an upcall do not dispatch upcalls themselves; the second
and the third rule of the discipline are stated so that they cover them. Upcalls that
follow one another under one call that keeps the interpreter lock are one stay at
`"upcall"`. The properties hold under these rules, so they say where the hazards
of `get` and of FINAL upcalls begin; they do not make the rules hold.

### EventLoop

`pc` is where the loop's thread is in `run`, `run_once` and the libndn call
below; each caller (workers, and the loop's thread while it executes an event or
an upcall) has its own `call` and `step`. Events are numbered by the order of
their `append`. `started`, `exit`, `raised` and `lost` are history for the
properties. The faces appear as the sets `executing` and `connected`; only the
loop runs them, so the lock of each Face is uncontended and is left out: unless the
application calls `stop()` from a thread, no step of a worker touches a face (lemma
`FacesHaveOneUser`), which is the discipline under which theorem `Exclusion` holds, and
`stop()` itself takes no lock. `stopFrom` says where the application calls `stop()`: in an upcall of
`ndn_run`, an upcall of `process_scheduled` ("timer",
`tests/test-simple-communication.py:45-47`), an event, or another thread
(`LocalPrefixDiscovery.py:67`).

The actions follow the lines of `EventLoop.py` one by one; exceptions are part of the
action that raises them: `EventRaise` (lock kept, events kept; an NDNError while the
loop is being stopped and a select.error EINTR stay in `run`, the rest leaves it), `StopRaise`
(a second disconnect), `RunReturn` (NDNError), `Select` (EINTR, and closed
descriptors: Python raises ValueError for descriptor -1, select EBADF).
`process_scheduled` keeps the interpreter lock, so other threads take steps during it
only while a timer's upcall runs Python (`pc = "timer"`), and during `ndn_run`
(`pc = "inside"`).

`EventQueue` is what the loop promises to those who call `execute`: one queue of
`waiting` events, and the ones `called`. The code has no such queue: an event
stays in `self.events` after its call, until the list is cleared, and for good if
it raises. `Gone` is how many events of the list have been called, by the position
of the loop in it; `waiting` is the rest. `stuck` is `Stuck`, the lock will not be released, and that in
one of two ways: it is the loop's although the loop is not in its turn with it and no
upcall of its thread is posting, so an event has raised (`Leaked`); or an event has called
`execute`, which waits for the lock its own loop holds (`SelfPost`).

Between two runs the application reconnects its faces (`Reconnect`), or forgets to: `Start`
has no guard, as in the code, and notes a run that begins with a closed face as `lost`.
Abstractions: the values of timeouts are left out: select may return at any moment.
Bounds: `MaxPosts` calls of execute, `MaxRuns` calls of run.

### Closures

A capsule owns one `ndn_closure`; `capRefs` and `refs` are the reference counts
of capsules and of the Python closures, `context` is the reference a capsule
has on its closure. `interests` and `filters` are what libndn keeps; libndn is
external, and modelled by what `methods_handle.c` relies on: it calls a closure
only while it is registered and ends with one FINAL upcall. `frames` is the
stack of `ndn_upcall_handler` calls; a frame has a `method` from the moment
`upcall` has been looked up.

| action | code |
|---|---|
| `Create`, `Drop` | `Face.expressInterest` makes a closure, passes it and forgets it (`Face.py:80-85`) |
| `ExpressInterest`, `SetInterestFilter`, `RegistrationFails` | `methods_handle.c:403-557`: capsule, incref of the closure, libndn. When libndn refuses, the capsule loses the one reference it was made with, and its destructor releases the closure; that nothing is left of the call is lemma `RefusedIsNothing` |
| `ClearInterestFilter` | `methods_handle.c:559-593`; libndn calls FINAL from inside |
| `Dispatch`, `Finalize`, `AfterUpcall` | libndn: an upcall, `ndn_destroy`, what a result makes of a pending interest |
| `CallPython`, `UpcallReturns`, `UpcallRaises`, `UpcallInfoFails` | `ndn_upcall_handler` up to the call, the normal end (141-152), the error path (154-166) from after and from before the call |
| `DestroyHandle` | the destructor of the handle's capsule (`objects.c:121-127`) |

Upcalls nest: a filter that is cleared or replaced, possibly by its own upcall,
gets FINAL on top of the upcall in progress. One thread uses the Face at a time
(theorem `Exclusion`), so there is one stack. The class that the C layer demands
is a variable of the initial state: with the name `Face` no interest is ever
accepted (`methods_handle.c:416`), with `NDN` everything happens. `Timed` are the
`TrivialExpressClosure`s that were given an `onTimeout`; the default is none
(`Face.py:80`), and then a timeout is not heard of. Filters are not such closures
(`CanFilter`): the C layer would take one, the Face does not offer it. Left out: the
result object of an upcall, which leaks (147), the conversion of packets, and
`VersionResolverClosure`, which never gets an upcall: `Face.py:91` passes it as
the function a `TrivialExpressClosure` calls, and it is not callable.

### Interests and Data

Both modules keep, beside the attributes of the objects, the wire form each has
cached, by the values it was made from, so that "stale" can be seen. Values of
components are model values; the attributes of an Interest are grouped by the
way the C code treats them (`Attr`): numbers, blobs, the lifetime, the exclusion
filter, each with the values that make a difference (absent, good, negative, of a wrong
type, and for the lifetime too long for the three bytes it is sent in). The application can reach an object through the packet and
through a reference it kept; Const stops assignments through the packet, not
changes in the list of components (`Name.py:144`) or in the KeyLocator.

| action | code |
|---|---|
| `SetAttr`, `SetName`, `SetContent`, `SetInfo`, `SetSignedInfo`, `SetKeyName`, `SetComponents` | the `__setattr__` of the classes |
| `SetItem` | `Name.__setitem__`, `__delitem__`, and changes of the list itself |
| `NameWire`, `UseName`, `ToWire` | the `__getattribute__` that makes `ndn_data` when asked |
| `Match` | `_pyndn_cmd_content_matches_interest`, which fills the parse cache `pi` |
| `Receive`, `Reparse` | `*_obj_from_ndn` on a packet from the network, or on the object's own wire form |
| `Sign`, `SignFails` | `Data.sign`: the caches of Name, SignedInfo, KeyLocator and its Name are used where they exist and filled where they do not, also when it fails in the end |

The order of assignments in the parsers matters and is part of `FromNdn`,
`ParsedInfo` and `ParsedData`: for Interest and SignedInfo `ndn_data` is set
first and lost again, for Data it is set last and kept. Left out: which number is left of a
lifetime that was cut, a `PublisherID` that is no digest (it makes the parser raise,
`methods_interest.c:605-610`, so there is no Interest), `finalBlockID` and `type`
(fields like freshness), verification, and the parse caches of Data, which are
cleared when parsing fails.

What the code does that a user may not expect, all of it in the model: a zero
freshness is sent as none; a lifetime is read whole, whatever its length
(`methods_interest.c:721-724`), and written in 24 bits (441, 455-459), so a received
Interest that is encoded again has lost a lifetime of 4096 s or more; the exclusion filter is looked at and neither sent nor
parsed; the conversion of `content` in `Data.__setattr__` is overwritten
(`Data.py:62`), so content that is not bytes fails in `sign`; a SignedInfo that
was parsed cannot be encoded again, because it has a timestamp. Outside of the
model: a KeyLocator that holds a key raises when parsed (`methods_key.c:364` sets
an attribute `KeyLocator` has no slot for).

### NameCrypto

A command is the record of its state: sender, number, time, and whether the
network left it `intact`. A verifier has the number `curr`. `Authenticate` is
`authenticateCommand` and `authenticateCommandSig` with `update_state`;
`verifyCommand` is split by its outcome, in the order of its tests:
`NoAuthenticator`, `NoKey`, `Duplicate`, `TooOld`, and `Verify`, which moves
`curr` (`authentication.c:190`) and then looks at the MAC or signature (473, 595).
`NewSender` and `NewVerifier` are restarts: states are kept in memory only. `CommandLog`
is what a user of the verifier may rely on: a log of signed commands with growing numbers,
and the number the next one has to exceed, which follows the log or jumps ahead. The
tests of the code, the times, the damage and the refused commands are not in it.
`names` only grows, so a command arrives never, late, twice and out of order;
`Damage` changes the state in a name and with it the MAC. Sequence numbers wrap at
`SeqSpan`; the difference of times is cut to an int of width `IntSpan` and then divided
by `Unit`, the ticks of the clock in a unit of the limit (microseconds and
milliseconds, `authentication.c:185`). `Clock` is the set of times the clock may show.
Damage to a length in the state ends the process at an assertion (427, 562), which for
the verifier is a restart; components behind the authenticator are under no MAC
(304-341), so changing them does no damage in the sense of the model.

The model describes the C library. At this commit the Python layer does not
reach it: `NameCrypto.py:20, 24` pass `ndn_data` to the constructor of Name, which
raises TypeError after the state has moved. The unit of the limit is
milliseconds in the code, seconds in the comment at `authentication.c:395`.

### Nre

An expression is the tree of matchers that the constructors of `nre.py` build;
what one component matches is a set of components. `Match`, `RecursiveMatch` and
`TryLength` are the match functions with their recursion, greedy
(`aggressiveMatch`) or not, and carry along what the groups hold, because an
attempt that is given up leaves its groups filled. A RegexMatcher is asked several
times and keeps its state in between. The reference is `Derivations`: the ways in
which an expression derives a sequence of components, with the slice of each group.

The checks show that the matcher never accepts a wrong name, and refuses or runs
out of stack only when something that may be empty is repeated
(`^(<a>*){1,2}$`); and that groups that take part in the match agree with one
derivation. A group that is skipped may hold what an abandoned attempt left:
`^(<a>)?<.*>$` on `/a` leaves `\1` = `a`.

## What is checked

| run | configuration | result |
|---|---|---|
| `face` | three threads; deployments `Loop`, `Runners`, `Callers` | all safety properties, `ImplementsAccess`, no deadlock; 5,984 states |
| `face_live` | two threads, `FairSpec` | `UpcallCallsReturn`, `LockComesBack`; 1,304 states |
| `face_mixed` | two runners and a putter | `RunsDoNotOverlap` violated: see Findings |
| `event_loop` | two faces, one worker, two posts, two runs | safety properties, `StopSparesBusy`, `ImplementsQueue`; 102,146 states |
| `event_loop_live` | as above, one run, `FairSpec` | `PostedEventsRun`, `StopEndsLoop`, `ExecuteReturns`; 46,988 states |
| `closures` | three capsules, three closures (two of class TrivialExpressClosure, one of them with an onTimeout), two prefixes, upcalls three deep, `FairSpec` | safety properties, `ImplementsLife`, `AllFreed`, no deadlock; 55,760 states |
| `interests` | two values of components, two Names | safety properties, no deadlock; 46,080 states |
| `data` | two symmetric values of components | safety properties, no deadlock; 466,968 states |
| `namecrypto` | three senders (fixture key, another secret, a signature the verifier has no key for), three commands, one damage, one restart, numbers modulo 3, an int of 8 values, two ticks per unit of the limit, a clock that shows 0, 1, 4, 5 | safety properties, `ImplementsLog`, no deadlock; 186,993 states |
| `nre` | ten expressions, names of up to three components out of two, two questions | safety properties; 1,667 states |
| `event_loop_thread`, `event_loop_event` | `stop()` from a thread, from an event | violated: see Findings |

Why the bounds are enough. In `Face` a bad interleaving involves the call that
takes or skips the lock, the run that begins or ends between its two tests, and
a third call that profits; each is a thread of its own in `face`, and the proofs
cover any number. Each of the three forms of the discipline has a deployment,
and between them every action fires. In `EventLoop` two faces are needed for a
stop that finds one executing and another idle, two posts for the order of
events, a second run for a lock left behind by the first and for descriptors
reconnected in between.

In `closures` the deepest chain is an upcall of a filter that replaces itself
by a closure whose capsule must be a new one while the old is being finalized: two
capsules, and a third for an interest that is pending meanwhile; one closure of each kind
(with and without onTimeout, the application's own), each of which can be in use twice; the depth of three lets a FINAL upcall clear another filter.
The caches compare components for equality only, so two values
distinguish "old" and "new"; their state is otherwise finite and explored in full.
In `namecrypto` three commands are an accepted one, one that moves the state and
one that comes late; the widths are chosen so that numbers and times wrap within
them, and the clock so that ages are below, at and above the limit and beyond the int;
the proofs cover all widths and units. In `nre` three components suffice
for a repetition with a minimum of two and something beside it.

Deadlock is checked for the Face, the closures, the caches and NameCrypto; in
`nre` the questions are bounded. It is not for the EventLoop: runs and posts
are bounded, and a loop whose event raised or posts really is stuck at its lock
(`LockLeaksOnlyByRaise` says that these are the only ways).

### Fairness

Face: a thread that can continue its call does (`WF` of `Continue`; Python
schedules all threads). `ndn_run` and `ndn_get` look at their deadline after
every upcall, so returns have strong fairness; upcalls are assumed to end once
the call they make has. A call blocked in `acquire` has weak fairness only.
EventLoop: the same, and strong fairness of `ExecuteAcquire`, because the loop
sleeps in `select` and in `ndn_run` between two turns with the lock. Nothing
forces an upcall, an event, a post, a stop or a lost connection to happen. The liveness
properties excuse a loop that an event has `Blocked`, by raising or by posting.
Closures: `WF` of `Handler` (an upcall that has begun ends, Python code in it
terminates) and of `Finalize` (`ndn_destroy` is a loop over libndn's tables).

### Findings

- `face_mixed` (`Face.py:61`): the assertion "Command should be called when ndn_run
  is not running" does not keep runs apart. Thread 2 calls `put` while thread 1
  runs, and skips the lock; the run ends; `_release_lock` sees no run and
  releases a lock `put` never took, under a `run` that has it by now; a third
  `run` gets it.
- `event_loop_thread` (`EventLoop.py:92`): "disconnect only when nothing is
  running, otherwise segfaul guaranteed". From another thread the test (93) is
  old when `disconnect` (94) happens: the worker finds the face idle, the loop
  enters `ndn_run`, the worker disconnects under it. In the upcall of a timer the test is
  no help either: `process_scheduled` leaves no run_state node.
- `event_loop_event` (`EventLoop.py:80`): "Report only if this exception wasn't
  intentional due to disconnect()". After a `stop()` from an event, `run_once`
  selects on closed descriptors, and that exception leaves `run()`.

## What is proved

`FaceProofs`, for every set of threads and every set of deployments, from
`FaceAssumption` alone (the deployments are well-typed, the marker values are not
threads or frames):

- `TypeCorrect`, `Exclusion`, `ReleasesOwnLock`, `NoSelfDeadlocks`, `RunStates`:
  the invariants of run `face`;
- `FaceImplementsAccess`: `Spec => ImplementsAccess`.

None of the invariants is inductive: that `_release_lock` does the right thing
depends on what `_acquire_lock` was told, on what runs may have begun since, and
on who may begin them. `IInv` adds that

- a frame executes only what its deployment allows, and an upcall's frame only
  inside an upcall (`OpOK`, `PcOK`);
- a call is *alone* if it is made outside of a run: by the thread itself or in
  an upcall of `process_scheduled`. The lock is held by exactly the alone call
  that is past acquire (`LockOK`); other calls never come near it (`UpOK`);
- the list has one node if some frame is in `ndn_run`, else none (`RunsOK`).

The heart is a pair of lemmas: an alone call is always told "no run"
(`AloneSeesNoRun`: whoever could run the face is the same thread, by the
discipline), a call under a run is always told "run" (`UpSeesRun`). So both
tests of one call get the same answer. There is one lemma per action, then
`StepInv`; the refinement adds that a step moves one frame (`OneFrameMoves`).

`FaceFreeProofs`, for the executions of `FreeSpec`: any threads in any deployment,
no discipline.

- `RunStatesAlways`: `is_run_executing` tells the truth, also where runs overlap;
  what goes wrong in `face_mixed` is what the Face makes of the answer. The
  invariant `Counted` has a node for each frame in `ndn_run` and says nothing about
  the lock.
- `RunsStayApart`: runs do not overlap in the deployments `KeepsApart`. Either one
  thread runs the face (`OneRunner`); or conditional calls come from upcalls of a run
  only (`CallsInRuns`), and are told "run" twice; or only upcalls of `get` and
  FINAL upcalls of filters come to run the face (`RunsInGets`), and wait for the lock
  of the call they are in. Other threads may
  use the handle meanwhile: these are more deployments than the disciplined ones, and
  nothing is said of exclusive access in them. The deployment of `face_mixed` is not
  among them: two threads run and a third one makes a conditional call.
- `OwnersRelease`: `ReleaseOwn` in the last two kinds. It fails in the first: the `put`
  of another thread may skip the lock during a run, and release it after.

`EventLoopProofs`, for every set of faces and of worker threads (infinite ones
too), any number of posts and runs, and every set of ways to call `stop()`, from
`EventLoopAssumption` (there is a face; the loop's thread is not a worker; the
markers are none of the values beside them): `TypeCorrect`, `EventsCalledInOrder`,
`UpcallStopsAreQuiet`, `LockLeaksByRaiseOnly`, `StopsDisconnectOthers` and
`StopsSpareBusy`, all properties of run `event_loop`, and `LoopImplementsQueue`,
its refinement. `JamIsForGood`, which no run checks by itself, is what the end of
the queue means for the code: once `Stuck`, the lock, the list and the calls of
events stay as they are in every later step. What each of them needs is a part of `IInv`:

- the loop's thread calls only from an upcall, a timer or an event and stays
  there until the call returns, and an event's `execute` never gets past `acquire`
  (`CallsOK`), and a call past `acquire` or the
  loop in its turn holds the lock (`LockOK`): so nobody appends while the loop
  goes through the list, and `events = []` drops only what was called;
- the list holds the last events posted; called are the events before those and
  the first `Gone` of the list (`EventsOK`). Every event belongs to one call of
  `execute`, which keeps the numbers in bounds (`CountOK`);
- `executing` is the face in `ndn_run` (`RunsOK`), so the test of `stop()` spares it;
- a connection goes only together with `running`, and the loop then returns
  without coming to `select` again (`QuietOK`): no closed descriptor is selected on;
- when `running` is off, at most one face is connected, or the first `stop()` is
  still on its way and all connected faces are ahead of it, except the one in
  `ndn_run` (`DisconnectOK`, `Stopping`). A second `stop()` that raises halfway has
  nothing left to disconnect.

For the refinement, the waiting events are the numbers from `Len(started) + 1` to
`posted` (`WaitingIs`), and consecutive numbers are determined by their ends
(`RangeUnique`): which step of the queue a step of the loop is can be told from
`started`, `posted` and `Stuck` alone. `FourKinds` sorts the steps: a post, a
call, the exception or the post of an event (`Jams`), and the rest, which leaves all
three alone (`OthersStutter`, `OthersKeepSelfPost`).

`NameCryptoProofs`, for every set of senders, all key distributions and all
widths, from `NameCryptoAssumption` and `BoundsAssumption` (types of the constants):
`TypeCorrect`, `AcceptsOnceInOrder` and `AcceptsFreshOrWrapped`, the invariants of run
`namecrypto`; `VerifierImplementsLog`, its refinement; and `StateFollowsAccepted`, the
invariant that relates number and log and that the refinement contains step by step. The order of what
was accepted is not inductive: a command that fails its MAC moves `curr` too, so
`IInv` adds `Below`, that everything accepted is at most `curr`. The arithmetic
is in four lemmas: what a remainder is (`Remainder`), that the next number is a
number (`NextSeqIsNumber`), that a quotient within the limit bounds the dividend
(`QuotientBound`), and that a difference that looks small as an int is
small or has wrapped (`CutIsSmall`). The refinement has a lemma per way a step can count:
a trusted sender's command is sent (`AuthenticateSends`), a damaged one is nobody's
(`DamageStutters`), and `Verify` accepts a command that was sent or jumps (`VerifyMoves`).

`ClosuresProofs`, for every finite set of capsules and all sets of closures and
prefixes, at any depth of nested upcalls, from `ClosuresAssumption` (a
`TrivialExpressClosure` is a closure, `None` is neither a capsule nor a closure, memory is
finite): `TypeCorrect`, `CapsulesHaveOneOwner`, `ClosuresAreCounted` and
`AnswersOnce`, the invariants of run `closures`, and `ClosuresImplementLife`, its
refinement. Cardinalities are counted in lemmas (`PushCounts`, `PopCounts`,
`CallCounts`, `CapsCount`): each push, pop or assignment changes the number of
those who refer to a closure by at most one. What makes the counts and the
ownership inductive is the shape of the stack, and `IInv` says it:

- only the innermost handler is still to call Python, only the outermost is for a
  packet or a timeout, and no capsule has two FINAL upcalls in progress (`StackOK`).
  Without the last the capsule could be released twice;
- the outermost handler works for something that is in libndn's tables
  (`StackServes`), so the capsule a handler reads its closure from lives;
- a capsule is in the tables once (`TablesOK`) and has its closure as long as it
  lives (`ContextOK`);
- a `TrivialExpressClosure` whose interest is pending has been called if and only
  if its handler is on the stack and past the call (`HeardOK`): the upcall either made
  a callback or is an excuse, and ends the interest.

`InterestsProofs`, for every set of Names and of components, from
`InterestsAssumption` (`None` is none of the values an attribute or a wire form
has): `TypeCorrect`, `StaleByAliasOnly`,
`ParsingLosesOnlyExcludeAndLong` and `ZerosAreReported`, the invariants of run `interests`. None is inductive alone:
whether a wire form can be out of date depends on how it was made. `IInv` adds
that a wire form was made from attributes that can be encoded
(`WireEncodable`), that a parsed Interest has a Name nobody else has
(`OriginOwn`), and that whoever finds zeros in a capsule comes after an exception
(`ZerosRaised`).

`DataPacketsProofs`, for every set of components, from `DataAssumption`, the same
for its values: `TypeCorrect`, `StaleHasAReason`, `ReceivedStays` and
`TimestampStays`, the invariants of run `data`. `StaleIsExplained` is split into
one part per cache on the way (`StaleName`, `StaleLocator`, `StaleInfo`,
`StalePacket`). `IInv` adds `Kept`: a received packet shares no object with the
application until it is changed, and a change is noted. What the ways of changing
something have in common is stated once (`KeyChangeKeeps`,
`DataNameChangeKeeps`, `CapsuleKept`, `FillsCachesIs`); both modules then have one lemma per
action.

Model-checked only: the liveness properties, which need fairness and `ENABLED`, and
`Nre`: its matcher and its language are RECURSIVE operators, which TLAPS cannot
expand, and that they agree for every expression and name would be an induction
over both. All other invariants, action properties and refinements that the passing
runs check are theorems.

## What the properties do not catch

Some properties hold because they name the cases in which the code does something else.
They show that there are no other cases; they would not notice if one of these were
worse than described:

- wire forms of a Name changed in place, and of an Interest whose Name was changed under
  it, are out of date (`StaleOnlyByAlias`);
- once parsing a capsule has raised, the zeros it left are used without an error
  (`ZerosOnlyAfterError`);
- after the sequence number has wrapped or jumped, genuine commands are refused until
  the state is made anew: `ImplementsLog` says what is accepted, not what must be;
- `setRunTimeout` moves the deadline of a run in progress, of whichever caller: the model
  has the write (`SetRunTimeout`) and no property about the length of a run.

The notes of the hazards in `PROJECT.json` say the same at each line.

## Plan

The order in which the project was built, all of it done:

1. `HandleAccess`, `Face`, `EventQueue`, `EventLoop`; then `ClosureLife`, `Closures`,
   `Interests`, `DataPackets`, `CommandLog`, `NameCrypto`, `Nre`.
2. `FaceProofs`, `FaceFreeProofs`, `EventLoopProofs`, `ClosuresProofs`,
   `InterestsProofs`, `DataPacketsProofs`, `NameCryptoProofs`.
3. What the components say of each other: `FacesHaveOneUser`, above.

What could be next: packets and threads in one model, for `ndn_get`; and a joint model of
the loop and the code of a Face, where a `stop()` from a thread could be seen down to libndn.

## Not modelled

- Keys (`key_utils.c`, `methods_key.c`, `methods.c`): each function allocates, calls
  OpenSSL, converts and frees, and keeps nothing between calls. There is no state
  or order of steps for a model to explore; `methods.c:65`, which releases
  the digest twice when assigning it fails, is listed as a hazard.
- `impl/` and the numeric codecs (segment numbers, times, the digits of an interest
  lifetime; that it is cut is in the model): pure conversions. `segmenting.py` and `enumeration.py` name a module `pyndn` that
  does not exist at this commit.
- `LocalPrefixDiscovery` and `Repository` cannot run at this commit (the first
  asks the class Face for `EventLoop`, the second passes closures where the Face takes functions);
  what the first does to an EventLoop is in module `EventLoop`.
- `ndn_get` on buffers that another thread resets (`methods_handle.c:659`): it needs
  packets and threads in one model.
- libndn, OpenSSL and ndnd themselves, textual formats (`__repr__`, URIs), the
  build files, module set-up, and the examples, which serve as evidence of how
  the library is used.
