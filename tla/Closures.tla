------------------------------ MODULE Closures ------------------------------
(***************************************************************************)
(* Closures and upcalls (Closure.py, csrc/methods_handle.c, csrc/objects.c).*)
(* express_interest and set_interest_filter wrap a new ndn_closure in a     *)
(* capsule, give the capsule a reference on the Python closure, and hand    *)
(* the ndn_closure to libndn.  The one reference on the capsule belongs to  *)
(* libndn from then on; ndn_upcall_handler drops it at the FINAL upcall.    *)
(*                                                                          *)
(* libndn is external: what it keeps (interests, filters) and when it calls *)
(* are modelled from what methods_handle.c relies on.  Each C function runs *)
(* to its end under the interpreter lock and a Face is used by one thread   *)
(* at a time (module Face), so there is one stack of upcalls.  Upcalls nest *)
(* because a filter that is replaced or cleared gets its FINAL upcall from  *)
(* inside the call; libndn does not dispatch anything else below an upcall. *)
(* An object that is freed may be allocated again: identities are reused.   *)
(***************************************************************************)
EXTENDS Integers, Sequences, FiniteSets

CONSTANTS Capsule,    \* closure capsules, each with its ndn_closure
          Closure,    \* Python objects of class Closure
          Trivial,    \* those of class TrivialExpressClosure
          Timed,      \* those of them with an onTimeout, which may be left out
          Prefix,     \* names filters are set for
          MaxDepth,   \* bound: upcalls in progress
          None        \* no capsule, no closure

ASSUME ClosuresAssumption == /\ Trivial \subseteq Closure /\ Timed \subseteq Trivial
                             /\ None \notin Capsule \cup Closure
                             /\ MaxDepth \in Nat
                             /\ IsFiniteSet(Capsule)

VARIABLES cls,        \* name of the class of the object passed as the face
          held,       \* closures that Python code has a reference on
          refs,       \* reference count of each closure
          capRefs,    \* reference count of each capsule
          context,    \* the closure a capsule has a reference on
          interests,  \* capsules libndn calls for pending interests
          filters,    \* the capsule libndn calls for interests under a prefix
          frames,     \* calls of ndn_upcall_handler in progress, innermost first
          destroyed,  \* the Face is gone: ndn_destroy is running or has run
          heard       \* history: what the user of a Trivial closure has heard

vars == <<cls, held, refs, capRefs, context, interests, filters, frames,
          destroyed, heard>>

libndn == <<interests, filters>>

InterestKinds == {"content", "bad", "timeout"}   \* all but CONTENT_BAD of Closure.py:24-28 as one
Kinds == InterestKinds \cup {"interest", "final"}
Frame == [cap : Capsule, kind : Kinds,
          method : Closure \cup {None}]          \* upcall_method, None before it is looked up

Filtering == {filters[p] : p \in Prefix} \ {None}
Registered == interests \cup Filtering

-----------------------------------------------------------------------------
(* References *)

Executing == {frames[i].method : i \in DOMAIN frames} \ {None}

\* Python code is running that can call the face: the application's, or an upcall's.
PythonRuns == frames # <<>> => frames[1].method # None
MayCall == PythonRuns /\ ~destroyed

\* The capsule of an ndn_closure and what its destructor does when the last
\* reference goes: the closure loses one and the structure is freed.
NewCapsule(c, k) == /\ capRefs' = [capRefs EXCEPT ![c] = 1]
                    /\ context' = [context EXCEPT ![c] = k]
                    /\ refs' = [refs EXCEPT ![k] = @ + 1]

\* Variant: upcall_method is not released.
ReleaseKeepsMethod(c, capsuleToo, m) ==
    LET dies == capsuleToo /\ capRefs[c] = 1
    IN  /\ capRefs' = IF capsuleToo THEN [capRefs EXCEPT ![c] = @ - 1] ELSE capRefs
        /\ context' = IF dies THEN [context EXCEPT ![c] = None] ELSE context
        /\ refs' = [k \in Closure |-> refs[k] - (IF dies /\ k = context[c] THEN 1 ELSE 0)]

\* A handler lets go of its upcall_method (None: it has none) and, at FINAL,
\* of the capsule.
Release(c, capsuleToo, m) ==
    LET dies == capsuleToo /\ capRefs[c] = 1
    IN  /\ capRefs' = IF capsuleToo THEN [capRefs EXCEPT ![c] = @ - 1] ELSE capRefs
        /\ context' = IF dies THEN [context EXCEPT ![c] = None] ELSE context
        /\ refs' = [k \in Closure |->
                      refs[k] - (IF k = m THEN 1 ELSE 0)
                              - (IF dies /\ k = context[c] THEN 1 ELSE 0)]

Upcall(c, kind) == [cap |-> c, kind |-> kind, method |-> None]

-----------------------------------------------------------------------------
Init == /\ cls \in {"NDN", "Face"}
        /\ held = {}
        /\ refs = [k \in Closure |-> 0]
        /\ capRefs = [c \in Capsule |-> 0]
        /\ context = [c \in Capsule |-> None]
        /\ interests = {}
        /\ filters = [p \in Prefix |-> None]
        /\ frames = <<>>
        /\ destroyed = FALSE
        /\ heard = [c \in Capsule |-> "nothing"]

(* Python code: Face.expressInterest makes a closure, passes it, drops it.  *)

Create(k) == /\ PythonRuns
             /\ refs[k] = 0
             /\ refs' = [refs EXCEPT ![k] = 1]
             /\ held' = held \cup {k}
             /\ UNCHANGED <<cls, capRefs, context, libndn, frames, destroyed, heard>>

Drop(k) == /\ PythonRuns
           /\ k \in held
           /\ refs' = [refs EXCEPT ![k] = @ - 1]
           /\ held' = held \ {k}
           /\ UNCHANGED <<cls, capRefs, context, libndn, frames, destroyed, heard>>

\* A closure Python code can pass: one it holds, or self in upcall().
CanPass(k) == k \in held \cup Executing

\* A new registration of closure k in capsule c.
Registers(k, c) == /\ MayCall
                   /\ CanPass(k)
                   /\ capRefs[c] = 0
                   /\ UNCHANGED heard

\* Variant: no reference is taken on the closure.
ExpressNoIncref(k, c) ==
    /\ cls = "NDN"
    /\ Registers(k, c)
    /\ capRefs' = [capRefs EXCEPT ![c] = 1]
    /\ context' = [context EXCEPT ![c] = k]
    /\ interests' = interests \cup {c}
    /\ UNCHANGED <<cls, held, refs, filters, frames, destroyed>>

\* express_interest refuses every face whose class is not called NDN, so also
\* one of class Face, before it makes anything.
ExpressInterest(k, c) ==
    /\ cls = "NDN"
    /\ Registers(k, c)
    /\ NewCapsule(c, k)
    /\ interests' = interests \cup {c}
    /\ UNCHANGED <<cls, held, filters, frames, destroyed>>

\* Variant: the capsule that libndn did not take is not freed.
RegistrationFailsLeak(k, c) ==
    /\ Registers(k, c)
    /\ NewCapsule(c, k)
    /\ UNCHANGED <<cls, held, libndn, frames, destroyed>>

\* When libndn fails it keeps nothing.  The capsule was made and refers to the
\* closure by then; it loses its one reference, and its destructor the closure.
RegistrationFails(k, c) ==
    LET made == [capRefs EXCEPT ![c] = 1]
        link == [context EXCEPT ![c] = k]
        taken == [refs EXCEPT ![k] = @ + 1]
    IN  /\ Registers(k, c)
        /\ capRefs' = [made EXCEPT ![c] = @ - 1]
        /\ context' = [link EXCEPT ![c] = None]
        /\ refs' = [taken EXCEPT ![link[c]] = @ - 1]
        /\ UNCHANGED <<cls, held, libndn, frames, destroyed>>

\* Face hands filters a TrivialFilterClosure or a closure of the caller's own;
\* only expressInterest makes a TrivialExpressClosure.  The C code takes any.
CanFilter(k) == k \notin Trivial

\* set_interest_filter: the filter that was there gets its FINAL upcall at once.
SetInterestFilter(k, c, p) ==
    /\ Registers(k, c)
    /\ CanFilter(k)
    /\ NewCapsule(c, k)
    /\ filters' = [filters EXCEPT ![p] = c]
    /\ IF filters[p] = None THEN UNCHANGED frames
       ELSE /\ Len(frames) < MaxDepth
            /\ frames' = <<Upcall(filters[p], "final")>> \o frames
    /\ UNCHANGED <<cls, held, interests, destroyed>>

ClearInterestFilter(p) ==
    /\ MayCall
    /\ filters[p] # None
    /\ Len(frames) < MaxDepth
    /\ filters' = [filters EXCEPT ![p] = None]
    /\ frames' = <<Upcall(filters[p], "final")>> \o frames
    /\ UNCHANGED <<cls, held, refs, capRefs, context, interests, destroyed, heard>>

\* The last reference on the handle's capsule goes; no call is in progress.
DestroyHandle ==
    /\ frames = <<>>
    /\ destroyed' = TRUE
    /\ UNCHANGED <<cls, held, refs, capRefs, context, libndn, frames, heard>>

-----------------------------------------------------------------------------
(* libndn *)

\* ndn_destroy: one FINAL upcall after the other.
Finalize(c) ==
    /\ destroyed
    /\ frames = <<>>
    /\ c \in Registered
    /\ interests' = interests \ {c}
    /\ filters' = [p \in Prefix |-> IF filters[p] = c THEN None ELSE filters[p]]
    /\ frames' = <<Upcall(c, "final")>>
    /\ UNCHANGED <<cls, held, refs, capRefs, context, destroyed, heard>>

\* ndn_run, ndn_get or process_scheduled_operations calls a closure.
Dispatch(c, kind) ==
    /\ frames = <<>>
    /\ ~destroyed
    /\ \/ c \in interests /\ kind \in InterestKinds
       \/ c \in Filtering /\ kind = "interest"
    /\ frames' = <<Upcall(c, kind)>>
    /\ UNCHANGED <<cls, held, refs, capRefs, context, libndn, destroyed, heard>>

-----------------------------------------------------------------------------
(* ndn_upcall_handler *)

\* TrivialExpressClosure.upcall: onData, onTimeout if there is one, for
\* CONTENT_BAD neither.
CallsBack(k, kind) == \/ kind = "content"
                      \/ kind = "timeout" /\ k \in Timed

\* What the user of k knows of the interest after an upcall; an upcall that
\* ends it without a callback is the excuse for there being none.
Hears(k, before, kind) ==
    IF kind \notin InterestKinds THEN before
    ELSE IF ~CallsBack(k, kind) THEN "excuse"
    ELSE IF before = "answer" THEN "two answers" ELSE "answer"

\* The method is looked up, UpcallInfo built, and Python called.
CallPython ==
    LET c == frames[1].cap
        kind == frames[1].kind
    IN  /\ frames # <<>>
        /\ frames[1].method = None
        /\ frames' = [frames EXCEPT ![1].method = context[c]]
        /\ refs' = [refs EXCEPT ![context[c]] = @ + 1]
        /\ heard' = IF context[c] \in Trivial THEN [heard EXCEPT ![c] = Hears(context[c], @, kind)] ELSE heard
        /\ UNCHANGED <<cls, held, capRefs, context, libndn, destroyed>>

\* The results that make libndn keep an interest; all others end it.
KeepsInterest(result) == result \in {"reexpress", "verify"}

\* What libndn does when the handler is back: an interest that is answered or
\* has timed out goes, and its closure gets its FINAL upcall.
AfterUpcall(f, result) ==
    IF f.kind \in InterestKinds /\ ~KeepsInterest(result)
    THEN /\ interests' = interests \ {f.cap}
         /\ frames' = <<Upcall(f.cap, "final")>> \o Tail(frames)
    ELSE /\ frames' = Tail(frames)
         /\ UNCHANGED interests

Results == {"ok", "reexpress", "verify", "err"}   \* err: not a number, too

\* Variant: TrivialExpressClosure asks for the interest again.
TrivialReexpresses(k) == Results

\* TrivialExpressClosure always returns RESULT_OK.
ResultsOf(k) == IF k \in Trivial THEN {"ok"} ELSE Results

\* History about a capsule goes with it.
Forget == heard' = [c \in Capsule |-> IF capRefs'[c] = 0 THEN "nothing" ELSE heard[c]]

\* Python has returned.  A result that is no number (upcall without a return)
\* is converted to -1, RESULT_ERR.
UpcallReturns(result) ==
    LET f == frames[1]
    IN  /\ frames # <<>>
        /\ f.method # None
        /\ result \in ResultsOf(f.method)
        /\ Release(f.cap, f.kind = "final", f.method)
        /\ AfterUpcall(f, result)
        /\ Forget
        /\ UNCHANGED <<cls, held, filters, destroyed>>

\* Variant of the error path: the capsule is forgotten.
ErrorPathForgets(f) ==
    /\ Release(f.cap, FALSE, f.method)
    /\ AfterUpcall(f, "err")

\* The error path makes the same releases; the exception is printed and cleared.
ErrorPath(f) ==
    /\ Release(f.cap, f.kind = "final", f.method)
    /\ AfterUpcall(f, "err")

\* The packet could not be made into objects, or memory is short.
UpcallInfoFails ==
    /\ frames # <<>>
    /\ frames[1].method = None
    /\ ErrorPath(frames[1])
    /\ IF frames[1].kind \in InterestKinds /\ context[frames[1].cap] \in Trivial
       THEN heard' = [heard EXCEPT ![frames[1].cap] = "excuse"] ELSE Forget
    /\ UNCHANGED <<cls, held, filters, destroyed>>

UpcallRaises ==
    /\ frames # <<>>
    /\ frames[1].method # None
    /\ ErrorPath(frames[1])
    /\ Forget
    /\ UNCHANGED <<cls, held, filters, destroyed>>

Handler == \/ CallPython \/ UpcallInfoFails \/ UpcallRaises
           \/ \E result \in Results : UpcallReturns(result)

Next == \/ Handler
        \/ \E k \in Closure : Create(k) \/ Drop(k)
        \/ \E k \in Closure, c \in Capsule :
              \/ ExpressInterest(k, c) \/ RegistrationFails(k, c)
              \/ \E p \in Prefix : SetInterestFilter(k, c, p)
        \/ \E p \in Prefix : ClearInterestFilter(p)
        \/ DestroyHandle
        \/ \E c \in Capsule : Finalize(c) \/ \E kind \in Kinds : Dispatch(c, kind)

Spec == Init /\ [][Next]_vars

\* A C function and the upcalls in it go on to their end (upcalls terminate).
FairSpec == Spec /\ WF_vars(Handler) /\ \A c \in Capsule : WF_vars(Finalize(c))

-----------------------------------------------------------------------------
(* Properties *)

TypeOK == /\ cls \in {"NDN", "Face"}
          /\ held \subseteq Closure
          /\ refs \in [Closure -> Nat]
          /\ capRefs \in [Capsule -> {0, 1}]
          /\ context \in [Capsule -> Closure \cup {None}]
          /\ interests \subseteq Capsule
          /\ filters \in [Prefix -> Capsule \cup {None}]
          /\ frames \in Seq(Frame)
          /\ destroyed \in BOOLEAN
          /\ heard \in [Capsule -> {"nothing", "answer", "two answers", "excuse"}]

Finalizing == {c \in Capsule : \E i \in DOMAIN frames :
                                  frames[i].cap = c /\ frames[i].kind = "final"}

\* Every capsule has one owner: libndn's tables, or a FINAL upcall that will
\* drop it.  So none leaks and none is freed in use, on normal and error paths
\* (methods_handle.c:145-157, 460-481).
OneOwner == \A c \in Capsule :
    /\ capRefs[c] = 1 <=> c \in Registered \cup Finalizing
    /\ ~(c \in Registered /\ c \in Finalizing)

\* The count of a closure is exactly who refers to it: Python code, capsules,
\* handlers (methods_handle.c:126, 141, 463; objects.c:96-98).
CountsAreExact == \A k \in Closure :
    refs[k] = (IF k \in held THEN 1 ELSE 0)
              + Cardinality({c \in Capsule : context[c] = k})
              + Cardinality({i \in DOMAIN frames : frames[i].method = k})

\* The callbacks of a TrivialExpressClosure: at most one per interest, and one
\* before the interest ends unless content was bad, the packet was refused, it
\* timed out and no onTimeout was given, or the Face went away (Closure.py:79-91).
AnsweredOnce == \A c \in Capsule : context[c] \in Trivial =>
    /\ heard[c] # "two answers"
    /\ c \in Finalizing /\ ~destroyed => heard[c] # "nothing"

\* Once the Face is gone every capsule is freed (objects.c:121-127).
AllFreed == destroyed ~> \A c \in Capsule : capRefs[c] = 0

life == [c \in Capsule |-> IF capRefs[c] = 0 THEN "free"
                           ELSE IF c \in Registered THEN "registered" ELSE "final"]

current == IF frames # <<>> /\ frames[1].method = None THEN frames[1].cap ELSE None

Life == INSTANCE ClosureLife WITH life <- life, current <- current

\* The handler and the calls implement the life of a closure.
ImplementsLife == Life!Spec
=============================================================================
