----------------------------- MODULE NameCrypto -----------------------------
(***************************************************************************)
(* Authenticated commands (csrc/namecrypto, csrc/methods_namecrypto.c).     *)
(*                                                                          *)
(* A sender appends to the name of a command an authenticator: its state (a *)
(* 32-bit sequence number and the time), and a MAC or an RSA signature over *)
(* name and state.  A verifier keeps the number of the last command whose   *)
(* state looked good, and takes only higher ones from the chosen window of  *)
(* time.  It moves its own state before it looks at the MAC.                *)
(*                                                                          *)
(* The network loses, repeats, delays and reorders names, and may damage    *)
(* them.  States live in memory: a restart makes a new one.  The MAC and    *)
(* the signature are predicates: right for what the sender signed, wrong    *)
(* for a damaged name or another key.  The verifier writes the time of the  *)
(* last command and never reads it: left out.                               *)
(***************************************************************************)
EXTENDS Integers, Sequences, FiniteSets

CONSTANTS Sender,       \* who makes authenticated names
          Kind,         \* how a sender authenticates: "symmetric" or "asymmetric"
          Trusted,      \* senders that have the key the verifier uses
          Provided,     \* kinds the verifier has a key for
          SeqSpan,      \* number of sequence numbers, 2^32 in the code
          IntSpan,      \* width of the int a difference of times is cut to
          Unit,         \* ticks of the clock in one of maxdiff_ms, 1000 in the code
          Window        \* values of maxdiff_ms callers pass, 0 for no limit

ASSUME NameCryptoAssumption ==
    /\ Kind \in [Sender -> {"symmetric", "asymmetric"}]
    /\ Trusted \subseteq Sender
    /\ SeqSpan \in Nat \ {0} /\ IntSpan \in Nat \ {0} /\ Unit \in Nat \ {0}
    /\ Window \subseteq Nat

CONSTANTS Clock,    \* the times that the clock may show
          MaxNames, MaxDamage, MaxRestarts    \* bounds of the runs

ASSUME BoundsAssumption ==
    Clock \subseteq Nat /\ 0 \in Clock /\ MaxNames \in Nat /\ MaxDamage \in Nat /\ MaxRestarts \in Nat

VARIABLES now,          \* the time
          seq,          \* sequence number in the state of each sender
          names,        \* authenticated names that have been made or damaged
          curr,         \* sequence number in the state of the verifier
          result,       \* what the last verifyCommand returned
          accepted,     \* history: the names accepted since the verifier's state is new
          moved,        \* history: a name that was not accepted moved that state
          damage, restarts    \* counted for the bounds

vars == <<now, seq, names, curr, result, accepted, moved, damage, restarts>>

Number == 0 .. SeqSpan - 1
Name == [from : Sender, seq : Number, time : Clock, intact : BOOLEAN]
Entry == [name : Name, age : Int, limit : Window]

-----------------------------------------------------------------------------
(* Sender                                                                   *)

\* Variant: the number does not wrap.
NextSeqNoWrap(n) == n + 1

\* update_state
NextSeq(n) == (n + 1) % SeqSpan

\* authenticateCommand and authenticateCommandSig, and the name is sent
Authenticate(s) ==
    /\ Cardinality(names) < MaxNames
    /\ seq' = [seq EXCEPT ![s] = NextSeq(@)]
    /\ names' = names \cup {[from |-> s, seq |-> NextSeq(seq[s]), time |-> now, intact |-> TRUE]}
    /\ UNCHANGED <<now, curr, result, accepted, moved, damage, restarts>>

\* nc_new_state: the sender was restarted
NewSender(s) == /\ restarts < MaxRestarts
                /\ seq' = [seq EXCEPT ![s] = 0]
                /\ restarts' = restarts + 1
                /\ UNCHANGED <<now, names, curr, result, accepted, moved, damage>>

-----------------------------------------------------------------------------
(* Verifier                                                                 *)

\* (int) of the difference in ticks of the clock
CutToInt(d) == ((d + IntSpan \div 2) % IntSpan) - IntSpan \div 2

Abs(d) == IF d < 0 THEN -d ELSE d

\* The difference as an int, in the unit of maxdiff_ms, rounded to zero; its absolute value.
AgeOf(n) == Abs(CutToInt(now - n.time)) \div Unit

\* Variant: the sequence number may be the same.
NotAfterEqual(n) == curr > n.seq

\* The state of the command is not newer, or too far from now (verify_update_state_freshness).
NotAfter(n) == curr >= n.seq

\* Variant: only a time before the verifier's counts.
ExpiredSigned(n, limit) == limit > 0 /\ CutToInt(now - n.time) \div Unit > limit

Expired(n, limit) == limit > 0 /\ AgeOf(n) > limit

\* The MAC or the signature is right.
Right(n) == n.intact /\ n.from \in Trusted

\* Variant: the state follows every command, also an expired one.
RejectAndMove(n, code) == /\ result' = code
                          /\ curr' = IF code = "expired" THEN n.seq ELSE curr
                          /\ UNCHANGED <<now, seq, names, accepted, moved, damage, restarts>>

Reject(n, code) == /\ result' = code
                   /\ UNCHANGED <<now, seq, names, curr, accepted, moved, damage, restarts>>

\* No component but the first begins with a magic number.
NoAuthenticator == /\ result' = "missing"
                   /\ UNCHANGED <<now, seq, names, curr, accepted, moved, damage, restarts>>

NoKey(n) == /\ Kind[n.from] \notin Provided
            /\ Reject(n, "no key")

Duplicate(n) == /\ Kind[n.from] \in Provided
                /\ NotAfter(n)
                /\ Reject(n, "duplicate")

TooOld(n, limit) == /\ Kind[n.from] \in Provided
                    /\ ~NotAfter(n) /\ Expired(n, limit)
                    /\ Reject(n, "expired")

\* The state is good and is taken over; then the MAC decides.
Verify(n, limit) ==
    /\ Kind[n.from] \in Provided
    /\ ~NotAfter(n) /\ ~Expired(n, limit)
    /\ curr' = n.seq
    /\ \/ /\ Right(n)
          /\ result' = "ok"
          /\ accepted' = Append(accepted, [name |-> n, age |-> now - n.time, limit |-> limit])
          /\ UNCHANGED moved
       \/ /\ ~Right(n)
          /\ result' = "failed"
          /\ moved' = TRUE
          /\ UNCHANGED accepted
    /\ UNCHANGED <<now, seq, names, damage, restarts>>

\* nc_new_state: the verifier was restarted
NewVerifier == /\ restarts < MaxRestarts
               /\ curr' = 0
               /\ accepted' = <<>>
               /\ moved' = FALSE
               /\ restarts' = restarts + 1
               /\ UNCHANGED <<now, seq, names, result, damage>>

-----------------------------------------------------------------------------
(* The network and time                                                     *)

\* Bits of a name are changed, those of the state among them.  A changed length
\* of the authenticator ends the process at an assertion (authentication.c:427,
\* 562), which is NewVerifier.  Components after the authenticator are covered by
\* no MAC (304-341): a name changed there is taken for the one that was signed.
Damage(n) == \E k \in Number :
                /\ damage < MaxDamage /\ Cardinality(names) < MaxNames
                /\ names' = names \cup {[from |-> n.from, seq |-> k, time |-> n.time, intact |-> FALSE]}
                /\ damage' = damage + 1
                /\ UNCHANGED <<now, seq, curr, result, accepted, moved, restarts>>

Tick == /\ now' \in {t \in Clock : t > now}
        /\ UNCHANGED <<seq, names, curr, result, accepted, moved, damage, restarts>>

Init == /\ now = 0
        /\ seq = [s \in Sender |-> 0]
        /\ names = {}
        /\ curr = 0
        /\ result = "none"
        /\ accepted = <<>>
        /\ moved = FALSE
        /\ damage = 0
        /\ restarts = 0

\* A name that was made stays: it may arrive never, late, twice, out of order.
Next == \/ \E s \in Sender : Authenticate(s) \/ NewSender(s)
        \/ NoAuthenticator
        \/ \E n \in names : \/ NoKey(n)
                            \/ Duplicate(n)
                            \/ \E limit \in Window : TooOld(n, limit) \/ Verify(n, limit)
                            \/ Damage(n)
        \/ NewVerifier
        \/ Tick

Spec == Init /\ [][Next]_vars

-----------------------------------------------------------------------------
(* Properties                                                               *)

TypeOK == /\ now \in Clock
          /\ seq \in [Sender -> Number]
          /\ names \subseteq Name
          /\ curr \in Number
          /\ result \in {"none", "missing", "no key", "duplicate", "expired", "failed", "ok"}
          /\ accepted \in Seq(Entry)
          /\ moved \in BOOLEAN
          /\ damage \in 0 .. MaxDamage
          /\ restarts \in 0 .. MaxRestarts

\* As long as the verifier keeps its state it accepts commands of one sequence, each
\* at most once and in order, whoever sent them and whatever the network repeats,
\* delays or damages (authentication.c:179), and only what a sender with the right
\* key signed (authentication.c:473, 595).
AcceptedOnceInOrder ==
    /\ \A i, j \in 1 .. Len(accepted) : i < j => accepted[i].name.seq < accepted[j].name.seq
    /\ \A i \in 1 .. Len(accepted) : Right(accepted[i].name)

\* The number the verifier refuses commands by is that of the last one it accepted,
\* unless a command that failed the MAC moved it (authentication.c:190 runs before
\* 473 and 595): only then is a command that nobody had sent yet a "duplicate".
StateIsLastAccepted ==
    ~moved => curr = IF accepted = <<>> THEN 0 ELSE accepted[Len(accepted)].name.seq

\* The longest time, in ticks, that is not above a limit.
Reach(limit) == Unit * (limit + 1) - 1

\* A command accepted under a limit was made within the limit of the verifier's
\* time, or so long ago that the difference no longer fits the int it is computed
\* in (authentication.c:185): after a restart such a command is taken once more.
FreshOrWrapped ==
    \A i \in 1 .. Len(accepted) :
        accepted[i].limit = 0 \/ Abs(accepted[i].age) <= Reach(accepted[i].limit)
                              \/ Abs(accepted[i].age) >= IntSpan - Reach(accepted[i].limit)

-----------------------------------------------------------------------------
(* The abstract view of the verifier *)

\* The names accepted, without what is remembered of their age.
AcceptedNames == [i \in 1 .. Len(accepted) |-> accepted[i].name]

Log == INSTANCE CommandLog WITH Command <- Name,
                                sent    <- {n \in names : Right(n)},
                                log     <- AcceptedNames,
                                last    <- curr

\* Whatever the network does with the names and whoever is restarted, the verifier
\* accepts only commands that were made with the right key, each at most once and
\* in the order of their numbers, and its number follows them unless a command
\* fails the MAC (authentication.c:176-192, 473, 595).
ImplementsLog == Log!Spec
=============================================================================
