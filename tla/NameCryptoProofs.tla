-------------------------- MODULE NameCryptoProofs --------------------------
(***************************************************************************)
(* What a verifier accepts, for every set of senders, every key             *)
(* distribution, every width of the numbers and every bound of the runs.    *)
(***************************************************************************)
EXTENDS NameCrypto, SequenceTheorems, TLAPS

\* No number accepted so far is above the one the next command has to exceed.
Below == \A i \in 1 .. Len(accepted) : accepted[i].name.seq <= curr

\* The inductive invariant.
IInv == /\ TypeOK
        /\ AcceptedOnceInOrder
        /\ Below
        /\ StateIsLastAccepted
        /\ FreshOrWrapped

\* The steps that leave the verifier alone.
Quiet == UNCHANGED <<curr, accepted, moved>>

-----------------------------------------------------------------------------
(* Arithmetic                                                               *)

\* A remainder, and the quotient it belongs to.
LEMMA Remainder == ASSUME NEW a \in Int, NEW m \in Nat \ {0}
                   PROVE  /\ a % m \in 0 .. m - 1
                          /\ \E k \in Int : a = k * m + (a % m)
<1>1. a % m \in 0 .. m - 1
  OBVIOUS
<1>2. a = (a \div m) * m + (a % m) /\ a \div m \in Int
  OBVIOUS
<1> QED  BY <1>1, <1>2

\* The next sequence number is one (update_state).
LEMMA NextSeqIsNumber == ASSUME NEW n \in Number PROVE NextSeq(n) \in Number
<1>1. n + 1 \in Int /\ SeqSpan \in Nat \ {0}
  BY NameCryptoAssumption DEF Number
<1> QED  BY <1>1, Remainder DEF Number, NextSeq

\* A difference that looks small as an int is small, or has wrapped.
LEMMA CutIsSmall ==
    ASSUME NEW d \in Int, NEW limit \in Nat, Abs(CutToInt(d)) <= limit
    PROVE  Abs(d) <= limit \/ Abs(d) >= IntSpan - limit
<1> DEFINE h == IntSpan \div 2
           r == (d + h) % IntSpan
<1>1. IntSpan \in Nat \ {0} /\ h \in Int
  BY NameCryptoAssumption
<1>2. CutToInt(d) = r - h
  BY DEF CutToInt
<1> HIDE DEF h
<1>3. d + h \in Int
  BY <1>1
<1>4. r \in Int /\ \E k \in Int : d + h = k * IntSpan + r
  <2>1. PICK a \in Int : a = d + h
    BY <1>3
  <2>2. \A m \in Nat \ {0} : a % m \in 0 .. m - 1 /\ \E k \in Int : a = k * m + (a % m)
    BY Remainder
  <2>3. a % IntSpan \in 0 .. IntSpan - 1 /\ \E k \in Int : a = k * IntSpan + (a % IntSpan)
    BY <1>1, <2>2
  <2>4. r = a % IntSpan
    BY <2>1
  <2> HIDE DEF r
  <2>5. r \in Int
    BY <1>1, <2>3, <2>4
  <2> QED  BY <2>1, <2>3, <2>4, <2>5
<1> HIDE DEF r
<1>5. PICK k \in Int : CutToInt(d) = d - k * IntSpan /\ k * IntSpan \in Int
  BY <1>1, <1>2, <1>4
<1>6. CASE k = 0
  BY <1>1, <1>5, <1>6 DEF Abs
<1>7. CASE k >= 1
  <2>1. k * IntSpan >= IntSpan
    BY <1>1, <1>7
  <2> QED  BY <1>1, <1>5, <2>1 DEF Abs
<1>8. CASE k <= -1
  <2>1. k * IntSpan <= -IntSpan
    BY <1>1, <1>8
  <2> QED  BY <1>1, <1>5, <2>1 DEF Abs
<1> QED  BY <1>6, <1>7, <1>8

\* A number whose quotient is not above l is less than l + 1 times the divisor.
LEMMA QuotientBound == ASSUME NEW a \in Nat, NEW u \in Nat \ {0}, NEW l \in Nat,
                              a \div u <= l
                       PROVE  u * (l + 1) - 1 \in Nat /\ a <= u * (l + 1) - 1
<1>1. PICK q \in Int, r \in 0 .. u - 1 : q = a \div u /\ a = q * u + r
  <2>1. a = (a \div u) * u + (a % u) /\ a \div u \in Int /\ a % u \in 0 .. u - 1
    OBVIOUS
  <2> QED  BY <2>1
<1>2. (l - q) * u >= 0
  <2>1. l - q \in Nat
    BY <1>1
  <2> QED  BY <2>1
<1>3. (l - q) * u = l * u - q * u /\ u * (l + 1) = l * u + u
  BY <1>1
<1>4. l * u \in Nat /\ q * u \in Int
  BY <1>1
<1> QED  BY <1>1, <1>2, <1>3, <1>4

-----------------------------------------------------------------------------
(* The invariant                                                            *)

LEMMA InitIInv == Init => IInv
<1> SUFFICES ASSUME Init PROVE IInv
  OBVIOUS
<1>1. TypeOK
  <2>1. 0 \in Number /\ 0 \in Clock /\ 0 \in 0 .. MaxDamage /\ 0 \in 0 .. MaxRestarts
    BY NameCryptoAssumption, BoundsAssumption DEF Number
  <2>2. seq \in [Sender -> Number] /\ names \subseteq Name
    BY <2>1 DEF Init
  <2>3. accepted \in Seq(Entry)
    BY DEF Init
  <2> QED  BY <2>1, <2>2, <2>3 DEF Init, TypeOK
<1>2. AcceptedOnceInOrder /\ Below /\ StateIsLastAccepted /\ FreshOrWrapped
  BY DEF Init, AcceptedOnceInOrder, Below, StateIsLastAccepted, FreshOrWrapped
<1> QED  BY <1>1, <1>2 DEF IInv

\* A step that leaves the verifier alone keeps what is said of it.
LEMMA QuietKeeps ==
    ASSUME IInv, Quiet
    PROVE  AcceptedOnceInOrder' /\ Below' /\ StateIsLastAccepted' /\ FreshOrWrapped'
BY DEF IInv, Quiet, AcceptedOnceInOrder, Below, StateIsLastAccepted, FreshOrWrapped, Right

\* A command that comes in is one that was made.
LEMMA EveryName == ASSUME TypeOK, NEW n \in names
                   PROVE  n \in Name /\ n.from \in Sender /\ n.seq \in Number /\ n.time \in Int
<1>1. n \in Name
  BY DEF TypeOK
<1>2. n.from \in Sender /\ n.seq \in Number /\ n.time \in Clock
  BY <1>1 DEF Name
<1>3. n.time \in Int
  <2>1. \A t \in Clock : t \in Int
    BY BoundsAssumption
  <2> QED  BY <1>2, <2>1
<1> QED  BY <1>1, <1>2, <1>3

\* What was accepted has a number.
LEMMA AcceptedNumbers == ASSUME TypeOK, NEW i \in 1 .. Len(accepted)
                         PROVE  accepted[i].name.seq \in Int
<1>1. accepted[i] \in Entry
  <2>1. accepted \in Seq(Entry)
    BY DEF TypeOK
  <2> QED  BY <2>1
<1>2. accepted[i].name \in Name
  BY <1>1 DEF Entry
<1>3. accepted[i].name.seq \in Number
  BY <1>2 DEF Name
<1> QED  BY <1>3 DEF Number

LEMMA AuthenticateKeeps == ASSUME IInv, NEW s \in Sender, Authenticate(s) PROVE IInv'
<1>1. seq[s] \in Number /\ now \in Clock
  BY DEF IInv, TypeOK
<1>2. NextSeq(seq[s]) \in Number
  BY <1>1, NextSeqIsNumber
<1>3. names' \subseteq Name
  <2>1. [from |-> s, seq |-> NextSeq(seq[s]), time |-> now, intact |-> TRUE] \in Name
    BY <1>1, <1>2 DEF Name
  <2>2. names \subseteq Name
    BY DEF IInv, TypeOK
  <2> QED  BY <2>1, <2>2 DEF Authenticate
<1>4. seq' \in [Sender -> Number]
  <2>1. seq \in [Sender -> Number] /\ seq' = [seq EXCEPT ![s] = NextSeq(seq[s])]
    BY DEF IInv, TypeOK, Authenticate
  <2> QED  BY <1>2, <2>1
<1>5. TypeOK'
  BY <1>3, <1>4 DEF IInv, TypeOK, Authenticate
<1> QED  BY <1>5, QuietKeeps DEF Authenticate, Quiet, IInv

LEMMA NewSenderKeeps == ASSUME IInv, NEW s \in Sender, NewSender(s) PROVE IInv'
<1>1. 0 \in Number
  BY NameCryptoAssumption DEF Number
<1>2. seq' \in [Sender -> Number]
  <2>1. seq \in [Sender -> Number] /\ seq' = [seq EXCEPT ![s] = 0]
    BY DEF IInv, TypeOK, NewSender
  <2> QED  BY <1>1, <2>1
<1>3. restarts' \in 0 .. MaxRestarts
  <2>1. restarts \in 0 .. MaxRestarts /\ restarts < MaxRestarts /\ restarts' = restarts + 1
    BY DEF IInv, TypeOK, NewSender
  <2> QED  BY <2>1, BoundsAssumption
<1>4. TypeOK'
  BY <1>2, <1>3 DEF IInv, TypeOK, NewSender
<1> QED  BY <1>4, QuietKeeps DEF NewSender, Quiet, IInv

LEMMA RejectKeeps ==
    ASSUME IInv, NEW n, NEW code \in {"no key", "duplicate", "expired"}, Reject(n, code)
    PROVE  IInv'
<1>1. TypeOK'
  BY DEF IInv, TypeOK, Reject
<1> QED  BY <1>1, QuietKeeps DEF Reject, Quiet, IInv

LEMMA NoAuthenticatorKeeps == ASSUME IInv, NoAuthenticator PROVE IInv'
<1>1. TypeOK'
  BY DEF IInv, TypeOK, NoAuthenticator
<1> QED  BY <1>1, QuietKeeps DEF NoAuthenticator, Quiet, IInv

LEMMA DamageKeeps == ASSUME IInv, NEW n \in names, Damage(n) PROVE IInv'
<1>1. PICK k \in Number : /\ damage < MaxDamage
                          /\ names' = names \cup {[from |-> n.from, seq |-> k, time |-> n.time, intact |-> FALSE]}
                          /\ damage' = damage + 1
                          /\ UNCHANGED <<now, seq, curr, result, accepted, moved, restarts>>
  BY DEF Damage
<1>2. n \in Name
  BY EveryName DEF IInv
<1>3. [from |-> n.from, seq |-> k, time |-> n.time, intact |-> FALSE] \in Name
  BY <1>2 DEF Name
<1>4. names' \subseteq Name
  <2>1. names \subseteq Name
    BY DEF IInv, TypeOK
  <2> QED  BY <1>1, <1>3, <2>1
<1>5. damage' \in 0 .. MaxDamage
  <2>1. damage \in 0 .. MaxDamage /\ damage < MaxDamage /\ damage' = damage + 1
    BY <1>1 DEF IInv, TypeOK
  <2> QED  BY <2>1, BoundsAssumption
<1>6. TypeOK'
  BY <1>1, <1>4, <1>5 DEF IInv, TypeOK
<1> QED  BY <1>1, <1>6, QuietKeeps DEF Quiet, IInv

LEMMA TickKeeps == ASSUME IInv, Tick PROVE IInv'
<1>1. now' \in Clock
  BY DEF Tick
<1>2. TypeOK'
  BY <1>1 DEF IInv, TypeOK, Tick
<1> QED  BY <1>2, QuietKeeps DEF Tick, Quiet, IInv

LEMMA NewVerifierKeeps == ASSUME IInv, NewVerifier PROVE IInv'
<1>1. TypeOK'
  <2>1. 0 \in Number
    BY NameCryptoAssumption DEF Number
  <2>2. restarts' \in 0 .. MaxRestarts
    <3>1. restarts \in 0 .. MaxRestarts /\ restarts < MaxRestarts /\ restarts' = restarts + 1
      BY DEF IInv, TypeOK, NewVerifier
    <3> QED  BY <3>1, BoundsAssumption
  <2>3. accepted' \in Seq(Entry)
    BY DEF NewVerifier
  <2> QED  BY <2>1, <2>2, <2>3 DEF IInv, TypeOK, NewVerifier
<1>2. (AcceptedOnceInOrder /\ Below /\ StateIsLastAccepted /\ FreshOrWrapped)'
  BY DEF NewVerifier, AcceptedOnceInOrder, Below, StateIsLastAccepted, FreshOrWrapped
<1> QED  BY <1>1, <1>2 DEF IInv

\* Taking a command over: the number grows, and it is the last one accepted
\* unless the MAC was wrong.
LEMMA VerifyKeeps ==
    ASSUME IInv, NEW n \in names, NEW limit \in Window, Verify(n, limit)
    PROVE  IInv'
<1> DEFINE e == [name |-> n, age |-> now - n.time, limit |-> limit]
<1>1. n \in Name /\ n.seq \in Number /\ n.time \in Int /\ now \in Int /\ limit \in Nat
  <2>1. TypeOK
    BY DEF IInv
  <2>2. now \in Clock
    BY <2>1 DEF TypeOK
  <2> QED  BY <2>1, <2>2, EveryName, NameCryptoAssumption, BoundsAssumption
<1>2. e \in Entry
  BY <1>1 DEF Entry
<1>3. curr' = n.seq /\ curr < n.seq /\ curr \in Number
  <2>1. curr \in Number /\ ~(curr >= n.seq) /\ curr' = n.seq
    BY DEF Verify, NotAfter, IInv, TypeOK
  <2> QED  BY <1>1, <2>1, NameCryptoAssumption DEF Number
<1>4. accepted \in Seq(Entry)
  BY DEF IInv, TypeOK
<1>5. CASE ~Right(n)
  <2>1. accepted' = accepted /\ moved' = TRUE /\ result' = "failed"
    BY <1>5 DEF Verify
  <2>2. TypeOK'
    BY <1>1, <1>3, <2>1 DEF Verify, IInv, TypeOK
  <2>3. Below'
    <3>1. \A i \in 1 .. Len(accepted) : accepted[i].name.seq \in Int
      BY AcceptedNumbers DEF IInv
    <3> QED  BY <1>1, <1>3, <2>1, <3>1 DEF Below, IInv, Number
  <2>4. StateIsLastAccepted'
    BY <2>1 DEF StateIsLastAccepted
  <2>5. AcceptedOnceInOrder' /\ FreshOrWrapped'
    BY <2>1 DEF IInv, AcceptedOnceInOrder, FreshOrWrapped, Right
  <2> QED  BY <2>2, <2>3, <2>4, <2>5 DEF IInv
<1>6. CASE Right(n)
  <2>1. accepted' = Append(accepted, e) /\ moved' = moved /\ result' = "ok"
    BY <1>6 DEF Verify
  <2> HIDE DEF e
  <2>2. /\ accepted' \in Seq(Entry)
        /\ Len(accepted') = Len(accepted) + 1
        /\ accepted'[Len(accepted) + 1] = e
        /\ \A i \in 1 .. Len(accepted) : accepted'[i] = accepted[i]
        /\ Len(accepted) \in Nat
    BY <1>2, <1>4, <2>1
  <2>3. \A i \in 1 .. Len(accepted') : i \in 1 .. Len(accepted) \/ i = Len(accepted) + 1
    BY <2>2
  <2>4. e.name = n /\ e.age = now - n.time /\ e.limit = limit
    BY DEF e
  <2>5. \A i \in 1 .. Len(accepted) :
            accepted[i].name.seq \in Int /\ accepted[i].name.seq < n.seq
    <3>1. \A i \in 1 .. Len(accepted) : accepted[i].name.seq \in Int
      BY AcceptedNumbers DEF IInv
    <3> QED  BY <1>1, <1>3, <3>1 DEF IInv, Below, Number
  <2>6. TypeOK'
    BY <1>1, <1>3, <2>1, <2>2 DEF Verify, IInv, TypeOK
  <2>7. AcceptedOnceInOrder'
    <3>1. ASSUME NEW i \in 1 .. Len(accepted'), NEW j \in 1 .. Len(accepted'), i < j
          PROVE  accepted'[i].name.seq < accepted'[j].name.seq
      <4>1. i \in 1 .. Len(accepted)
        BY <2>2, <3>1
      <4>2. CASE j \in 1 .. Len(accepted)
        BY <2>2, <3>1, <4>1, <4>2 DEF IInv, AcceptedOnceInOrder
      <4>3. CASE j = Len(accepted) + 1
        BY <2>2, <2>4, <2>5, <4>1, <4>3
      <4> QED  BY <2>3, <4>2, <4>3
    <3>2. ASSUME NEW i \in 1 .. Len(accepted') PROVE Right(accepted'[i].name)
      <4>1. CASE i \in 1 .. Len(accepted)
        BY <2>2, <4>1 DEF IInv, AcceptedOnceInOrder
      <4>2. CASE i = Len(accepted) + 1
        BY <1>6, <2>2, <2>4, <4>2
      <4> QED  BY <2>3, <4>1, <4>2
    <3> QED  BY <3>1, <3>2 DEF AcceptedOnceInOrder, Right
  <2>8. Below'
    BY <1>1, <1>3, <2>2, <2>3, <2>4, <2>5 DEF Below, Number
  <2>9. StateIsLastAccepted'
    BY <1>3, <2>2, <2>4 DEF StateIsLastAccepted
  <2>10. FreshOrWrapped'
    <3>1. \/ limit = 0
          \/ Abs(now - n.time) <= Reach(limit)
          \/ Abs(now - n.time) >= IntSpan - Reach(limit)
      <4>1. CASE limit = 0
        BY <4>1
      <4>2. CASE limit > 0
        <5>1. ~(AgeOf(n) > limit)
          BY <4>2 DEF Verify, Expired
        <5>2. PICK d \in Int : d = now - n.time
          BY <1>1
        <5>3. CutToInt(d) \in Int
          BY NameCryptoAssumption DEF CutToInt
        <5>4. PICK a \in Nat : a = Abs(CutToInt(d))
          BY <5>3 DEF Abs
        <5>5. Unit \in Nat \ {0} /\ a \div Unit <= limit
          <6>1. Unit \in Nat \ {0}
            BY NameCryptoAssumption
          <6>2. a \div Unit \in Int /\ AgeOf(n) = a \div Unit
            BY <5>2, <5>4, <6>1 DEF AgeOf
          <6> QED  BY <1>1, <5>1, <6>1, <6>2
        <5>6. Reach(limit) \in Nat /\ a <= Reach(limit)
          BY <1>1, <5>5, QuotientBound DEF Reach
        <5> QED  BY <5>2, <5>4, <5>6, CutIsSmall
      <4> QED  BY <1>1, <4>1, <4>2
    <3>2. ASSUME NEW i \in 1 .. Len(accepted')
          PROVE  \/ accepted'[i].limit = 0
                 \/ Abs(accepted'[i].age) <= Reach(accepted'[i].limit)
                 \/ Abs(accepted'[i].age) >= IntSpan - Reach(accepted'[i].limit)
      <4>1. CASE i \in 1 .. Len(accepted)
        BY <2>2, <4>1 DEF IInv, FreshOrWrapped
      <4>2. CASE i = Len(accepted) + 1
        BY <2>2, <2>4, <3>1, <4>2
      <4> QED  BY <2>3, <4>1, <4>2
    <3> QED  BY <3>2 DEF FreshOrWrapped
  <2> QED  BY <2>6, <2>7, <2>8, <2>9, <2>10 DEF IInv
<1> QED  BY <1>5, <1>6

LEMMA NextKeeps == ASSUME IInv, [Next]_vars PROVE IInv'
<1>1. ASSUME NEW s \in Sender, Authenticate(s) \/ NewSender(s) PROVE IInv'
  BY <1>1, AuthenticateKeeps, NewSenderKeeps
<1>2. CASE NoAuthenticator
  BY <1>2, NoAuthenticatorKeeps
<1>3. ASSUME NEW n \in names, NoKey(n) PROVE IInv'
  BY <1>3, RejectKeeps DEF NoKey
<1>4. ASSUME NEW n \in names, Duplicate(n) PROVE IInv'
  BY <1>4, RejectKeeps DEF Duplicate
<1>5. ASSUME NEW n \in names, NEW limit \in Window, TooOld(n, limit) PROVE IInv'
  BY <1>5, RejectKeeps DEF TooOld
<1>6. ASSUME NEW n \in names, NEW limit \in Window, Verify(n, limit) PROVE IInv'
  BY <1>6, VerifyKeeps
<1>7. ASSUME NEW n \in names, Damage(n) PROVE IInv'
  BY <1>7, DamageKeeps
<1>8. CASE NewVerifier
  BY <1>8, NewVerifierKeeps
<1>9. CASE Tick
  BY <1>9, TickKeeps
<1>10. CASE UNCHANGED vars
  <2>1. TypeOK'
    BY <1>10 DEF vars, IInv, TypeOK
  <2> QED  BY <1>10, <2>1, QuietKeeps DEF vars, Quiet, IInv
<1> QED  BY <1>1, <1>2, <1>3, <1>4, <1>5, <1>6, <1>7, <1>8, <1>9, <1>10 DEF Next

\* The inductive invariant holds in every execution: what was accepted stays in
\* order, not above the number the next command has to exceed (verifyCommandSymm,
\* verifyCommandSig move that number and never back).
THEOREM Invariance == Spec => []IInv
<1> QED  BY InitIInv, NextKeeps, PTL DEF Spec

-----------------------------------------------------------------------------
(* Theorems                                                                 *)

\* Every variable keeps its type (state_init, update_state: the number stays in its width).
THEOREM TypeCorrect == Spec => []TypeOK
<1>1. IInv => TypeOK
  BY DEF IInv
<1> QED  BY <1>1, Invariance, PTL

\* A verifier that keeps its state accepts each command at most once, in the order
\* of the numbers, and only with the right MAC or signature (verifyCommand).
THEOREM AcceptsOnceInOrder == Spec => []AcceptedOnceInOrder
<1>1. IInv => AcceptedOnceInOrder
  BY DEF IInv
<1> QED  BY <1>1, Invariance, PTL

\* Only a command that fails the MAC separates the number a verifier refuses
\* commands by from the last one it accepted (verify_update_state_freshness).
THEOREM StateFollowsAccepted == Spec => []StateIsLastAccepted
<1>1. IInv => StateIsLastAccepted
  BY DEF IInv
<1> QED  BY <1>1, Invariance, PTL

\* A command accepted under a limit is fresh, or older than the int its age is
\* computed in can say (verify_update_state_freshness).
THEOREM AcceptsFreshOrWrapped == Spec => []FreshOrWrapped
<1>1. IInv => FreshOrWrapped
  BY DEF IInv
<1> QED  BY <1>1, Invariance, PTL

-----------------------------------------------------------------------------
(* The refinement                                                           *)

\* The accepted names grow with what is accepted.
LEMMA NamesGrow ==
    ASSUME NEW e \in Entry, accepted \in Seq(Entry), accepted' = Append(accepted, e)
    PROVE  AcceptedNames' = Append(AcceptedNames, e.name)
<1> DEFINE n == Len(accepted)
<1>1. /\ n \in Nat /\ Len(accepted') = n + 1
      /\ accepted'[n + 1] = e
      /\ \A i \in 1 .. n : accepted'[i] = accepted[i]
  BY AppendProperties, LenProperties
<1>2. \A i \in 1 .. n : accepted[i] \in Entry /\ accepted[i].name \in Name
  <2>1. ASSUME NEW i \in 1 .. n PROVE accepted[i] \in Entry
    BY ElementOfSeq
  <2> QED  BY <2>1 DEF Entry
<1>3. AcceptedNames \in Seq(Name) /\ Len(AcceptedNames) = n
  <2>1. AcceptedNames \in [1 .. n -> Name]
    BY <1>2 DEF AcceptedNames
  <2> HIDE DEF n
  <2>2. AcceptedNames \in Seq(Name)
    <3>1. Seq(Name) = UNION {[1 .. m -> Name] : m \in Nat}
      BY SeqDef
    <3>2. [1 .. n -> Name] \in {[1 .. m -> Name] : m \in Nat}
      BY <1>1
    <3> QED  BY <2>1, <3>1, <3>2
  <2>3. Len(AcceptedNames) \in Nat /\ 1 .. Len(AcceptedNames) = 1 .. n
    <3>1. DOMAIN AcceptedNames = 1 .. n
      BY <2>1
    <3> QED  BY <2>2, <3>1, LenProperties
  <2> QED  BY <1>1, <2>2, <2>3
<1>4. e.name \in Name
  BY DEF Entry
<1>5. /\ Append(AcceptedNames, e.name) \in Seq(Name)
      /\ Len(Append(AcceptedNames, e.name)) = n + 1
      /\ Append(AcceptedNames, e.name)[n + 1] = e.name
      /\ \A i \in 1 .. n : Append(AcceptedNames, e.name)[i] = AcceptedNames[i]
  BY <1>3, <1>4, AppendProperties
<1>6. AcceptedNames' = [i \in 1 .. n + 1 |-> accepted'[i].name]
  BY <1>1 DEF AcceptedNames
<1> HIDE DEF n
<1>7. \A i \in 1 .. n + 1 : accepted'[i].name = Append(AcceptedNames, e.name)[i]
  <2>1. ASSUME NEW i \in 1 .. n + 1 PROVE i \in 1 .. n \/ i = n + 1
    BY <1>1
  <2>2. \A i \in 1 .. n : AcceptedNames[i] = accepted[i].name
    BY DEF AcceptedNames, n
  <2> QED  BY <1>1, <1>5, <2>1, <2>2
<1>8. Append(AcceptedNames, e.name) = [i \in 1 .. n + 1 |-> Append(AcceptedNames, e.name)[i]]
  BY <1>1, <1>5, LenProperties
<1> QED  BY <1>6, <1>7, <1>8

\* A command that is made is signed with its sender's key.
LEMMA AuthenticateSends ==
    ASSUME IInv, NEW s \in Sender, Authenticate(s) PROVE [Log!Send]_(Log!vars)
<1> DEFINE n == [from |-> s, seq |-> NextSeq(seq[s]), time |-> now, intact |-> TRUE]
<1>1. n \in Name
  BY NextSeqIsNumber DEF IInv, TypeOK, Name
<1>2. n.from = s /\ n.intact = TRUE /\ names' = names \cup {n}
  BY DEF Authenticate
<1>3. UNCHANGED <<curr, accepted, moved>>
  BY DEF Authenticate
<1> HIDE DEF n
<1>4. CASE s \in Trusted
  <2>1. {m \in names : Right(m)}' = {m \in names : Right(m)} \cup {n}
    BY <1>2, <1>4 DEF Right
  <2> QED  BY <1>1, <1>3, <2>1 DEF Log!Send, AcceptedNames
<1>5. CASE s \notin Trusted
  <2>1. {m \in names : Right(m)}' = {m \in names : Right(m)}
    BY <1>2, <1>5 DEF Right
  <2> QED  BY <1>3, <2>1 DEF Log!vars, AcceptedNames
<1> QED  BY <1>4, <1>5

\* A damaged name is none that was signed.
LEMMA DamageStutters ==
    ASSUME NEW n \in names, Damage(n) PROVE UNCHANGED Log!vars
<1>1. PICK k \in Number :
        names' = names \cup {[from |-> n.from, seq |-> k, time |-> n.time, intact |-> FALSE]}
  BY DEF Damage
<1>2. {m \in names : Right(m)}' = {m \in names : Right(m)}
  BY <1>1 DEF Right
<1> QED  BY <1>2 DEF Damage, Log!vars, AcceptedNames

\* The state is taken over: for a right MAC the command is accepted, for a wrong
\* one the number jumps.
LEMMA VerifyMoves ==
    ASSUME IInv, NEW n \in names, NEW limit \in Window, Verify(n, limit)
    PROVE  Log!Accept \/ Log!Jump
<1>1. curr \in Number /\ n.seq \in Number /\ n \in Name /\ n.time \in Int
  BY EveryName DEF IInv, TypeOK
<1>2. curr' = n.seq /\ n.seq > curr /\ n.seq \in Nat
  BY <1>1, NameCryptoAssumption DEF Verify, NotAfter, Number
<1>3. {m \in names : Right(m)}' = {m \in names : Right(m)}
  BY DEF Verify, Right
<1>4. CASE Right(n)
  <2> DEFINE e == [name |-> n, age |-> now - n.time, limit |-> limit]
  <2>1. accepted' = Append(accepted, e) /\ moved' = moved
    BY <1>4 DEF Verify
  <2>2. e \in Entry /\ e.name = n
    <3>1. now \in Clock
      BY DEF IInv, TypeOK
    <3>2. now \in Int
      BY <3>1, BoundsAssumption
    <3> QED  BY <1>1, <3>2 DEF Entry
  <2> HIDE DEF e
  <2>3. AcceptedNames' = Append(AcceptedNames, n)
    BY <2>1, <2>2, NamesGrow DEF IInv, TypeOK
  <2> QED  BY <1>2, <1>3, <1>4, <2>1, <2>3 DEF Log!Accept
<1>5. CASE ~Right(n)
  BY <1>2, <1>3, <1>5 DEF Verify, Log!Jump, AcceptedNames
<1> QED  BY <1>4, <1>5

\* The verifier keeps the promise of CommandLog: each step of the sender, the
\* network and the verifier is one of its log or leaves it alone
\* (verifyCommandSymm, verifyCommandSig, verify_update_state_freshness).
THEOREM VerifierImplementsLog == Spec => ImplementsLog
<1>1. Init => Log!Init
  BY DEF Init, Log!Init, AcceptedNames
<1>2. IInv /\ [Next]_vars => [Log!Next]_(Log!vars)
  <2> SUFFICES ASSUME IInv, [Next]_vars PROVE [Log!Next]_(Log!vars)
    OBVIOUS
  <2>1. ASSUME NEW s \in Sender, Authenticate(s) PROVE [Log!Next]_(Log!vars)
    BY <2>1, AuthenticateSends DEF Log!Next
  <2>2. ASSUME NEW n \in names, Damage(n) PROVE UNCHANGED Log!vars
    BY <2>2, DamageStutters
  <2>3. ASSUME NEW n \in names, NEW limit \in Window, Verify(n, limit) PROVE Log!Next
    BY <2>3, VerifyMoves DEF Log!Next
  <2>4. ASSUME UNCHANGED <<names, curr, accepted, moved>> PROVE UNCHANGED Log!vars
    BY <2>4 DEF Log!vars, AcceptedNames, Right
  <2>5. ASSUME NEW n, NEW code, Reject(n, code) PROVE UNCHANGED <<names, curr, accepted, moved>>
    BY <2>5 DEF Reject
  <2>6. CASE NewVerifier
    <3>1. AcceptedNames' = <<>> /\ {m \in names : Right(m)}' = {m \in names : Right(m)}
      BY <2>6 DEF NewVerifier, AcceptedNames, Right
    <3> QED  BY <2>6, <3>1 DEF NewVerifier, Log!Next, Log!Restart
  <2>7. ASSUME (\E s \in Sender : NewSender(s)) \/ NoAuthenticator \/ Tick \/ UNCHANGED vars
        PROVE  UNCHANGED <<names, curr, accepted, moved>>
    BY <2>7 DEF NewSender, NoAuthenticator, Tick, vars
  <2>8. ASSUME NEW n \in names, \/ NoKey(n) \/ Duplicate(n)
                                \/ \E limit \in Window : TooOld(n, limit)
        PROVE  UNCHANGED <<names, curr, accepted, moved>>
    BY <2>5, <2>8 DEF NoKey, Duplicate, TooOld
  <2> QED  BY <2>1, <2>2, <2>3, <2>4, <2>6, <2>7, <2>8 DEF Next
<1> QED  BY <1>1, <1>2, Invariance, PTL DEF Spec, ImplementsLog, Log!Spec
=============================================================================
