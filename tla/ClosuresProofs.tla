--------------------------- MODULE ClosuresProofs ---------------------------
(***************************************************************************)
(* Reference counts of closures and capsules, and the answers of a          *)
(* TrivialExpressClosure, for any finite number of capsules and any number  *)
(* of closures, prefixes and nested upcalls; and that Closures implements   *)
(* ClosureLife.                                                             *)
(***************************************************************************)
EXTENDS Closures, FiniteSetTheorems, SequenceTheorems, TLAPS

\* Who refers to closure k: the capsules, and the handlers on a stack of upcalls.
CapsOf(ctx, k) == {c \in Capsule : ctx[c] = k}
FramesOf(fr, k) == {i \in DOMAIN fr : fr[i].method = k}

\* The capsules a FINAL upcall on the stack will drop.
FinalOf(fr) == {c \in Capsule : \E i \in DOMAIN fr : fr[i].cap = c /\ fr[i].kind = "final"}

\* The stack: only the innermost handler is still to call Python, only the
\* outermost is for a packet or a timeout, and a capsule has one FINAL upcall.
StackOK(fr) == /\ fr \in Seq(Frame)
               /\ \A i \in DOMAIN fr : /\ fr[i].method = None => i = 1
                                       /\ fr[i].kind # "final" => i = Len(fr)
               /\ \A i, j \in DOMAIN fr :
                     /\ fr[i].kind = "final" /\ fr[j].kind = "final"
                     /\ fr[i].cap = fr[j].cap
                     => i = j

\* The outermost handler works for what libndn has in its tables, on the closure
\* of the capsule it was called with.
StackServes(fr) == \A i \in DOMAIN fr :
    /\ fr[i].kind \in InterestKinds => /\ fr[i].cap \in interests
                                       /\ fr[i].method \in {None, context[fr[i].cap]}
    /\ fr[i].kind = "interest" /\ fr[i].method = None => fr[i].cap \in Filtering

-----------------------------------------------------------------------------
(* Lemmas about the stack                                                   *)

LEMMA FrameIs == ASSUME NEW c \in Capsule, NEW kind \in Kinds
                 PROVE  /\ Upcall(c, kind) \in Frame
                        /\ Upcall(c, kind).cap = c
                        /\ Upcall(c, kind).kind = kind
                        /\ Upcall(c, kind).method = None
BY DEF Upcall, Frame

LEMMA FrameParts == ASSUME NEW u \in Frame
                    PROVE  u.cap \in Capsule /\ u.kind \in Kinds /\ u.method \in Closure \cup {None}
BY DEF Frame

LEMMA StackIs == ASSUME NEW fr \in Seq(Frame)
                 PROVE  /\ Len(fr) \in Nat
                        /\ DOMAIN fr = 1..Len(fr)
                        /\ \A i \in DOMAIN fr : fr[i] \in Frame
                        /\ fr # <<>> <=> Len(fr) > 0
                        /\ fr # <<>> => 1 \in DOMAIN fr
<1>1. Len(fr) \in Nat /\ DOMAIN fr = 1..Len(fr) /\ \A i \in DOMAIN fr : fr[i] \in Frame
  BY LenProperties, ElementOfSeq
<1>2. fr # <<>> <=> Len(fr) > 0
  BY <1>1, EmptySeq
<1> QED  BY <1>1, <1>2

LEMMA EmptyStack == DOMAIN <<>> = {}
OBVIOUS

LEMMA Pushed == ASSUME NEW fr \in Seq(Frame), NEW u \in Frame
                PROVE  LET n == <<u>> \o fr
                       IN  /\ n \in Seq(Frame)
                           /\ Len(n) = Len(fr) + 1
                           /\ n # <<>>
                           /\ n[1] = u
                           /\ \A i \in DOMAIN fr : i + 1 \in DOMAIN n /\ n[i + 1] = fr[i]
                           /\ \A j \in DOMAIN n : j = 1 \/ j - 1 \in DOMAIN fr
<1> DEFINE n == <<u>> \o fr
<1>1. <<u>> \in Seq(Frame) /\ Len(<<u>>) = 1 /\ <<u>>[1] = u
  OBVIOUS
<1>2. /\ n \in Seq(Frame)
      /\ Len(n) = Len(<<u>>) + Len(fr)
      /\ \A i \in 1..Len(<<u>>) + Len(fr) : n[i] = IF i <= Len(<<u>>) THEN <<u>>[i] ELSE fr[i - Len(<<u>>)]
  BY <1>1, ConcatProperties
<1>3. /\ Len(fr) \in Nat /\ DOMAIN fr = 1..Len(fr) /\ DOMAIN n = 1..Len(n)
      /\ n # <<>> <=> Len(n) > 0
  BY <1>2, StackIs
<1> HIDE DEF n
<1>4. Len(n) = Len(fr) + 1 /\ n # <<>> /\ n[1] = u
  BY <1>1, <1>2, <1>3
<1>5. \A i \in DOMAIN fr : i + 1 \in DOMAIN n /\ n[i + 1] = fr[i]
  BY <1>1, <1>2, <1>3, <1>4
<1>6. \A j \in DOMAIN n : j = 1 \/ j - 1 \in DOMAIN fr
  BY <1>3, <1>4
<1> QED  BY <1>2, <1>4, <1>5, <1>6 DEF n

LEMMA Popped == ASSUME NEW fr \in Seq(Frame), fr # <<>>
                PROVE  LET n == Tail(fr)
                       IN  /\ n \in Seq(Frame)
                           /\ Len(n) = Len(fr) - 1
                           /\ \A i \in DOMAIN n : i + 1 \in DOMAIN fr /\ n[i] = fr[i + 1]
                           /\ \A j \in DOMAIN fr : j = 1 \/ j - 1 \in DOMAIN n
<1> DEFINE n == Tail(fr)
<1>1. /\ n \in Seq(Frame)
      /\ Len(n) = Len(fr) - 1
      /\ \A i \in 1..Len(n) : n[i] = fr[i + 1]
  BY HeadTailProperties
<1>2. Len(fr) \in Nat /\ DOMAIN fr = 1..Len(fr) /\ DOMAIN n = 1..Len(n)
  BY <1>1, StackIs
<1> HIDE DEF n
<1> QED  BY <1>1, <1>2 DEF n

\* The innermost handler has its method.
LEMMA MethodSet == ASSUME NEW fr \in Seq(Frame), fr # <<>>, NEW m \in Closure \cup {None}
                 PROVE  LET n == [fr EXCEPT ![1].method = m]
                        IN  /\ n \in Seq(Frame)
                            /\ Len(n) = Len(fr) /\ DOMAIN n = DOMAIN fr
                            /\ n # <<>>
                            /\ n[1] = [fr[1] EXCEPT !.method = m]
                            /\ n[1].method = m
                            /\ \A i \in DOMAIN fr : /\ i # 1 => n[i] = fr[i]
                                                    /\ n[i].cap = fr[i].cap
                                                    /\ n[i].kind = fr[i].kind
<1>1. Len(fr) \in Nat /\ DOMAIN fr = 1..Len(fr) /\ 1 \in 1..Len(fr) /\ fr[1] \in Frame
  BY StackIs
<1> DEFINE e == [fr[1] EXCEPT !.method = m]
           n == [fr EXCEPT ![1] = e]
<1>2. e \in Frame /\ e.method = m /\ e.cap = fr[1].cap /\ e.kind = fr[1].kind
  BY <1>1 DEF Frame
<1> HIDE DEF e
<1>3. /\ n \in Seq(Frame)
      /\ Len(n) = Len(fr)
      /\ \A j \in 1 .. Len(fr) : n[j] = IF j = 1 THEN e ELSE fr[j]
  BY <1>1, <1>2, ExceptSeq
<1>4. DOMAIN n = 1..Len(fr) /\ (n # <<>> <=> Len(n) > 0)
  BY <1>3, StackIs
<1>5. n = [fr EXCEPT ![1].method = m]
  BY DEF e
<1> HIDE DEF n
<1>6. /\ n # <<>>
      /\ \A i \in DOMAIN fr : /\ i # 1 => n[i] = fr[i]
                              /\ n[i].cap = fr[i].cap
                              /\ n[i].kind = fr[i].kind
  BY <1>1, <1>2, <1>3, <1>4
<1>7. n[1] = e
  BY <1>1, <1>3
<1>8. e = [fr[1] EXCEPT !.method = m]
  BY DEF e
<1> QED  BY <1>1, <1>2, <1>3, <1>4, <1>5, <1>6, <1>7, <1>8

-----------------------------------------------------------------------------
(* Lemmas about counting                                                    *)

\* Moving every index on by one does not change how many there are.
LEMMA Shifted == ASSUME NEW S \in SUBSET Int, IsFiniteSet(S)
                 PROVE  /\ IsFiniteSet({i + 1 : i \in S})
                        /\ Cardinality({i + 1 : i \in S}) = Cardinality(S)
<1> DEFINE T == {i + 1 : i \in S}
           f == [i \in S |-> i + 1]
<1>1. f \in Bijection(S, T)
  BY DEF Bijection, Injection, Surjection, IsInjective
<1>2. ExistsBijection(S, T)
  BY <1>1 DEF ExistsBijection
<1> QED  BY <1>2, FS_Bijection

LEMMA FramesFinite == ASSUME NEW fr \in Seq(Frame), NEW k
                      PROVE  /\ IsFiniteSet(FramesOf(fr, k))
                             /\ Cardinality(FramesOf(fr, k)) \in Nat
                             /\ FramesOf(fr, k) \in SUBSET Int
<1>1. Len(fr) \in Nat /\ DOMAIN fr = 1..Len(fr)
  BY StackIs
<1>2. FramesOf(fr, k) \subseteq 1..Len(fr)
  BY <1>1 DEF FramesOf
<1>3. IsFiniteSet(1..Len(fr))
  BY <1>1, FS_Interval
<1>4. IsFiniteSet(FramesOf(fr, k))
  BY <1>2, <1>3, FS_Subset
<1> QED  BY <1>2, <1>4, FS_CardinalityType

\* A handler that has not called Python refers to nothing.
LEMMA PushCounts == ASSUME NEW fr \in Seq(Frame), NEW u \in Frame, NEW k \in Closure,
                           u.method = None
                    PROVE  Cardinality(FramesOf(<<u>> \o fr, k)) = Cardinality(FramesOf(fr, k))
<1> DEFINE n == <<u>> \o fr
<1>1. /\ n \in Seq(Frame) /\ n[1] = u /\ n # <<>>
      /\ \A i \in DOMAIN fr : i + 1 \in DOMAIN n /\ n[i + 1] = fr[i]
      /\ \A j \in DOMAIN n : j = 1 \/ j - 1 \in DOMAIN fr
  BY Pushed
<1>2. DOMAIN n \in SUBSET Int /\ DOMAIN fr \in SUBSET Int
  BY <1>1, StackIs
<1> HIDE DEF n
<1>3. k # None
  BY ClosuresAssumption
<1>4. FramesOf(n, k) \subseteq {i + 1 : i \in FramesOf(fr, k)}
  <2> SUFFICES ASSUME NEW j \in DOMAIN n, n[j].method = k
               PROVE  j \in {i + 1 : i \in FramesOf(fr, k)}
    BY DEF FramesOf
  <2>1. j # 1 /\ j \in Int
    BY <1>1, <1>2, <1>3
  <2>2. j - 1 \in DOMAIN fr /\ (j - 1) + 1 = j
    BY <2>1, <1>1
  <2>3. n[(j - 1) + 1] = fr[j - 1]
    BY <2>2, <1>1
  <2>4. fr[j - 1].method = k
    BY <2>2, <2>3
  <2> QED  BY <2>2, <2>4 DEF FramesOf
<1>5. {i + 1 : i \in FramesOf(fr, k)} \subseteq FramesOf(n, k)
  BY <1>1 DEF FramesOf
<1>6. FramesOf(n, k) = {i + 1 : i \in FramesOf(fr, k)}
  BY <1>4, <1>5
<1> QED  BY <1>6, FramesFinite, Shifted DEF n

LEMMA PopCounts == ASSUME NEW fr \in Seq(Frame), fr # <<>>, NEW k \in Closure
                   PROVE  Cardinality(FramesOf(Tail(fr), k)) =
                             Cardinality(FramesOf(fr, k)) - (IF fr[1].method = k THEN 1 ELSE 0)
<1> DEFINE n == Tail(fr)
<1>1. /\ n \in Seq(Frame)
      /\ \A i \in DOMAIN n : i + 1 \in DOMAIN fr /\ n[i] = fr[i + 1]
      /\ \A j \in DOMAIN fr : j = 1 \/ j - 1 \in DOMAIN n
  BY Popped
<1>2. DOMAIN n \in SUBSET Nat /\ 0 \notin DOMAIN n /\ DOMAIN fr \in SUBSET Int /\ 1 \in DOMAIN fr
  BY <1>1, StackIs
<1> HIDE DEF n
<1>3. FramesOf(fr, k) \ {1} \subseteq {i + 1 : i \in FramesOf(n, k)}
  <2> SUFFICES ASSUME NEW j \in DOMAIN fr, fr[j].method = k, j # 1
               PROVE  j \in {i + 1 : i \in FramesOf(n, k)}
    BY DEF FramesOf
  <2>1. j \in Int /\ j - 1 \in DOMAIN n /\ (j - 1) + 1 = j
    BY <1>1, <1>2
  <2>2. n[j - 1] = fr[(j - 1) + 1]
    BY <2>1, <1>1
  <2>3. n[j - 1].method = k
    BY <2>1, <2>2
  <2> QED  BY <2>1, <2>3 DEF FramesOf
<1>4. {i + 1 : i \in FramesOf(n, k)} \subseteq FramesOf(fr, k) \ {1}
  <2> SUFFICES ASSUME NEW i \in DOMAIN n, n[i].method = k
               PROVE  i + 1 \in DOMAIN fr /\ fr[i + 1].method = k /\ i + 1 # 1
    BY DEF FramesOf
  <2> QED  BY <1>1, <1>2
<1>5. {i + 1 : i \in FramesOf(n, k)} = FramesOf(fr, k) \ {1}
  BY <1>3, <1>4
<1>6. Cardinality(FramesOf(n, k)) = Cardinality(FramesOf(fr, k) \ {1})
  BY <1>1, <1>5, FramesFinite, Shifted
<1>7. 1 \in FramesOf(fr, k) <=> fr[1].method = k
  BY <1>2 DEF FramesOf
<1>8. Cardinality(FramesOf(fr, k)) \in Nat /\ IsFiniteSet(FramesOf(fr, k))
  BY FramesFinite
<1>9. Cardinality(FramesOf(fr, k) \ {1}) =
         IF 1 \in FramesOf(fr, k) THEN Cardinality(FramesOf(fr, k)) - 1
                                 ELSE Cardinality(FramesOf(fr, k))
  BY <1>8, FS_RemoveElement
<1> QED  BY <1>6, <1>7, <1>8, <1>9 DEF n

LEMMA CallCounts == ASSUME NEW fr \in Seq(Frame), fr # <<>>, fr[1].method = None,
                           NEW m \in Closure, NEW k \in Closure
                    PROVE  Cardinality(FramesOf([fr EXCEPT ![1].method = m], k)) =
                              Cardinality(FramesOf(fr, k)) + (IF k = m THEN 1 ELSE 0)
<1> DEFINE n == [fr EXCEPT ![1].method = m]
<1>1. /\ DOMAIN n = DOMAIN fr /\ n[1].method = m
      /\ \A i \in DOMAIN fr : i # 1 => n[i] = fr[i]
  BY MethodSet
<1>2. 1 \in DOMAIN fr
  BY StackIs
<1> HIDE DEF n
<1>3. k # None
  BY ClosuresAssumption
<1>4. 1 \notin FramesOf(fr, k)
  BY <1>3 DEF FramesOf
<1>5. CASE k = m
  <2>1. FramesOf(n, k) = FramesOf(fr, k) \cup {1}
    BY <1>1, <1>2, <1>5 DEF FramesOf
  <2> QED  BY <2>1, <1>4, <1>5, FramesFinite, FS_AddElement DEF n
<1>6. CASE k # m
  <2>1. FramesOf(n, k) = FramesOf(fr, k)
    BY <1>1, <1>2, <1>3, <1>6 DEF FramesOf
  <2> QED  BY <2>1, <1>6, FramesFinite DEF n
<1> QED  BY <1>5, <1>6

\* A capsule gets or loses its closure.
LEMMA CapsFinite == ASSUME NEW ctx, NEW k
                    PROVE  /\ IsFiniteSet(CapsOf(ctx, k))
                           /\ Cardinality(CapsOf(ctx, k)) \in Nat
<1>1. CapsOf(ctx, k) \subseteq Capsule
  BY DEF CapsOf
<1> QED  BY <1>1, ClosuresAssumption, FS_Subset, FS_CardinalityType

LEMMA CapsCount == ASSUME NEW ctx \in [Capsule -> Closure \cup {None}], NEW c \in Capsule,
                          NEW v \in Closure \cup {None}, v # ctx[c], NEW k \in Closure
                   PROVE  Cardinality(CapsOf([ctx EXCEPT ![c] = v], k)) =
                             Cardinality(CapsOf(ctx, k)) + (IF k = v THEN 1 ELSE 0)
                                                         - (IF k = ctx[c] THEN 1 ELSE 0)
<1> DEFINE n == [ctx EXCEPT ![c] = v]
<1>1. Cardinality(CapsOf(ctx, k)) \in Nat /\ IsFiniteSet(CapsOf(ctx, k))
  BY CapsFinite
<1>2. \A x \in Capsule : n[x] = IF x = c THEN v ELSE ctx[x]
  OBVIOUS
<1> HIDE DEF n
<1>3. CASE k = v
  <2>1. CapsOf(n, k) = CapsOf(ctx, k) \cup {c} /\ c \notin CapsOf(ctx, k)
    BY <1>3, <1>2 DEF CapsOf
  <2>2. Cardinality(CapsOf(n, k)) = Cardinality(CapsOf(ctx, k)) + 1
    BY <2>1, <1>1, FS_AddElement
  <2> QED  BY <2>2, <1>1, <1>3 DEF n
<1>4. CASE k = ctx[c]
  <2>1. CapsOf(n, k) = CapsOf(ctx, k) \ {c} /\ c \in CapsOf(ctx, k)
    BY <1>4, <1>2 DEF CapsOf
  <2>2. Cardinality(CapsOf(n, k)) = Cardinality(CapsOf(ctx, k)) - 1
    BY <2>1, <1>1, FS_RemoveElement
  <2> QED  BY <2>2, <1>1, <1>4 DEF n
<1>5. CASE k # v /\ k # ctx[c]
  <2>1. CapsOf(n, k) = CapsOf(ctx, k)
    BY <1>5, <1>2 DEF CapsOf
  <2> QED  BY <2>1, <1>1, <1>5 DEF n
<1> QED  BY <1>3, <1>4, <1>5

-----------------------------------------------------------------------------
(* Lemmas about pushing, popping and calling                                *)

\* The capsules whose handler for a packet or a timeout has called Python.
AnsweringOf(fr) == {c \in Capsule : \E i \in DOMAIN fr : /\ fr[i].cap = c
                                                         /\ fr[i].kind \in InterestKinds
                                                         /\ fr[i].method # None}

\* No handler on the stack is still to call Python.
Settled(fr) == fr = <<>> \/ fr[1].method # None

LEMMA StackPush == ASSUME NEW fr, StackOK(fr), Settled(fr),
                          NEW c \in Capsule, NEW kind \in Kinds,
                          fr = <<>> \/ (kind = "final" /\ c \notin FinalOf(fr))
                   PROVE  LET n == <<Upcall(c, kind)>> \o fr
                          IN  /\ StackOK(n)
                              /\ n # <<>>
                              /\ FinalOf(n) = FinalOf(fr) \cup (IF kind = "final" THEN {c} ELSE {})
                              /\ AnsweringOf(n) = AnsweringOf(fr)
                              /\ \A i \in DOMAIN n : \/ n[i] = Upcall(c, kind)
                                                     \/ \E j \in DOMAIN fr : n[i] = fr[j]
<1> DEFINE u == Upcall(c, kind)
           n == <<u>> \o fr
<1>1. u \in Frame /\ u.cap = c /\ u.kind = kind /\ u.method = None
  BY FrameIs
<1>2. fr \in Seq(Frame)
  BY DEF StackOK
<1> HIDE DEF u
<1>3. /\ n \in Seq(Frame) /\ Len(n) = Len(fr) + 1 /\ n # <<>> /\ n[1] = u
      /\ \A i \in DOMAIN fr : i + 1 \in DOMAIN n /\ n[i + 1] = fr[i]
      /\ \A j \in DOMAIN n : j = 1 \/ j - 1 \in DOMAIN fr
  BY <1>1, <1>2, Pushed
<1>4. /\ DOMAIN n \in SUBSET Int /\ DOMAIN fr = 1..Len(fr) /\ Len(fr) \in Nat
      /\ fr # <<>> <=> Len(fr) > 0
      /\ 1 \in DOMAIN n
  BY <1>2, <1>3, StackIs
<1> HIDE DEF n
<1>5. \A j \in DOMAIN n : j # 1 => j - 1 \in DOMAIN fr /\ n[j] = fr[j - 1]
  <2> SUFFICES ASSUME NEW j \in DOMAIN n, j # 1
               PROVE  j - 1 \in DOMAIN fr /\ n[j] = fr[j - 1]
    OBVIOUS
  <2>1. j - 1 \in DOMAIN fr /\ (j - 1) + 1 = j
    BY <1>3, <1>4
  <2> QED  BY <2>1, <1>3
<1>6. \A i \in DOMAIN fr : fr[i].method # None
  BY <1>4 DEF StackOK, Settled
<1>7. \A i \in DOMAIN n : /\ n[i].method = None => i = 1
                          /\ n[i].kind # "final" => i = Len(n)
  <2> SUFFICES ASSUME NEW i \in DOMAIN n
               PROVE  /\ n[i].method = None => i = 1
                      /\ n[i].kind # "final" => i = Len(n)
    OBVIOUS
  <2>1. CASE i = 1
    BY <2>1, <1>1, <1>3, <1>4
  <2>2. CASE i # 1
    <3>1. i - 1 \in DOMAIN fr /\ n[i] = fr[i - 1] /\ i \in Int
      BY <2>2, <1>4, <1>5
    <3>2. n[i].kind # "final" => i - 1 = Len(fr)
      BY <3>1 DEF StackOK
    <3> QED  BY <3>1, <3>2, <1>3, <1>4, <1>6
  <2> QED  BY <2>1, <2>2
<1>8. \A i, j \in DOMAIN n :
         /\ n[i].kind = "final" /\ n[j].kind = "final" /\ n[i].cap = n[j].cap
         => i = j
  <2> SUFFICES ASSUME NEW i \in DOMAIN n, NEW j \in DOMAIN n,
                      n[i].kind = "final", n[j].kind = "final", n[i].cap = n[j].cap
               PROVE  i = j
    OBVIOUS
  <2>1. \A x \in DOMAIN fr : fr[x].kind = "final" => fr[x].cap \in FinalOf(fr)
    BY <1>2, StackIs, FrameParts DEF FinalOf
  <2>2. CASE i # 1 /\ j # 1
    <3>1. /\ i - 1 \in DOMAIN fr /\ n[i] = fr[i - 1] /\ i \in Int
          /\ j - 1 \in DOMAIN fr /\ n[j] = fr[j - 1] /\ j \in Int
      BY <2>2, <1>4, <1>5
    <3>2. i - 1 = j - 1
      BY <3>1 DEF StackOK
    <3> QED  BY <3>1, <3>2
  <2>3. CASE i = 1 /\ j # 1
    BY <2>1, <2>3, <1>1, <1>3, <1>4, <1>5
  <2>4. CASE i # 1 /\ j = 1
    BY <2>1, <2>4, <1>1, <1>3, <1>4, <1>5
  <2> QED  BY <2>2, <2>3, <2>4
<1>9. FinalOf(n) = FinalOf(fr) \cup (IF kind = "final" THEN {c} ELSE {})
  <2>1. FinalOf(n) \subseteq FinalOf(fr) \cup (IF kind = "final" THEN {c} ELSE {})
    BY <1>1, <1>3, <1>5 DEF FinalOf
  <2>2. FinalOf(fr) \subseteq FinalOf(n)
    BY <1>3 DEF FinalOf
  <2>3. kind = "final" => c \in FinalOf(n)
    BY <1>1, <1>3, <1>4 DEF FinalOf
  <2> QED  BY <2>1, <2>2, <2>3
<1>10. AnsweringOf(n) = AnsweringOf(fr)
  <2>1. AnsweringOf(n) \subseteq AnsweringOf(fr)
    BY <1>1, <1>3, <1>5 DEF AnsweringOf
  <2>2. AnsweringOf(fr) \subseteq AnsweringOf(n)
    BY <1>3 DEF AnsweringOf
  <2> QED  BY <2>1, <2>2
<1>11. \A i \in DOMAIN n : n[i] = u \/ \E j \in DOMAIN fr : n[i] = fr[j]
  BY <1>3, <1>5
<1> QED  BY <1>3, <1>7, <1>8, <1>9, <1>10, <1>11 DEF n, u, StackOK

LEMMA StackPop == ASSUME NEW fr, StackOK(fr), fr # <<>>
                  PROVE  LET n == Tail(fr)
                         IN  /\ StackOK(n)
                             /\ Settled(n)
                             /\ FinalOf(n) = FinalOf(fr) \ (IF fr[1].kind = "final" THEN {fr[1].cap} ELSE {})
                             /\ fr[1].kind # "final" => n = <<>>
                             /\ \A i \in DOMAIN n : \E j \in DOMAIN fr : n[i] = fr[j]
                             /\ \A c \in Capsule :
                                   (c # fr[1].cap \/ fr[1].kind \notin InterestKinds)
                                   => (c \in AnsweringOf(n) <=> c \in AnsweringOf(fr))
<1> DEFINE n == Tail(fr)
<1>1. fr \in Seq(Frame)
  BY DEF StackOK
<1>2. /\ n \in Seq(Frame) /\ Len(n) = Len(fr) - 1
      /\ \A i \in DOMAIN n : i + 1 \in DOMAIN fr /\ n[i] = fr[i + 1]
      /\ \A j \in DOMAIN fr : j = 1 \/ j - 1 \in DOMAIN n
  BY <1>1, Popped
<1>3. /\ DOMAIN n = 1..Len(n) /\ Len(n) \in Nat /\ (n # <<>> <=> Len(n) > 0)
      /\ DOMAIN fr = 1..Len(fr) /\ Len(fr) \in Nat /\ 1 \in DOMAIN fr
  BY <1>1, <1>2, StackIs
<1> HIDE DEF n
<1>4. \A j \in DOMAIN fr : j # 1 => j - 1 \in DOMAIN n /\ fr[j] = n[j - 1]
  <2> SUFFICES ASSUME NEW j \in DOMAIN fr, j # 1
               PROVE  j - 1 \in DOMAIN n /\ fr[j] = n[j - 1]
    OBVIOUS
  <2>1. j - 1 \in DOMAIN n /\ (j - 1) + 1 = j
    BY <1>2, <1>3
  <2> QED  BY <2>1, <1>2
<1>5. \A i \in DOMAIN n : n[i].method # None
  BY <1>2, <1>3 DEF StackOK
<1>6. \A i \in DOMAIN n : n[i].kind # "final" => i = Len(n)
  BY <1>2, <1>3 DEF StackOK
<1>7. \A i, j \in DOMAIN n :
         /\ n[i].kind = "final" /\ n[j].kind = "final" /\ n[i].cap = n[j].cap
         => i = j
  <2> SUFFICES ASSUME NEW i \in DOMAIN n, NEW j \in DOMAIN n,
                      n[i].kind = "final", n[j].kind = "final", n[i].cap = n[j].cap
               PROVE  i = j
    OBVIOUS
  <2>1. i + 1 = j + 1
    BY <1>2 DEF StackOK
  <2> QED  BY <2>1, <1>3
<1>8. Settled(n)
  BY <1>3, <1>5 DEF Settled
<1>9. FinalOf(n) = FinalOf(fr) \ (IF fr[1].kind = "final" THEN {fr[1].cap} ELSE {})
  <2>1. FinalOf(n) \subseteq FinalOf(fr)
    BY <1>2 DEF FinalOf
  <2>2. FinalOf(fr) \ (IF fr[1].kind = "final" THEN {fr[1].cap} ELSE {}) \subseteq FinalOf(n)
    BY <1>4 DEF FinalOf
  <2>3. fr[1].kind = "final" => fr[1].cap \notin FinalOf(n)
    <3> SUFFICES ASSUME fr[1].kind = "final", NEW i \in DOMAIN n,
                        n[i].cap = fr[1].cap, n[i].kind = "final"
                 PROVE  FALSE
      BY DEF FinalOf
    <3>1. i + 1 \in DOMAIN fr /\ fr[i + 1] = n[i]
      BY <1>2
    <3>2. i + 1 = 1
      BY <3>1, <1>3 DEF StackOK
    <3> QED  BY <3>2, <1>3
  <2> QED  BY <2>1, <2>2, <2>3
<1>10. fr[1].kind # "final" => n = <<>>
  BY <1>2, <1>3 DEF StackOK
<1>11. \A c \in Capsule : (c # fr[1].cap \/ fr[1].kind \notin InterestKinds)
                             => (c \in AnsweringOf(n) <=> c \in AnsweringOf(fr))
  <2>1. AnsweringOf(n) \subseteq AnsweringOf(fr)
    BY <1>2 DEF AnsweringOf
  <2>2. \A c \in AnsweringOf(fr) : (c # fr[1].cap \/ fr[1].kind \notin InterestKinds)
                                      => c \in AnsweringOf(n)
    BY <1>4 DEF AnsweringOf
  <2> QED  BY <2>1, <2>2
<1>12. \A i \in DOMAIN n : \E j \in DOMAIN fr : n[i] = fr[j]
  BY <1>2
<1> QED  BY <1>2, <1>5, <1>6, <1>7, <1>8, <1>9, <1>10, <1>11, <1>12 DEF n, StackOK

LEMMA StackCall == ASSUME NEW fr, StackOK(fr), fr # <<>>, NEW m \in Closure
                   PROVE  LET n == [fr EXCEPT ![1].method = m]
                          IN  /\ StackOK(n)
                              /\ n # <<>>
                              /\ FinalOf(n) = FinalOf(fr)
                              /\ \A c \in Capsule :
                                    c \in AnsweringOf(n) <=>
                                       \/ c \in AnsweringOf(fr)
                                       \/ c = fr[1].cap /\ fr[1].kind \in InterestKinds
<1> DEFINE n == [fr EXCEPT ![1].method = m]
<1>1. fr \in Seq(Frame)
  BY DEF StackOK
<1>2. /\ n \in Seq(Frame)
      /\ Len(n) = Len(fr) /\ DOMAIN n = DOMAIN fr
      /\ n # <<>>
      /\ n[1].method = m
      /\ \A i \in DOMAIN fr : /\ i # 1 => n[i] = fr[i]
                              /\ n[i].cap = fr[i].cap
                              /\ n[i].kind = fr[i].kind
  BY <1>1, MethodSet
<1>3. 1 \in DOMAIN fr /\ m # None
  BY <1>1, StackIs, ClosuresAssumption
<1> HIDE DEF n
<1>4. StackOK(n)
  BY <1>2, <1>3 DEF StackOK
<1>5. FinalOf(n) = FinalOf(fr)
  BY <1>2 DEF FinalOf
<1>6. \A c \in Capsule : c \in AnsweringOf(n) <=>
                            \/ c \in AnsweringOf(fr)
                            \/ c = fr[1].cap /\ fr[1].kind \in InterestKinds
  BY <1>2, <1>3 DEF AnsweringOf
<1> QED  BY <1>2, <1>4, <1>5, <1>6 DEF n

-----------------------------------------------------------------------------
(* The inductive invariant                                                  *)

Shape == /\ cls \in {"NDN", "Face"}
         /\ held \subseteq Closure
         /\ refs \in [Closure -> Nat]
         /\ capRefs \in [Capsule -> {0, 1}]
         /\ context \in [Capsule -> Closure \cup {None}]
         /\ interests \subseteq Capsule
         /\ filters \in [Prefix -> Capsule \cup {None}]
         /\ destroyed \in BOOLEAN
         /\ heard \in [Capsule -> {"nothing", "answer", "two answers", "excuse"}]

\* A capsule has a closure as long as it lives.
ContextOK == \A c \in Capsule : context[c] # None <=> capRefs[c] = 1

\* A capsule is in libndn's tables once at most.
TablesOK == /\ \A p, q \in Prefix : filters[p] # None /\ filters[p] = filters[q] => p = q
            /\ interests \cap Filtering = {}

Owned == \A c \in Capsule :
    /\ capRefs[c] = 1 <=> c \in Registered \cup FinalOf(frames)
    /\ ~(c \in Registered /\ c \in FinalOf(frames))

Total(h, ctx, fr, k) == (IF k \in h THEN 1 ELSE 0) + Cardinality(CapsOf(ctx, k))
                                                   + Cardinality(FramesOf(fr, k))

Counted == \A k \in Closure : refs[k] = Total(held, context, frames, k)

\* The user of a TrivialExpressClosure has heard something if and only if
\* its handler has called Python, and by the time the interest is over.
HeardOK == \A c \in Capsule :
    IF context[c] \in Trivial
    THEN /\ c \notin Filtering
         /\ heard[c] # "two answers"
         /\ c \in FinalOf(frames) /\ ~destroyed => heard[c] # "nothing"
         /\ c \in interests => (heard[c] = "nothing" <=> c \notin AnsweringOf(frames))
    ELSE heard[c] = "nothing"

IInv == /\ Shape /\ StackOK(frames) /\ StackServes(frames)
        /\ ContextOK /\ TablesOK /\ Owned /\ Counted /\ HeardOK

LEMMA TotalIsNat == ASSUME NEW h, NEW ctx, NEW fr \in Seq(Frame), NEW k
                    PROVE  Total(h, ctx, fr, k) \in Nat
BY CapsFinite, FramesFinite DEF Total

\* Py_INCREF of one closure.
LEMMA Incremented == ASSUME NEW r \in [Closure -> Nat], NEW k \in Closure
                     PROVE  LET n == [r EXCEPT ![k] = @ + 1]
                            IN  /\ n \in [Closure -> Nat]
                                /\ \A x \in Closure : n[x] = r[x] + (IF x = k THEN 1 ELSE 0)
<1>1. r[k] + 1 \in Nat
  OBVIOUS
<1> QED  BY <1>1

\* How the count of k changes with who refers to it.
LEMMA TotalMoves == ASSUME NEW h, NEW ctx, NEW fr \in Seq(Frame), NEW k,
                           NEW h2, NEW ctx2, NEW fr2 \in Seq(Frame), NEW d \in Int, NEW e \in Int,
                           Cardinality(CapsOf(ctx2, k)) = Cardinality(CapsOf(ctx, k)) + d,
                           Cardinality(FramesOf(fr2, k)) = Cardinality(FramesOf(fr, k)) + e,
                           k \in h2 <=> k \in h
                    PROVE  Total(h2, ctx2, fr2, k) = Total(h, ctx, fr, k) + d + e
<1>1. Cardinality(CapsOf(ctx, k)) \in Nat /\ Cardinality(FramesOf(fr, k)) \in Nat
  BY CapsFinite, FramesFinite
<1> QED  BY <1>1 DEF Total

LEMMA TotalHeld == ASSUME NEW h, NEW ctx, NEW fr \in Seq(Frame), NEW k, NEW h2
                   PROVE  Total(h2, ctx, fr, k) = Total(h, ctx, fr, k)
                                                  + (IF k \in h2 THEN 1 ELSE 0) - (IF k \in h THEN 1 ELSE 0)
<1>1. Cardinality(CapsOf(ctx, k)) \in Nat /\ Cardinality(FramesOf(fr, k)) \in Nat
  BY CapsFinite, FramesFinite
<1> QED  BY <1>1 DEF Total

LEMMA InitIInv == Init => IInv
<1> SUFFICES ASSUME Init PROVE IInv
  OBVIOUS
<1> USE DEF Init
<1>1. Shape
  BY DEF Shape
<1>2. frames \in Seq(Frame) /\ DOMAIN frames = {}
  OBVIOUS
<1>3. StackOK(frames) /\ StackServes(frames)
  BY <1>2 DEF StackOK, StackServes
<1>4. ContextOK
  BY DEF ContextOK
<1>5. Filtering = {} /\ Registered = {}
  BY DEF Filtering, Registered
<1>6. TablesOK
  BY <1>5 DEF TablesOK
<1>7. FinalOf(frames) = {}
  BY <1>2 DEF FinalOf
<1>8. Owned
  BY <1>5, <1>7 DEF Owned
<1>9. Counted
  <2> SUFFICES ASSUME NEW k \in Closure
               PROVE  refs[k] = Total(held, context, frames, k)
    BY DEF Counted
  <2>1. CapsOf(context, k) = {} /\ FramesOf(frames, k) = {}
    BY <1>2, ClosuresAssumption DEF CapsOf, FramesOf
  <2>2. Cardinality({}) = 0
    BY FS_EmptySet
  <2>3. k \notin held /\ refs[k] = 0
    OBVIOUS
  <2>4. Total(held, context, frames, k) = 0 + 0 + 0
    BY <2>1, <2>2, <2>3, Zenon DEF Total
  <2> QED  BY <2>3, <2>4
<1>10. HeardOK
  BY ClosuresAssumption DEF HeardOK
<1> QED  BY <1>1, <1>3, <1>4, <1>6, <1>8, <1>9, <1>10 DEF IInv

-----------------------------------------------------------------------------
(* Python code                                                              *)

LEMMA SettledIs == ASSUME StackOK(frames), PythonRuns
                   PROVE  Settled(frames)
BY DEF PythonRuns, Settled

LEMMA CreateKeeps == ASSUME IInv, NEW k \in Closure, Create(k)
                     PROVE  IInv'
<1>1. frames \in Seq(Frame) /\ Shape /\ Counted
  BY DEF IInv, StackOK
<1>2. /\ refs' = [refs EXCEPT ![k] = 1] /\ refs[k] = 0 /\ held' = held \cup {k}
      /\ UNCHANGED <<cls, capRefs, context, interests, filters, frames, destroyed, heard>>
  BY DEF Create, libndn
<1>3. Filtering' = Filtering /\ Registered' = Registered
  BY <1>2 DEF Filtering, Registered
<1>4. k \notin held
  <2>1. Total(held, context, frames, k) = 0
    BY <1>1, <1>2 DEF Counted
  <2>2. Cardinality(CapsOf(context, k)) \in Nat /\ Cardinality(FramesOf(frames, k)) \in Nat
    BY <1>1, CapsFinite, FramesFinite
  <2> QED  BY <2>1, <2>2 DEF Total
<1>5. Counted'
  <2> SUFFICES ASSUME NEW x \in Closure
               PROVE  refs'[x] = Total(held', context, frames, x)
    BY <1>2 DEF Counted
  <2>1. Total(held', context, frames, x) = Total(held, context, frames, x)
              + (IF x \in held' THEN 1 ELSE 0) - (IF x \in held THEN 1 ELSE 0)
    BY <1>1, TotalHeld
  <2>2. refs[x] = Total(held, context, frames, x) /\ refs[x] \in Nat
    BY <1>1 DEF Counted, Shape
  <2>3. refs'[x] = IF x = k THEN 1 ELSE refs[x]
    BY <1>1, <1>2 DEF Shape
  <2> QED  BY <2>1, <2>2, <2>3, <1>2, <1>4
<1>6. Shape'
  BY <1>1, <1>2 DEF Shape
<1>7. StackOK(frames)' /\ StackServes(frames)' /\ ContextOK' /\ TablesOK' /\ Owned' /\ HeardOK'
  BY <1>2, <1>3 DEF IInv, StackOK, StackServes, ContextOK, TablesOK, Owned, HeardOK
<1> QED  BY <1>5, <1>6, <1>7 DEF IInv

LEMMA DropKeeps == ASSUME IInv, NEW k \in Closure, Drop(k)
                   PROVE  IInv'
<1>1. frames \in Seq(Frame) /\ Shape /\ Counted
  BY DEF IInv, StackOK
<1>2. /\ refs' = [refs EXCEPT ![k] = @ - 1] /\ k \in held /\ held' = held \ {k}
      /\ UNCHANGED <<cls, capRefs, context, interests, filters, frames, destroyed, heard>>
  BY DEF Drop, libndn
<1>3. Filtering' = Filtering /\ Registered' = Registered
  BY <1>2 DEF Filtering, Registered
<1>4. Counted'
  <2> SUFFICES ASSUME NEW x \in Closure
               PROVE  refs'[x] = Total(held', context, frames, x)
    BY <1>2 DEF Counted
  <2>1. Total(held', context, frames, x) = Total(held, context, frames, x)
              + (IF x \in held' THEN 1 ELSE 0) - (IF x \in held THEN 1 ELSE 0)
    BY <1>1, TotalHeld
  <2>2. refs[x] = Total(held, context, frames, x) /\ refs[x] \in Nat
    BY <1>1 DEF Counted, Shape
  <2>3. refs'[x] = IF x = k THEN refs[x] - 1 ELSE refs[x]
    BY <1>1, <1>2 DEF Shape
  <2> QED  BY <2>1, <2>2, <2>3, <1>2
<1>5. Shape'
  <2>1. \A x \in Closure : refs'[x] \in Nat
    BY <1>1, <1>2, <1>4, TotalIsNat DEF Counted
  <2> QED  BY <2>1, <1>1, <1>2 DEF Shape
<1>6. StackOK(frames)' /\ StackServes(frames)' /\ ContextOK' /\ TablesOK' /\ Owned' /\ HeardOK'
  BY <1>2, <1>3 DEF IInv, StackOK, StackServes, ContextOK, TablesOK, Owned, HeardOK
<1> QED  BY <1>4, <1>5, <1>6 DEF IInv

-----------------------------------------------------------------------------
(* Registrations                                                            *)

\* A new capsule: nobody knows it, and its closure gains a reference.
LEMMA Fresh == ASSUME IInv, NEW k \in Closure, NEW c \in Capsule, Registers(k, c)
               PROVE  /\ context[c] = None /\ heard[c] = "nothing"
                      /\ c \notin interests /\ c \notin Filtering
                      /\ c \notin FinalOf(frames) /\ c \notin AnsweringOf(frames)
                      /\ Settled(frames)
<1> USE DEF IInv, Registers
<1>1. capRefs[c] = 0
  OBVIOUS
<1>2. c \notin interests /\ c \notin Filtering /\ c \notin FinalOf(frames)
  BY <1>1 DEF Owned, Registered
<1>3. context[c] = None
  BY <1>1 DEF ContextOK
<1>4. heard[c] = "nothing"
  BY <1>3, ClosuresAssumption DEF HeardOK
<1>5. c \notin AnsweringOf(frames)
  BY <1>2 DEF AnsweringOf, StackServes
<1> QED  BY <1>2, <1>3, <1>4, <1>5, SettledIs DEF MayCall

LEMMA NewCapsuleCounts == ASSUME IInv, NEW k \in Closure, NEW c \in Capsule,
                                 Registers(k, c), NewCapsule(c, k),
                                 NEW fr \in Seq(Frame), UNCHANGED held,
                                 \A x \in Closure : Cardinality(FramesOf(fr, x)) =
                                                    Cardinality(FramesOf(frames, x))
                          PROVE  /\ \A x \in Closure : refs'[x] = Total(held', context', fr, x)
                                 /\ refs' \in [Closure -> Nat]
                                 /\ context' \in [Capsule -> Closure \cup {None}]
                                 /\ context'[c] = k /\ k # None
                                 /\ \A d \in Capsule : d # c => context'[d] = context[d]
                                 /\ capRefs' \in [Capsule -> {0, 1}]
                                 /\ capRefs'[c] = 1
                                 /\ \A d \in Capsule : d # c => capRefs'[d] = capRefs[d]
<1>1. context[c] = None /\ k # None
  BY Fresh, ClosuresAssumption
<1>2. Shape /\ Counted /\ frames \in Seq(Frame)
  BY DEF IInv, StackOK
<1>3. /\ refs' = [refs EXCEPT ![k] = @ + 1] /\ held' = held
      /\ context' = [context EXCEPT ![c] = k]
      /\ capRefs' = [capRefs EXCEPT ![c] = 1]
  BY DEF NewCapsule
<1>4. context \in [Capsule -> Closure \cup {None}] /\ k \in Closure \cup {None} /\ k # context[c]
  BY <1>1, <1>2 DEF Shape
<1>5. \A x \in Closure : refs'[x] = Total(held', context', fr, x)
  <2> SUFFICES ASSUME NEW x \in Closure
               PROVE  refs'[x] = Total(held', context', fr, x)
    OBVIOUS
  <2> DEFINE d == IF x = k THEN 1 ELSE 0
  <2>1. x # context[c]
    BY <1>1, ClosuresAssumption
  <2>2. Cardinality(CapsOf(context', x)) = Cardinality(CapsOf(context, x)) + d
    <3>1. Cardinality(CapsOf([context EXCEPT ![c] = k], x)) =
             Cardinality(CapsOf(context, x)) + (IF x = k THEN 1 ELSE 0)
                                             - (IF x = context[c] THEN 1 ELSE 0)
      BY <1>4, CapsCount
    <3>2. Cardinality(CapsOf(context, x)) \in Nat
      BY CapsFinite
    <3> QED  BY <3>1, <3>2, <2>1, <1>3
  <2>3. Cardinality(FramesOf(fr, x)) = Cardinality(FramesOf(frames, x)) + 0
    BY <1>2, FramesFinite
  <2>4. d \in Int
    OBVIOUS
  <2> HIDE DEF d
  <2>5. Total(held', context', fr, x) = Total(held, context, frames, x) + d + 0
    BY <1>2, <1>3, <2>2, <2>3, <2>4, TotalMoves
  <2>6. refs[x] = Total(held, context, frames, x) /\ refs[x] \in Nat
    BY <1>2 DEF Counted, Shape
  <2>7. refs'[x] = refs[x] + d
    BY <1>2, <1>3, Incremented DEF Shape, d
  <2> QED  BY <2>4, <2>5, <2>6, <2>7
<1>6. refs' \in [Closure -> Nat]
  BY <1>2, <1>3, Incremented DEF Shape
<1>7. context \in [Capsule -> Closure \cup {None}] /\ capRefs \in [Capsule -> {0, 1}]
  BY <1>2 DEF Shape
<1>8. /\ context' \in [Capsule -> Closure \cup {None}]
      /\ capRefs' \in [Capsule -> {0, 1}]
      /\ context'[c] = k /\ capRefs'[c] = 1
      /\ \A d \in Capsule : d # c => context'[d] = context[d] /\ capRefs'[d] = capRefs[d]
  BY <1>7, <1>3
<1> QED  BY <1>1, <1>5, <1>8, <1>6

LEMMA ExpressKeeps == ASSUME IInv, NEW k \in Closure, NEW c \in Capsule, ExpressInterest(k, c)
                      PROVE  IInv'
<1>1. Registers(k, c) /\ NewCapsule(c, k) /\ held' = held
  BY DEF ExpressInterest
<1>2. Shape /\ StackOK(frames) /\ StackServes(frames) /\ ContextOK /\ TablesOK /\ Owned /\ HeardOK
  BY DEF IInv
<1>3. /\ context[c] = None /\ heard[c] = "nothing"
      /\ c \notin interests /\ c \notin Filtering
      /\ c \notin FinalOf(frames) /\ c \notin AnsweringOf(frames)
  BY <1>1, Fresh
<1>4. frames \in Seq(Frame)
  BY <1>2 DEF StackOK
<1>5. /\ \A x \in Closure : refs'[x] = Total(held', context', frames, x)
      /\ refs' \in [Closure -> Nat]
      /\ context' \in [Capsule -> Closure \cup {None}]
      /\ context'[c] = k /\ k # None
      /\ \A d \in Capsule : d # c => context'[d] = context[d]
      /\ capRefs' \in [Capsule -> {0, 1}]
      /\ capRefs'[c] = 1
      /\ \A d \in Capsule : d # c => capRefs'[d] = capRefs[d]
  BY <1>1, <1>4, NewCapsuleCounts
<1>6. /\ frames' = frames /\ heard' = heard /\ interests' = interests \cup {c}
      /\ filters' = filters /\ destroyed' = destroyed /\ cls' = cls /\ held' = held
  BY DEF ExpressInterest, Registers
<1>7. Filtering' = Filtering /\ Registered' = Registered \cup {c}
  BY <1>6 DEF Filtering, Registered
<1>8. Shape'
  BY <1>2, <1>5, <1>6 DEF Shape
<1>9. StackServes(frames)'
  <2> SUFFICES ASSUME NEW i \in DOMAIN frames
               PROVE  /\ frames[i].kind \in InterestKinds =>
                            /\ frames[i].cap \in interests'
                            /\ frames[i].method \in {None, context'[frames[i].cap]}
                      /\ frames[i].kind = "interest" /\ frames[i].method = None =>
                            frames[i].cap \in Filtering'
    BY <1>6 DEF StackServes
  <2>1. frames[i].cap \in Capsule
    BY <1>4, StackIs, FrameParts
  <2> QED  BY <2>1, <1>2, <1>3, <1>5, <1>6, <1>7 DEF StackServes
<1>10. ContextOK' /\ Counted'
  BY <1>2, <1>5, <1>6 DEF ContextOK, Counted
<1>11. TablesOK'
  BY <1>2, <1>3, <1>6, <1>7 DEF TablesOK
<1>12. Owned'
  BY <1>2, <1>3, <1>5, <1>6, <1>7 DEF Owned
<1>13. HeardOK'
  BY <1>2, <1>3, <1>5, <1>6, <1>7 DEF HeardOK
<1>14. StackOK(frames)'
  BY <1>2, <1>6 DEF StackOK
<1> QED  BY <1>8, <1>9, <1>10, <1>11, <1>12, <1>13, <1>14 DEF IInv

\* A registration libndn refuses: the release takes back what making the capsule
\* did, so the state is the one before the call.
LEMMA RefusedIsNothing == ASSUME IInv, NEW k \in Closure, NEW c \in Capsule,
                                 RegistrationFails(k, c)
                          PROVE  UNCHANGED vars
<1> DEFINE made == [capRefs EXCEPT ![c] = 1]
           link == [context EXCEPT ![c] = k]
           taken == [refs EXCEPT ![k] = @ + 1]
<1>1. /\ refs \in [Closure -> Nat]
      /\ capRefs \in [Capsule -> {0, 1}] /\ capRefs[c] = 0
      /\ context \in [Capsule -> Closure \cup {None}] /\ context[c] = None
  BY Fresh DEF IInv, Shape, RegistrationFails, Registers
<1>2. /\ capRefs' = [made EXCEPT ![c] = @ - 1]
      /\ context' = [link EXCEPT ![c] = None]
      /\ refs' = [taken EXCEPT ![link[c]] = @ - 1]
      /\ UNCHANGED <<cls, held, interests, filters, frames, destroyed, heard>>
  BY DEF RegistrationFails, Registers, libndn
<1>3. capRefs' = capRefs
  <2>1. made = [d \in Capsule |-> IF d = c THEN 1 ELSE capRefs[d]]
    BY <1>1
  <2>2. capRefs' = [d \in Capsule |-> IF d = c THEN 1 - 1 ELSE capRefs[d]]
    BY <1>2, <2>1
  <2>3. capRefs = [d \in Capsule |-> capRefs[d]]
    BY <1>1
  <2> QED  BY <1>1, <2>2, <2>3
<1>4. link[c] = k
  BY <1>1
<1>5. context' = context
  BY <1>1, <1>2
<1>6. refs' = refs
  <2>1. taken = [x \in Closure |-> IF x = k THEN refs[k] + 1 ELSE refs[x]]
    BY <1>1
  <2>2. refs' = [taken EXCEPT ![k] = @ - 1]
    BY <1>2, <1>4
  <2>3. refs' = [x \in Closure |-> IF x = k THEN (refs[k] + 1) - 1 ELSE refs[x]]
    BY <2>1, <2>2
  <2>4. (refs[k] + 1) - 1 = refs[k]
    BY <1>1
  <2>5. refs = [x \in Closure |-> refs[x]]
    BY <1>1
  <2> QED  BY <2>3, <2>4, <2>5
<1> QED  BY <1>2, <1>3, <1>5, <1>6 DEF vars, libndn

\* On a stack without a handler that is to call Python, every handler has its method.
LEMMA AllCalled == ASSUME NEW fr, StackOK(fr), Settled(fr)
                   PROVE  \A i \in DOMAIN fr : fr[i].method # None
<1>1. fr # <<>> => \A i \in DOMAIN fr : i # 1 => fr[i].method # None
  BY DEF StackOK
<1>2. fr = <<>> => DOMAIN fr = {}
  OBVIOUS
<1> QED  BY <1>1, <1>2 DEF Settled

\* What is in libndn's tables is a capsule.
LEMMA OldIs == ASSUME IInv, NEW old \in Registered
               PROVE  old \in Capsule
<1>1. CASE old \in interests
  BY <1>1 DEF IInv, Shape
<1>2. CASE old \in Filtering
  <2>1. PICK p \in Prefix : old = filters[p]
    BY <1>2 DEF Filtering
  <2>2. filters[p] \in Capsule \cup {None}
    BY DEF IInv, Shape
  <2>3. old # None
    BY <1>2 DEF Filtering
  <2> QED  BY <2>1, <2>2, <2>3
<1> QED  BY <1>1, <1>2 DEF Registered

\* A FINAL upcall begins for a capsule that was in the tables.
LEMMA FinalBegins == ASSUME IInv, Settled(frames), NEW old \in Registered,
                            frames' = <<Upcall(old, "final")>> \o frames
                     PROVE  /\ old \in Capsule
                            /\ old \notin FinalOf(frames)
                            /\ StackOK(frames')
                            /\ FinalOf(frames') = FinalOf(frames) \cup {old}
                            /\ AnsweringOf(frames') = AnsweringOf(frames)
                            /\ \A i \in DOMAIN frames' :
                                  \/ frames'[i].kind = "final"
                                  \/ /\ \E j \in DOMAIN frames : frames'[i] = frames[j]
                                     /\ frames'[i].method # None
                            /\ \A x \in Closure : Cardinality(FramesOf(frames', x)) =
                                                  Cardinality(FramesOf(frames, x))
<1>1. old \in Capsule
  BY OldIs
<1>2. old \notin FinalOf(frames) /\ StackOK(frames)
  BY <1>1 DEF IInv, Owned
<1>3. "final" \in Kinds
  BY DEF Kinds
<1>4. /\ StackOK(frames')
      /\ FinalOf(frames') = FinalOf(frames) \cup {old}
      /\ AnsweringOf(frames') = AnsweringOf(frames)
      /\ \A i \in DOMAIN frames' : \/ frames'[i] = Upcall(old, "final")
                                   \/ \E j \in DOMAIN frames : frames'[i] = frames[j]
  BY <1>1, <1>2, <1>3, StackPush
<1>5. \A i \in DOMAIN frames' :
         \/ frames'[i].kind = "final"
         \/ /\ \E j \in DOMAIN frames : frames'[i] = frames[j]
            /\ frames'[i].method # None
  BY <1>1, <1>2, <1>3, <1>4, FrameIs, AllCalled
<1>6. \A x \in Closure : Cardinality(FramesOf(frames', x)) = Cardinality(FramesOf(frames, x))
  BY <1>1, <1>2, <1>3, FrameIs, PushCounts DEF StackOK
<1> QED  BY <1>1, <1>2, <1>4, <1>5, <1>6

\* libndn lets go of a capsule: a filter at any time, an interest when it is destroyed.
LEMMA RetireKeeps ==
    ASSUME IInv, Settled(frames), NEW old \in Registered,
           old \in Filtering \/ (frames = <<>> /\ destroyed),
           frames' = <<Upcall(old, "final")>> \o frames,
           interests' = interests \ {old},
           filters' = [p \in Prefix |-> IF filters[p] = old THEN None ELSE filters[p]],
           UNCHANGED <<cls, held, refs, capRefs, context, destroyed, heard>>
    PROVE  IInv'
<1>1. /\ Shape /\ StackOK(frames) /\ StackServes(frames) /\ ContextOK /\ TablesOK
      /\ Owned /\ Counted /\ HeardOK
  BY DEF IInv
<1>2. /\ old \in Capsule
      /\ old \notin FinalOf(frames)
      /\ StackOK(frames')
      /\ FinalOf(frames') = FinalOf(frames) \cup {old}
      /\ AnsweringOf(frames') = AnsweringOf(frames)
      /\ \A i \in DOMAIN frames' :
            \/ frames'[i].kind = "final"
            \/ /\ \E j \in DOMAIN frames : frames'[i] = frames[j]
               /\ frames'[i].method # None
      /\ \A x \in Closure : Cardinality(FramesOf(frames', x)) = Cardinality(FramesOf(frames, x))
  BY FinalBegins
<1>3. old # None
  BY <1>2, ClosuresAssumption
<1>4. Filtering' = Filtering \ {old}
  BY <1>3 DEF Filtering
<1>5. Registered' = Registered \ {old}
  BY <1>4 DEF Registered
<1>6. Shape'
  BY <1>1 DEF Shape
<1>7. StackServes(frames)'
  <2> SUFFICES ASSUME NEW i \in DOMAIN frames'
               PROVE  /\ frames'[i].kind \in InterestKinds =>
                            /\ frames'[i].cap \in interests'
                            /\ frames'[i].method \in {None, context'[frames'[i].cap]}
                      /\ frames'[i].kind = "interest" /\ frames'[i].method = None =>
                            frames'[i].cap \in Filtering'
    BY DEF StackServes
  <2>1. CASE frames'[i].kind = "final"
    BY <2>1 DEF InterestKinds
  <2>2. CASE /\ \E j \in DOMAIN frames : frames'[i] = frames[j]
             /\ frames'[i].method # None
    <3>1. PICK j \in DOMAIN frames : frames'[i] = frames[j]
      BY <2>2
    <3>2. old \notin interests
      BY <1>1, <3>1 DEF TablesOK
    <3> QED  BY <1>1, <2>2, <3>1, <3>2 DEF StackServes
  <2> QED  BY <1>2, <2>1, <2>2
<1>8. ContextOK'
  BY <1>1 DEF ContextOK
<1>9. TablesOK'
  BY <1>1, <1>3, <1>4 DEF TablesOK
<1>10. Owned'
  BY <1>1, <1>2, <1>5 DEF Owned
<1>11. Counted'
  BY <1>1, <1>2 DEF Counted, Total
<1>12. HeardOK'
  BY <1>1, <1>2, <1>4 DEF HeardOK
<1> QED  BY <1>2, <1>6, <1>7, <1>8, <1>9, <1>10, <1>11, <1>12 DEF IInv

LEMMA ClearKeeps == ASSUME IInv, NEW p \in Prefix, ClearInterestFilter(p)
                    PROVE  IInv'
<1> DEFINE old == filters[p]
<1>1. /\ old # None /\ PythonRuns
      /\ filters' = [filters EXCEPT ![p] = None]
      /\ frames' = <<Upcall(old, "final")>> \o frames
      /\ UNCHANGED <<cls, held, refs, capRefs, context, interests, destroyed, heard>>
  BY DEF ClearInterestFilter, MayCall
<1>2. old \in Filtering /\ old \in Registered
  BY <1>1 DEF Filtering, Registered
<1>3. interests' = interests \ {old}
  BY <1>1, <1>2 DEF IInv, TablesOK
<1>4. filters' = [q \in Prefix |-> IF filters[q] = old THEN None ELSE filters[q]]
  <2>1. \A q \in Prefix : filters[q] = old <=> q = p
    BY <1>1 DEF IInv, TablesOK
  <2>2. filters \in [Prefix -> Capsule \cup {None}]
    BY DEF IInv, Shape
  <2> QED  BY <1>1, <2>1, <2>2
<1>5. Settled(frames)
  BY <1>1, SettledIs DEF IInv
<1> HIDE DEF old
<1> QED  BY <1>1, <1>2, <1>3, <1>4, <1>5, RetireKeeps

LEMMA FinalizeKeeps == ASSUME IInv, NEW c \in Capsule, Finalize(c)
                       PROVE  IInv'
<1>1. /\ frames = <<>> /\ destroyed /\ c \in Registered
      /\ interests' = interests \ {c}
      /\ filters' = [p \in Prefix |-> IF filters[p] = c THEN None ELSE filters[p]]
      /\ frames' = <<Upcall(c, "final")>>
      /\ UNCHANGED <<cls, held, refs, capRefs, context, destroyed, heard>>
  BY DEF Finalize
<1>2. frames' = <<Upcall(c, "final")>> \o frames
  BY <1>1
<1>3. Settled(frames)
  BY <1>1 DEF Settled
<1> QED  BY <1>1, <1>2, <1>3, RetireKeeps

LEMMA DestroyKeeps == ASSUME IInv, DestroyHandle
                      PROVE  IInv'
<1>1. /\ destroyed' = TRUE
      /\ UNCHANGED <<cls, held, refs, capRefs, context, interests, filters, frames, heard>>
  BY DEF DestroyHandle, libndn
<1>2. Filtering' = Filtering /\ Registered' = Registered
  BY <1>1 DEF Filtering, Registered
<1>3. Shape'
  BY <1>1 DEF IInv, Shape
<1>4. HeardOK'
  BY <1>1, <1>2 DEF IInv, HeardOK
<1>5. StackOK(frames)' /\ StackServes(frames)' /\ ContextOK' /\ TablesOK' /\ Owned' /\ Counted'
  BY <1>1, <1>2 DEF IInv, StackOK, StackServes, ContextOK, TablesOK, Owned, Counted
<1> QED  BY <1>3, <1>4, <1>5 DEF IInv

LEMMA DispatchKeeps == ASSUME IInv, NEW c \in Capsule, NEW kind \in Kinds, Dispatch(c, kind)
                       PROVE  IInv'
<1>1. /\ Shape /\ StackOK(frames) /\ ContextOK /\ TablesOK
      /\ Owned /\ Counted /\ HeardOK
  BY DEF IInv
<1>2. /\ frames = <<>>
      /\ \/ c \in interests /\ kind \in InterestKinds
         \/ c \in Filtering /\ kind = "interest"
      /\ frames' = <<Upcall(c, kind)>> \o frames
      /\ UNCHANGED <<cls, held, refs, capRefs, context, interests, filters, destroyed, heard>>
  BY DEF Dispatch, libndn
<1>3. kind # "final"
  BY <1>2 DEF InterestKinds
<1>4. Settled(frames)
  BY <1>2 DEF Settled
<1>5. LET n == <<Upcall(c, kind)>> \o frames
      IN  /\ StackOK(n)
          /\ FinalOf(n) = FinalOf(frames) \cup (IF kind = "final" THEN {c} ELSE {})
          /\ AnsweringOf(n) = AnsweringOf(frames)
          /\ \A i \in DOMAIN n : \/ n[i] = Upcall(c, kind)
                                 \/ \E j \in DOMAIN frames : n[i] = frames[j]
  <2>1. frames = <<>> \/ (kind = "final" /\ c \notin FinalOf(frames))
    BY <1>2
  <2> QED  BY <1>1, <1>4, <2>1, StackPush
<1>6. Upcall(c, kind) \in Frame /\ Upcall(c, kind).method = None /\ frames \in Seq(Frame)
  BY <1>1, FrameIs DEF StackOK
<1>7. /\ StackOK(frames')
      /\ FinalOf(frames') = FinalOf(frames)
      /\ AnsweringOf(frames') = AnsweringOf(frames)
      /\ \A i \in DOMAIN frames' : \/ frames'[i] = Upcall(c, kind)
                                   \/ \E j \in DOMAIN frames : frames'[i] = frames[j]
  BY <1>2, <1>3, <1>5
<1>8. \A i \in DOMAIN frames' : frames'[i] = Upcall(c, kind)
  BY <1>2, <1>7
<1>9. Filtering' = Filtering /\ Registered' = Registered
  BY <1>2 DEF Filtering, Registered
<1>10. StackServes(frames)'
  BY <1>2, <1>8, <1>9, FrameIs DEF StackServes, InterestKinds
<1>11. \A x \in Closure : Cardinality(FramesOf(frames', x)) = Cardinality(FramesOf(frames, x))
  <2> SUFFICES ASSUME NEW x \in Closure
               PROVE  Cardinality(FramesOf(<<Upcall(c, kind)>> \o frames, x)) =
                         Cardinality(FramesOf(frames, x))
    BY <1>2
  <2> QED  BY <1>6, PushCounts
<1>12. Counted'
  BY <1>1, <1>2, <1>11 DEF Counted, Total
<1>13. Shape'
  BY <1>1, <1>2 DEF Shape
<1>14. ContextOK' /\ TablesOK' /\ Owned' /\ HeardOK'
  BY <1>1, <1>2, <1>7, <1>9 DEF ContextOK, TablesOK, Owned, HeardOK
<1> QED  BY <1>7, <1>10, <1>12, <1>13, <1>14 DEF IInv

LEMMA SetKeeps == ASSUME IInv, NEW k \in Closure, NEW c \in Capsule, NEW p \in Prefix,
                         SetInterestFilter(k, c, p)
                  PROVE  IInv'
<1> DEFINE old == filters[p]
<1>1. /\ Shape /\ StackOK(frames) /\ StackServes(frames) /\ ContextOK /\ TablesOK
      /\ Owned /\ Counted /\ HeardOK /\ frames \in Seq(Frame)
  BY DEF IInv, StackOK
<1>2. /\ Registers(k, c) /\ NewCapsule(c, k) /\ k \notin Trivial
      /\ filters' = [filters EXCEPT ![p] = c]
      /\ UNCHANGED <<cls, held, interests, destroyed, heard>>
      /\ old = None => frames' = frames
      /\ old # None => frames' = <<Upcall(old, "final")>> \o frames
  BY DEF SetInterestFilter, CanFilter, Registers
<1>3. /\ context[c] = None /\ heard[c] = "nothing"
      /\ c \notin interests /\ c \notin Filtering
      /\ c \notin FinalOf(frames) /\ c \notin AnsweringOf(frames)
      /\ Settled(frames)
  BY <1>2, Fresh
<1>4. /\ old # None => old \in Filtering /\ old \in Registered /\ old \notin FinalOf(frames)
      /\ StackOK(frames')
      /\ FinalOf(frames') = FinalOf(frames) \cup ({old} \ {None})
      /\ AnsweringOf(frames') = AnsweringOf(frames)
      /\ \A i \in DOMAIN frames' :
            \/ frames'[i].kind = "final"
            \/ /\ \E j \in DOMAIN frames : frames'[i] = frames[j]
               /\ frames'[i].method # None
      /\ \A x \in Closure : Cardinality(FramesOf(frames', x)) = Cardinality(FramesOf(frames, x))
  <2>1. CASE old = None
    <3>1. frames' = frames
      BY <1>2, <2>1
    <3>2. \A i \in DOMAIN frames' : /\ \E j \in DOMAIN frames : frames'[i] = frames[j]
                                    /\ frames'[i].method # None
      BY <1>1, <1>3, <3>1, AllCalled
    <3> QED  BY <1>1, <2>1, <3>1, <3>2
  <2>2. CASE old # None
    <3>1. old \in Filtering /\ old \in Registered
      BY <2>2 DEF Filtering, Registered
    <3>2. frames' = <<Upcall(old, "final")>> \o frames
      BY <1>2, <2>2
    <3> HIDE DEF old
    <3> QED  BY <1>3, <2>2, <3>1, <3>2, FinalBegins
  <2> QED  BY <2>1, <2>2
<1>5. frames' \in Seq(Frame)
  BY <1>4 DEF StackOK
<1>6. /\ \A x \in Closure : refs'[x] = Total(held', context', frames', x)
      /\ refs' \in [Closure -> Nat]
      /\ context' \in [Capsule -> Closure \cup {None}]
      /\ context'[c] = k /\ k # None
      /\ \A d \in Capsule : d # c => context'[d] = context[d]
      /\ capRefs' \in [Capsule -> {0, 1}]
      /\ capRefs'[c] = 1
      /\ \A d \in Capsule : d # c => capRefs'[d] = capRefs[d]
  BY <1>2, <1>4, <1>5, NewCapsuleCounts
<1>7. \A q \in Prefix : filters'[q] = IF q = p THEN c ELSE filters[q]
  BY <1>1, <1>2 DEF Shape
<1>8. c # None /\ (old # None => old # c)
  BY <1>3, <1>4, ClosuresAssumption
<1>9. Filtering' = (Filtering \ {old}) \cup {c}
  <2>1. \A q \in Prefix : q # p => filters[q] = None \/ filters[q] # old
    BY <1>1 DEF TablesOK
  <2>2. Filtering' = {filters'[q] : q \in Prefix} \ {None}
    BY DEF Filtering
  <2>3. Filtering' \subseteq (Filtering \ {old}) \cup {c}
    BY <1>7, <2>1, <2>2 DEF Filtering
  <2>4. (Filtering \ {old}) \cup {c} \subseteq Filtering'
    BY <1>7, <1>8, <2>2 DEF Filtering
  <2> QED  BY <2>3, <2>4
<1>10. Registered' = (Registered \ {old}) \cup {c}
  <2>1. old \notin interests
    BY <1>1, <1>4, ClosuresAssumption DEF TablesOK, Shape
  <2> QED  BY <1>2, <1>9, <2>1 DEF Registered
<1>11. Shape'
  BY <1>1, <1>2, <1>6 DEF Shape
<1>12. StackServes(frames)'
  <2> SUFFICES ASSUME NEW i \in DOMAIN frames'
               PROVE  /\ frames'[i].kind \in InterestKinds =>
                            /\ frames'[i].cap \in interests'
                            /\ frames'[i].method \in {None, context'[frames'[i].cap]}
                      /\ frames'[i].kind = "interest" /\ frames'[i].method = None =>
                            frames'[i].cap \in Filtering'
    BY DEF StackServes
  <2>1. CASE frames'[i].kind = "final"
    BY <2>1 DEF InterestKinds
  <2>2. CASE /\ \E j \in DOMAIN frames : frames'[i] = frames[j]
             /\ frames'[i].method # None
    <3>1. PICK j \in DOMAIN frames : frames'[i] = frames[j]
      BY <2>2
    <3>2. frames[j].cap \in Capsule
      BY <1>1, StackIs, FrameParts
    <3> QED  BY <1>1, <1>2, <1>3, <1>6, <2>2, <3>1, <3>2 DEF StackServes
  <2> QED  BY <1>4, <2>1, <2>2
<1>13. ContextOK'
  BY <1>1, <1>6 DEF ContextOK
<1>14. TablesOK'
  <2>1. \A q, r \in Prefix : filters'[q] # None /\ filters'[q] = filters'[r] => q = r
    <3>1. \A q \in Prefix : filters[q] # c
      BY <1>3, <1>8 DEF Filtering
    <3> QED  BY <1>1, <1>7, <3>1 DEF TablesOK
  <2>2. interests' \cap Filtering' = {}
    BY <1>1, <1>2, <1>3, <1>9 DEF TablesOK
  <2> QED  BY <2>1, <2>2 DEF TablesOK
<1>15. Owned'
  <2> SUFFICES ASSUME NEW d \in Capsule
               PROVE  /\ capRefs'[d] = 1 <=> d \in Registered' \cup FinalOf(frames')
                      /\ ~(d \in Registered' /\ d \in FinalOf(frames'))
    BY DEF Owned
  <2>1. d # None
    BY ClosuresAssumption
  <2>2. /\ capRefs[d] = 1 <=> d \in Registered \cup FinalOf(frames)
        /\ ~(d \in Registered /\ d \in FinalOf(frames))
    BY <1>1 DEF Owned
  <2> HIDE DEF old
  <2> QED  BY <1>3, <1>4, <1>6, <1>8, <1>10, <2>1, <2>2
<1>16. Counted'
  BY <1>6 DEF Counted
<1>17. HeardOK'
  <2> SUFFICES ASSUME NEW d \in Capsule
               PROVE  IF context'[d] \in Trivial
                      THEN /\ d \notin Filtering'
                           /\ heard[d] # "two answers"
                           /\ d \in FinalOf(frames') /\ ~destroyed => heard[d] # "nothing"
                           /\ d \in interests => (heard[d] = "nothing" <=> d \notin AnsweringOf(frames'))
                      ELSE heard[d] = "nothing"
    BY <1>2 DEF HeardOK
  <2>1. CASE d = c
    BY <1>2, <1>3, <1>6, <2>1
  <2>2. CASE d # c
    <3>1. context'[d] = context[d]
      BY <1>6, <2>2
    <3>2. d # None
      BY ClosuresAssumption
    <3>3. context[d] \in Trivial => d # old
      BY <1>1, <1>4, <3>2 DEF HeardOK
    <3> HIDE DEF old
    <3> QED  BY <1>1, <1>4, <1>9, <2>2, <3>1, <3>3 DEF HeardOK
  <2> QED  BY <2>1, <2>2
<1> QED  BY <1>4, <1>11, <1>12, <1>13, <1>14, <1>15, <1>16, <1>17 DEF IInv

-----------------------------------------------------------------------------
(* The handler                                                              *)

LEMMA CallKeeps == ASSUME IInv, CallPython
                   PROVE  IInv'
<1> DEFINE f == frames[1]
           c == f.cap
           m == context[c]
<1>1. /\ Shape /\ StackOK(frames) /\ StackServes(frames) /\ ContextOK /\ TablesOK
      /\ Owned /\ Counted /\ HeardOK /\ frames \in Seq(Frame)
  BY DEF IInv, StackOK
<1>2. /\ frames # <<>> /\ f.method = None
      /\ frames' = [frames EXCEPT ![1].method = m]
      /\ refs' = [refs EXCEPT ![m] = @ + 1]
      /\ heard' = IF m \in Trivial THEN [heard EXCEPT ![c] = Hears(m, @, f.kind)] ELSE heard
      /\ UNCHANGED <<cls, held, capRefs, context, interests, filters, destroyed>>
  BY DEF CallPython, libndn
<1>3. 1 \in DOMAIN frames /\ c \in Capsule /\ f.kind \in Kinds
  BY <1>1, <1>2, StackIs, FrameParts
<1>4. m \in Closure /\ m # None
  <2>1. CASE f.kind = "final"
    <3>1. c \in FinalOf(frames)
      BY <1>3, <2>1 DEF FinalOf
    <3>2. m # None
      BY <1>1, <1>3, <3>1 DEF Owned, ContextOK
    <3> QED  BY <1>1, <1>3, <3>2 DEF Shape
  <2>2. CASE f.kind # "final"
    <3>1. c \in Registered
      BY <1>1, <1>2, <1>3, <2>2 DEF StackServes, Kinds, Registered
    <3>2. m # None
      BY <1>1, <1>3, <3>1 DEF Owned, ContextOK
    <3> QED  BY <1>1, <1>3, <3>2 DEF Shape
  <2> QED  BY <2>1, <2>2
<1>5. Filtering' = Filtering /\ Registered' = Registered
  BY <1>2 DEF Filtering, Registered
<1>6. /\ StackOK(frames')
      /\ FinalOf(frames') = FinalOf(frames)
      /\ \A d \in Capsule : d \in AnsweringOf(frames') <=>
                               d \in AnsweringOf(frames) \/ (d = c /\ f.kind \in InterestKinds)
  BY <1>1, <1>2, <1>4, StackCall
<1>7. /\ DOMAIN frames' = DOMAIN frames
      /\ frames'[1].method = m
      /\ \A i \in DOMAIN frames : /\ i # 1 => frames'[i] = frames[i]
                                  /\ frames'[i].cap = frames[i].cap
                                  /\ frames'[i].kind = frames[i].kind
  BY <1>1, <1>2, <1>4, MethodSet
<1>8. \A x \in Closure : Cardinality(FramesOf(frames', x)) =
                         Cardinality(FramesOf(frames, x)) + (IF x = m THEN 1 ELSE 0)
  BY <1>1, <1>2, <1>4, CallCounts
<1> HIDE DEF m, c, f
<1>9. Counted'
  <2> SUFFICES ASSUME NEW x \in Closure
               PROVE  refs'[x] = Total(held, context, frames', x)
    BY <1>2 DEF Counted
  <2> DEFINE d == IF x = m THEN 1 ELSE 0
  <2>1. d \in Int
    OBVIOUS
  <2>2. refs'[x] = refs[x] + d
    BY <1>1, <1>2, <1>4, Incremented DEF Shape
  <2>3. Cardinality(FramesOf(frames', x)) = Cardinality(FramesOf(frames, x)) + d
    BY <1>8
  <2>4. Cardinality(CapsOf(context, x)) = Cardinality(CapsOf(context, x)) + 0
    BY CapsFinite
  <2> HIDE DEF d
  <2>5. frames' \in Seq(Frame)
    BY <1>6 DEF StackOK
  <2>6. Total(held, context, frames', x) = Total(held, context, frames, x) + 0 + d
    BY <1>1, <2>1, <2>3, <2>4, <2>5, TotalMoves
  <2>7. refs[x] = Total(held, context, frames, x) /\ refs[x] \in Nat
    BY <1>1 DEF Counted, Shape
  <2> QED  BY <2>1, <2>2, <2>6, <2>7
<1>10. Shape'
  <2>1. refs' \in [Closure -> Nat]
    BY <1>1, <1>2, <1>4, Incremented DEF Shape
  <2>2. heard' \in [Capsule -> {"nothing", "answer", "two answers", "excuse"}]
    BY <1>1, <1>2, <1>3 DEF Shape, Hears
  <2> QED  BY <1>1, <1>2, <2>1, <2>2 DEF Shape
<1>11. StackServes(frames)'
  <2> SUFFICES ASSUME NEW i \in DOMAIN frames
               PROVE  /\ frames'[i].kind \in InterestKinds =>
                            /\ frames'[i].cap \in interests
                            /\ frames'[i].method \in {None, context[frames'[i].cap]}
                      /\ frames'[i].kind = "interest" /\ frames'[i].method = None =>
                            frames'[i].cap \in Filtering
    BY <1>2, <1>5, <1>7 DEF StackServes
  <2>1. CASE i = 1
    BY <1>1, <1>4, <1>7, <2>1 DEF StackServes, m, c, f
  <2>2. CASE i # 1
    BY <1>1, <1>7, <2>2 DEF StackServes
  <2> QED  BY <2>1, <2>2
<1>12. ContextOK' /\ TablesOK' /\ Owned'
  BY <1>1, <1>2, <1>5, <1>6 DEF ContextOK, TablesOK, Owned
<1>13. HeardOK'
  <2> SUFFICES ASSUME NEW d \in Capsule
               PROVE  IF context[d] \in Trivial
                      THEN /\ d \notin Filtering
                           /\ heard'[d] # "two answers"
                           /\ d \in FinalOf(frames) /\ ~destroyed => heard'[d] # "nothing"
                           /\ d \in interests => (heard'[d] = "nothing" <=> d \notin AnsweringOf(frames'))
                      ELSE heard'[d] = "nothing"
    BY <1>2, <1>5, <1>6 DEF HeardOK
  <2>1. heard \in [Capsule -> {"nothing", "answer", "two answers", "excuse"}]
    BY <1>1 DEF Shape
  <2>2. CASE d # c \/ m \notin Trivial
    <3>1. heard'[d] = heard[d]
      BY <1>2, <1>3, <2>1, <2>2
    <3>2. context[d] \in Trivial => d # c
      BY <2>2 DEF m
    <3> QED  BY <1>1, <1>6, <3>1, <3>2 DEF HeardOK
  <2>3. CASE d = c /\ m \in Trivial
    <3>1. heard'[c] = Hears(m, heard[c], f.kind)
      BY <1>2, <1>3, <2>1, <2>3
    <3>2. CASE f.kind \in InterestKinds
      <4>1. c \in interests /\ c \notin AnsweringOf(frames)
        <5>1. c \in interests
          BY <1>1, <1>3, <3>2 DEF StackServes, c, f
        <5>2. \A i \in DOMAIN frames : frames[i].kind \in InterestKinds => i = Len(frames)
          BY <1>1 DEF StackOK, InterestKinds
        <5>3. c \notin AnsweringOf(frames)
          BY <1>2, <1>3, <3>2, <5>2 DEF AnsweringOf, f
        <5> QED  BY <5>1, <5>3
      <4>2. c \notin FinalOf(frames)
        BY <1>1, <1>3, <4>1 DEF Owned, Registered
      <4>3. heard[c] = "nothing" /\ c \notin Filtering
        BY <1>1, <1>3, <2>3, <4>1 DEF HeardOK, m
      <4>4. heard'[c] \in {"answer", "excuse"}
        BY <3>1, <3>2, <4>3 DEF Hears, InterestKinds
      <4> QED  BY <1>3, <1>6, <2>3, <3>2, <4>2, <4>3, <4>4 DEF m
    <3>3. CASE f.kind \notin InterestKinds
      <4>1. heard'[c] = heard[c]
        BY <3>1, <3>3 DEF Hears, InterestKinds
      <4> QED  BY <1>1, <1>3, <1>6, <2>3, <3>3, <4>1 DEF HeardOK, m
    <3> QED  BY <3>2, <3>3
  <2> QED  BY <2>2, <2>3
<1> QED  BY <1>6, <1>9, <1>10, <1>11, <1>12, <1>13 DEF IInv

\* What a handler lets go of is what the counts lose.
LEMMA ReleaseCounts ==
    ASSUME IInv, NEW fr \in Seq(Frame), NEW c \in Capsule, NEW m, NEW capsuleToo \in BOOLEAN,
           Release(c, capsuleToo, m),
           held' = held,
           \A x \in Closure : Cardinality(FramesOf(fr, x)) =
                              Cardinality(FramesOf(frames, x)) - (IF m = x THEN 1 ELSE 0)
    PROVE  /\ \A x \in Closure : refs'[x] = Total(held', context', fr, x)
           /\ refs' \in [Closure -> Nat]
           /\ context' \in [Capsule -> Closure \cup {None}]
<1> DEFINE dies == capsuleToo /\ capRefs[c] = 1
<1>1. /\ refs' = [k \in Closure |-> refs[k] - (IF k = m THEN 1 ELSE 0)
                                             - (IF dies /\ k = context[c] THEN 1 ELSE 0)]
      /\ context' = IF dies THEN [context EXCEPT ![c] = None] ELSE context
      /\ dies \in BOOLEAN
      /\ dies => context[c] # None
  BY DEF Release, IInv, ContextOK
<1> HIDE DEF dies
<1>2. Shape /\ Counted /\ frames \in Seq(Frame)
  BY DEF IInv, StackOK
<1>3. context \in [Capsule -> Closure \cup {None}]
  BY <1>2 DEF Shape
<1>4. \A x \in Closure : refs'[x] = Total(held', context', fr, x)
  <2> SUFFICES ASSUME NEW x \in Closure
               PROVE  refs'[x] = Total(held', context', fr, x)
    OBVIOUS
  <2> DEFINE d == IF dies /\ x = context[c] THEN 0 - 1 ELSE 0
             e == IF m = x THEN 0 - 1 ELSE 0
  <2>1. d \in Int /\ e \in Int
    OBVIOUS
  <2>2. Cardinality(CapsOf(context', x)) = Cardinality(CapsOf(context, x)) + d
    <3>1. Cardinality(CapsOf(context, x)) \in Nat
      BY CapsFinite
    <3>2. CASE dies
      <4>1. None \in Closure \cup {None} /\ None # context[c] /\ x # None
        BY <1>1, <3>2, ClosuresAssumption
      <4>2. Cardinality(CapsOf([context EXCEPT ![c] = None], x)) =
               Cardinality(CapsOf(context, x)) + (IF x = None THEN 1 ELSE 0)
                                               - (IF x = context[c] THEN 1 ELSE 0)
        BY <1>3, <4>1, CapsCount
      <4> QED  BY <1>1, <3>1, <3>2, <4>1, <4>2
    <3>3. CASE ~dies
      BY <1>1, <3>1, <3>3
    <3> QED  BY <3>2, <3>3
  <2>3. Cardinality(FramesOf(fr, x)) = Cardinality(FramesOf(frames, x)) + e
    <3>1. Cardinality(FramesOf(frames, x)) \in Nat
      BY <1>2, FramesFinite
    <3> QED  BY <3>1
  <2>4. refs[x] = Total(held, context, frames, x) /\ refs[x] \in Nat
    BY <1>2 DEF Counted, Shape
  <2>5. refs'[x] = refs[x] + d + e
    BY <1>1, <2>4
  <2> HIDE DEF d, e
  <2>6. Total(held', context', fr, x) = Total(held, context, frames, x) + d + e
    BY <1>2, <2>1, <2>2, <2>3, TotalMoves
  <2> QED  BY <2>4, <2>5, <2>6
<1>5. refs' \in [Closure -> Nat]
  <2>1. \A x \in Closure : refs'[x] \in Nat
    BY <1>4, TotalIsNat
  <2>2. refs' = [x \in Closure |-> refs'[x]]
    BY <1>1
  <2> QED  BY <2>1, <2>2
<1>6. context' \in [Capsule -> Closure \cup {None}]
  BY <1>3, <1>1
<1> QED  BY <1>4, <1>6, <1>5

\* The FINAL upcall is over: the capsule is freed.
LEMMA FinalEnds ==
    ASSUME IInv, frames # <<>>, NEW result,
           frames[1].kind = "final",
           Release(frames[1].cap, TRUE, frames[1].method),
           AfterUpcall(frames[1], result),
           UNCHANGED <<cls, held, filters, destroyed>>,
           heard' = [d \in Capsule |-> IF capRefs'[d] = 0 THEN "nothing" ELSE heard[d]]
    PROVE  IInv'
<1> DEFINE c == frames[1].cap
           m == frames[1].method
<1>1. /\ Shape /\ StackOK(frames) /\ StackServes(frames) /\ ContextOK /\ TablesOK
      /\ Owned /\ Counted /\ HeardOK /\ frames \in Seq(Frame)
  BY DEF IInv, StackOK
<1>2. 1 \in DOMAIN frames /\ c \in Capsule
  BY <1>1, StackIs, FrameParts
<1>3. c \in FinalOf(frames)
  BY <1>2 DEF FinalOf
<1>4. /\ capRefs[c] = 1 /\ context[c] # None
      /\ c \notin interests /\ c \notin Filtering /\ c \notin Registered
  BY <1>1, <1>2, <1>3 DEF Owned, ContextOK, Registered
<1>5. /\ capRefs' = [capRefs EXCEPT ![c] = 0]
      /\ context' = [context EXCEPT ![c] = None]
      /\ refs' = [k \in Closure |-> refs[k] - (IF k = m THEN 1 ELSE 0)
                                            - (IF TRUE /\ k = context[c] THEN 1 ELSE 0)]
  BY <1>4 DEF Release
<1>6. frames' = Tail(frames) /\ interests' = interests
  BY DEF AfterUpcall, InterestKinds
<1>7. /\ StackOK(frames') /\ Settled(frames')
      /\ FinalOf(frames') = FinalOf(frames) \ {c}
      /\ \A i \in DOMAIN frames' : \E j \in DOMAIN frames : frames'[i] = frames[j]
      /\ \A d \in Capsule : d \in AnsweringOf(frames') <=> d \in AnsweringOf(frames)
  BY <1>1, <1>6, StackPop DEF InterestKinds
<1>8. \A x \in Closure : Cardinality(FramesOf(frames', x)) =
                         Cardinality(FramesOf(frames, x)) - (IF m = x THEN 1 ELSE 0)
  BY <1>1, <1>6, PopCounts
<1>9. frames' \in Seq(Frame)
  BY <1>7 DEF StackOK
<1> HIDE DEF c, m
<1>10. /\ \A x \in Closure : refs'[x] = Total(held', context', frames', x)
       /\ refs' \in [Closure -> Nat]
       /\ context' \in [Capsule -> Closure \cup {None}]
  <2>1. Release(c, TRUE, m)
    BY DEF c, m
  <2> QED  BY <1>2, <1>8, <1>9, <2>1, ReleaseCounts
<1>11. /\ context'[c] = None /\ capRefs'[c] = 0
       /\ \A d \in Capsule : d # c => context'[d] = context[d] /\ capRefs'[d] = capRefs[d]
       /\ capRefs' \in [Capsule -> {0, 1}]
  BY <1>1, <1>2, <1>5 DEF Shape
<1>12. Filtering' = Filtering /\ Registered' = Registered
  BY <1>6 DEF Filtering, Registered
<1>13. Shape'
  <2>1. heard' \in [Capsule -> {"nothing", "answer", "two answers", "excuse"}]
    BY <1>1 DEF Shape
  <2> QED  BY <1>1, <1>6, <1>10, <1>11, <2>1 DEF Shape
<1>14. StackServes(frames)'
  <2> SUFFICES ASSUME NEW i \in DOMAIN frames'
               PROVE  /\ frames'[i].kind \in InterestKinds =>
                            /\ frames'[i].cap \in interests'
                            /\ frames'[i].method \in {None, context'[frames'[i].cap]}
                      /\ frames'[i].kind = "interest" /\ frames'[i].method = None =>
                            frames'[i].cap \in Filtering'
    BY DEF StackServes
  <2>1. PICK j \in DOMAIN frames : frames'[i] = frames[j]
    BY <1>7
  <2>2. frames[j].cap \in Capsule
    BY <1>1, StackIs, FrameParts
  <2> QED  BY <1>1, <1>4, <1>6, <1>11, <1>12, <2>1, <2>2 DEF StackServes
<1>15. ContextOK'
  BY <1>1, <1>11 DEF ContextOK
<1>16. TablesOK' /\ Counted'
  BY <1>1, <1>6, <1>10, <1>12 DEF TablesOK, Counted
<1>17. Owned'
  BY <1>1, <1>4, <1>7, <1>11, <1>12 DEF Owned
<1>18. HeardOK'
  <2> SUFFICES ASSUME NEW d \in Capsule
               PROVE  IF context'[d] \in Trivial
                      THEN /\ d \notin Filtering
                           /\ heard'[d] # "two answers"
                           /\ d \in FinalOf(frames') /\ ~destroyed => heard'[d] # "nothing"
                           /\ d \in interests => (heard'[d] = "nothing" <=> d \notin AnsweringOf(frames))
                      ELSE heard'[d] = "nothing"
    BY <1>6, <1>7, <1>12 DEF HeardOK
  <2>1. CASE d = c
    BY <1>11, <2>1, ClosuresAssumption
  <2>2. CASE d # c
    <3>1. context'[d] = context[d] /\ capRefs'[d] = capRefs[d] /\ capRefs[d] \in {0, 1}
      BY <1>1, <1>11, <2>2 DEF Shape
    <3>2. context[d] \in Trivial => capRefs[d] = 1
      BY <1>1, ClosuresAssumption DEF ContextOK
    <3>3. CASE context[d] \in Trivial
      <4>1. heard'[d] = heard[d]
        BY <3>1, <3>2, <3>3
      <4> QED  BY <1>1, <1>7, <3>1, <3>3, <4>1 DEF HeardOK
    <3>4. CASE context[d] \notin Trivial
      BY <1>1, <3>1, <3>4 DEF HeardOK
    <3> QED  BY <3>3, <3>4
  <2> QED  BY <2>1, <2>2
<1> QED  BY <1>7, <1>13, <1>14, <1>15, <1>16, <1>17, <1>18 DEF IInv

\* What a Trivial closure has heard when a handler for capsule c is over.
HeardAtEnd(c, kind, result) ==
    /\ heard' \in [Capsule -> {"nothing", "answer", "two answers", "excuse"}]
    /\ \A d \in Capsule : \/ heard'[d] = heard[d]
                          \/ /\ d = c /\ context[d] \in Trivial
                             /\ kind \in InterestKinds
                             /\ heard'[d] = "excuse"
    /\ kind \in InterestKinds /\ context[c] \in Trivial
          => ~KeepsInterest(result) /\ heard'[c] # "nothing"

\* Any other upcall is over.  It was the outermost; an interest that is answered
\* goes, and its FINAL upcall begins.
LEMMA OtherEnds ==
    ASSUME IInv, frames # <<>>, NEW result,
           frames[1].kind # "final",
           Release(frames[1].cap, FALSE, frames[1].method),
           AfterUpcall(frames[1], result),
           UNCHANGED <<cls, held, filters, destroyed>>,
           HeardAtEnd(frames[1].cap, frames[1].kind, result)
    PROVE  IInv'
<1> DEFINE c == frames[1].cap
           m == frames[1].method
           kind == frames[1].kind
           rest == Tail(frames)
           ends == kind \in InterestKinds /\ ~KeepsInterest(result)
<1>1. /\ Shape /\ StackOK(frames) /\ StackServes(frames) /\ ContextOK /\ TablesOK
      /\ Owned /\ Counted /\ HeardOK /\ frames \in Seq(Frame)
  BY DEF IInv, StackOK
<1>2. 1 \in DOMAIN frames /\ c \in Capsule /\ kind \in Kinds
  BY <1>1, StackIs, FrameParts
<1>3. /\ StackOK(rest) /\ Settled(rest)
      /\ FinalOf(rest) = FinalOf(frames)
      /\ rest = <<>>
      /\ rest \in Seq(Frame)
      /\ \A d \in Capsule : (d # c \/ kind \notin InterestKinds)
                            => (d \in AnsweringOf(rest) <=> d \in AnsweringOf(frames))
  <2>1. /\ StackOK(rest) /\ Settled(rest)
        /\ FinalOf(rest) = FinalOf(frames) \ (IF kind = "final" THEN {c} ELSE {})
        /\ rest = <<>>
        /\ \A d \in Capsule : (d # c \/ kind \notin InterestKinds)
                              => (d \in AnsweringOf(rest) <=> d \in AnsweringOf(frames))
    BY <1>1, StackPop
  <2> HIDE DEF rest
  <2>2. FinalOf(rest) = FinalOf(frames)
    BY <2>1
  <2> QED  BY <2>1, <2>2 DEF StackOK
<1>4. /\ capRefs' = capRefs /\ context' = context
      /\ refs' = [k \in Closure |-> refs[k] - (IF k = m THEN 1 ELSE 0)
                                            - (IF FALSE /\ k = context[c] THEN 1 ELSE 0)]
  BY DEF Release
<1>5. /\ ends => /\ interests' = interests \ {c}
                 /\ frames' = <<Upcall(c, "final")>> \o rest
      /\ ~ends => frames' = rest /\ interests' = interests
  BY DEF AfterUpcall
<1>6. ends => c \in interests /\ c \notin FinalOf(frames) /\ c \notin Filtering
  BY <1>1, <1>2 DEF StackServes, Owned, TablesOK, Registered
<1>7. \A x \in Closure : Cardinality(FramesOf(rest, x)) =
                         Cardinality(FramesOf(frames, x)) - (IF m = x THEN 1 ELSE 0)
  BY <1>1, PopCounts
<1>8. HeardAtEnd(c, kind, result)
  OBVIOUS
<1>9. Release(c, FALSE, m) /\ UNCHANGED <<cls, held, filters, destroyed>>
  OBVIOUS
<1>10. kind \in InterestKinds /\ ~ends => KeepsInterest(result)
  OBVIOUS
<1> HIDE DEF ends, rest, c, m, kind
<1>11. DOMAIN rest = {} /\ FinalOf(rest) = {} /\ AnsweringOf(rest) = {}
  <2>1. DOMAIN rest = {}
    BY <1>3, EmptyStack, Zenon
  <2> QED  BY <2>1 DEF FinalOf, AnsweringOf
<1>12. "final" \in Kinds
  BY DEF Kinds
<1>13. /\ StackOK(frames')
       /\ \A d \in Capsule : d \in FinalOf(frames') <=> ends /\ d = c
       /\ AnsweringOf(frames') = {}
       /\ \A i \in DOMAIN frames' : frames'[i].kind = "final"
  <2>1. CASE ends
    <3>1. rest = <<>> \/ ("final" = "final" /\ c \notin FinalOf(rest))
      BY <1>3
    <3>2. LET n == <<Upcall(c, "final")>> \o rest
          IN  /\ StackOK(n)
              /\ FinalOf(n) = FinalOf(rest) \cup (IF "final" = "final" THEN {c} ELSE {})
              /\ AnsweringOf(n) = AnsweringOf(rest)
              /\ \A i \in DOMAIN n : \/ n[i] = Upcall(c, "final")
                                     \/ \E j \in DOMAIN rest : n[i] = rest[j]
      <4>1. StackOK(rest) /\ Settled(rest)
        BY <1>3
      <4> QED  BY <1>2, <1>12, <3>1, <4>1, StackPush
    <3>3. frames' = <<Upcall(c, "final")>> \o rest
      BY <1>5, <2>1
    <3>4. \A i \in DOMAIN frames' : frames'[i].kind = "final"
      <4>1. \A i \in DOMAIN frames' : frames'[i] = Upcall(c, "final")
        BY <1>11, <3>2, <3>3
      <4>2. Upcall(c, "final").kind = "final"
        BY <1>2, <1>12, FrameIs
      <4> QED  BY <4>1, <4>2
    <3>5. FinalOf(frames') = {c} /\ AnsweringOf(frames') = {}
      BY <1>11, <3>2, <3>3
    <3> QED  BY <2>1, <3>2, <3>3, <3>4, <3>5
  <2>2. CASE ~ends
    <3>1. frames' = <<>> /\ frames' = rest
      BY <1>3, <1>5, <2>2
    <3>2. StackOK(frames') /\ DOMAIN frames' = {}
      BY <1>3, <1>11, <3>1
    <3>3. FinalOf(frames') = {} /\ AnsweringOf(frames') = {}
      BY <1>11, <3>1
    <3> QED  BY <2>2, <3>2, <3>3
  <2> QED  BY <2>1, <2>2
<1>14. \A x \in Closure : Cardinality(FramesOf(frames', x)) =
                          Cardinality(FramesOf(frames, x)) - (IF m = x THEN 1 ELSE 0)
  <2> SUFFICES ASSUME NEW x \in Closure
               PROVE  Cardinality(FramesOf(frames', x)) =
                         Cardinality(FramesOf(frames, x)) - (IF m = x THEN 1 ELSE 0)
    OBVIOUS
  <2>1. Cardinality(FramesOf(frames', x)) = Cardinality(FramesOf(rest, x))
    <3>1. CASE ends
      <4>1. Upcall(c, "final") \in Frame /\ Upcall(c, "final").method = None
        BY <1>2, <1>12, FrameIs
      <4> QED  BY <1>3, <1>5, <3>1, <4>1, PushCounts
    <3>2. CASE ~ends
      BY <1>5, <3>2
    <3> QED  BY <3>1, <3>2
  <2> QED  BY <1>7, <2>1
<1>15. frames' \in Seq(Frame)
  BY <1>13 DEF StackOK
<1>16. /\ \A x \in Closure : refs'[x] = Total(held', context', frames', x)
       /\ refs' \in [Closure -> Nat]
  BY <1>2, <1>9, <1>14, <1>15, ReleaseCounts
<1>17. Filtering' = Filtering
  BY <1>9 DEF Filtering
<1>18. \A d \in Capsule : d \in Registered' <=> d \in Registered /\ ~(ends /\ d = c)
  BY <1>5, <1>6, <1>17 DEF Registered
<1>19. FinalOf(frames) = {}
  BY <1>3, <1>11
<1>20. Shape'
  <2>1. heard' \in [Capsule -> {"nothing", "answer", "two answers", "excuse"}]
    BY <1>8 DEF HeardAtEnd
  <2>2. interests' \subseteq Capsule
    BY <1>1, <1>5 DEF Shape
  <2> QED  BY <1>1, <1>4, <1>9, <1>16, <2>1, <2>2 DEF Shape
<1>21. StackServes(frames)'
  BY <1>13 DEF StackServes, InterestKinds
<1>22. ContextOK' /\ Counted'
  BY <1>1, <1>4, <1>16 DEF ContextOK, Counted
<1>23. TablesOK'
  BY <1>1, <1>5, <1>9, <1>17 DEF TablesOK
<1>24. Owned'
  <2> SUFFICES ASSUME NEW d \in Capsule
               PROVE  /\ capRefs[d] = 1 <=> d \in Registered' \/ d \in FinalOf(frames')
                      /\ ~(d \in Registered' /\ d \in FinalOf(frames'))
    BY <1>4 DEF Owned
  <2>1. capRefs[d] = 1 <=> d \in Registered
    BY <1>1, <1>19 DEF Owned
  <2>2. ends => c \in Registered
    BY <1>6 DEF Registered
  <2> QED  BY <1>13, <1>18, <2>1, <2>2
<1>25. context' = context /\ destroyed' = destroyed /\ Filtering' = Filtering
  BY <1>4, <1>9, <1>17
<1>26. HeardOK'
  <2>1. ASSUME NEW d \in Capsule, context[d] \notin Trivial
        PROVE  heard'[d] = "nothing"
    <3>1. heard'[d] = heard[d]
      BY <1>8, <2>1 DEF HeardAtEnd
    <3> QED  BY <1>1, <2>1, <3>1 DEF HeardOK
  <2>2. ASSUME NEW d \in Capsule, context[d] \in Trivial
        PROVE  /\ d \notin Filtering
               /\ heard'[d] # "two answers"
               /\ d \in FinalOf(frames') => heard'[d] # "nothing"
               /\ d \in interests' => heard'[d] = "nothing"
    <3>1. d \notin Filtering /\ heard[d] # "two answers"
      BY <1>1, <2>2 DEF HeardOK
    <3>2. heard'[d] # "two answers"
      BY <1>8, <3>1 DEF HeardAtEnd
    <3>3. d \in FinalOf(frames') => heard'[d] # "nothing"
      <4>1. ends => kind \in InterestKinds
        BY DEF ends
      <4> QED  BY <1>8, <1>13, <2>2, <4>1 DEF HeardAtEnd
    <3>4. d \in interests' => heard'[d] = "nothing"
      <4> SUFFICES ASSUME d \in interests'
                   PROVE  heard'[d] = "nothing"
        OBVIOUS
      <4>1. d \in interests
        BY <1>5
      <4>2. ~(d = c /\ kind \in InterestKinds)
        <5>1. d = c /\ kind \in InterestKinds => ends
          BY <1>8, <1>10, <2>2 DEF HeardAtEnd
        <5> QED  BY <1>5, <5>1
      <4>3. d \notin AnsweringOf(rest) => d \notin AnsweringOf(frames)
        BY <1>3, <4>2
      <4>4. heard[d] = "nothing"
        BY <1>1, <1>11, <2>2, <4>1, <4>3 DEF HeardOK
      <4>5. heard'[d] = heard[d]
        BY <1>8, <4>2 DEF HeardAtEnd
      <4> QED  BY <4>4, <4>5
    <3> QED  BY <3>1, <3>2, <3>3, <3>4
  <2> QED  BY <1>13, <1>25, <2>1, <2>2 DEF HeardOK
<1> QED  BY <1>13, <1>20, <1>21, <1>22, <1>23, <1>24, <1>26 DEF IInv

\* Of a capsule that is free nothing has been heard.
LEMMA FreeIsSilent == ASSUME IInv, NEW c \in Capsule, capRefs[c] = 0
                      PROVE  heard[c] = "nothing"
<1>1. context[c] = None
  BY DEF IInv, ContextOK
<1>2. None \notin Trivial
  BY ClosuresAssumption
<1> QED  BY <1>1, <1>2 DEF IInv, HeardOK

\* An upcall that got to Python: a Trivial closure has heard something by then.
LEMMA CalledHeard == ASSUME IInv, frames # <<>>, frames[1].method # None,
                            frames[1].kind \in InterestKinds,
                            context[frames[1].cap] \in Trivial
                     PROVE  heard[frames[1].cap] # "nothing" /\ frames[1].method \in Trivial
<1> DEFINE c == frames[1].cap
<1>1. 1 \in DOMAIN frames /\ c \in Capsule
  BY StackIs, FrameParts DEF IInv, StackOK
<1>2. c \in interests /\ frames[1].method = context[c]
  BY <1>1 DEF IInv, StackServes
<1>3. c \in AnsweringOf(frames)
  BY <1>1 DEF AnsweringOf
<1>4. heard[c] # "nothing"
  BY <1>1, <1>2, <1>3 DEF IInv, HeardOK
<1> QED  BY <1>2, <1>4

\* What an upcall that got to Python does at its end.
LEMMA CalledEnds == ASSUME IInv, frames # <<>>, frames[1].method # None, NEW result,
                           frames[1].method \in Trivial => ~KeepsInterest(result),
                           Release(frames[1].cap, frames[1].kind = "final", frames[1].method),
                           AfterUpcall(frames[1], result),
                           Forget,
                           UNCHANGED <<cls, held, filters, destroyed>>
                    PROVE  IInv'
<1> DEFINE c == frames[1].cap
<1>1. heard' = [d \in Capsule |-> IF capRefs'[d] = 0 THEN "nothing" ELSE heard[d]]
  BY DEF Forget
<1>2. CASE frames[1].kind = "final"
  <2>1. Release(c, TRUE, frames[1].method)
    BY <1>2 DEF Release
  <2> QED  BY <1>1, <1>2, <2>1, FinalEnds
<1>3. CASE frames[1].kind # "final"
  <2>1. Release(c, FALSE, frames[1].method)
    BY <1>3 DEF Release
  <2>2. capRefs' = capRefs
    BY <2>1 DEF Release
  <2>3. \A d \in Capsule : capRefs[d] = 0 => heard[d] = "nothing"
    BY FreeIsSilent
  <2>4. \A d \in Capsule : heard'[d] = heard[d]
    BY <1>1, <2>2, <2>3
  <2>5. heard' \in [Capsule -> {"nothing", "answer", "two answers", "excuse"}]
    BY <1>1 DEF IInv, Shape
  <2>6. c \in Capsule
    BY StackIs, FrameParts DEF IInv, StackOK
  <2>7. frames[1].kind \in InterestKinds /\ context[c] \in Trivial
        => ~KeepsInterest(result) /\ heard'[c] # "nothing"
    BY <2>4, <2>6, CalledHeard
  <2>8. HeardAtEnd(c, frames[1].kind, result)
    BY <2>4, <2>5, <2>7 DEF HeardAtEnd
  <2> QED  BY <1>3, <2>1, <2>8, OtherEnds
<1> QED  BY <1>2, <1>3

LEMMA ReturnKeeps == ASSUME IInv, NEW result \in Results, UpcallReturns(result)
                     PROVE  IInv'
<1>1. /\ frames # <<>> /\ frames[1].method # None
      /\ result \in ResultsOf(frames[1].method)
      /\ Release(frames[1].cap, frames[1].kind = "final", frames[1].method)
      /\ AfterUpcall(frames[1], result)
      /\ Forget
      /\ UNCHANGED <<cls, held, filters, destroyed>>
  BY DEF UpcallReturns
<1>2. frames[1].method \in Trivial => ~KeepsInterest(result)
  BY <1>1 DEF ResultsOf, KeepsInterest
<1> QED  BY <1>1, <1>2, CalledEnds

LEMMA RaiseKeeps == ASSUME IInv, UpcallRaises
                    PROVE  IInv'
<1>1. /\ frames # <<>> /\ frames[1].method # None
      /\ Release(frames[1].cap, frames[1].kind = "final", frames[1].method)
      /\ AfterUpcall(frames[1], "err")
      /\ Forget
      /\ UNCHANGED <<cls, held, filters, destroyed>>
  BY DEF UpcallRaises, ErrorPath
<1>2. ~KeepsInterest("err")
  BY DEF KeepsInterest
<1> QED  BY <1>1, <1>2, CalledEnds

LEMMA FailKeeps == ASSUME IInv, UpcallInfoFails
                   PROVE  IInv'
<1> DEFINE c == frames[1].cap
<1>1. /\ frames # <<>> /\ frames[1].method = None
      /\ Release(c, frames[1].kind = "final", frames[1].method)
      /\ AfterUpcall(frames[1], "err")
      /\ UNCHANGED <<cls, held, filters, destroyed>>
      /\ IF frames[1].kind \in InterestKinds /\ context[c] \in Trivial
         THEN heard' = [heard EXCEPT ![c] = "excuse"] ELSE Forget
  BY DEF UpcallInfoFails, ErrorPath
<1>2. CASE frames[1].kind = "final"
  <2>1. Release(c, TRUE, frames[1].method)
    BY <1>1, <1>2 DEF Release
  <2>2. heard' = [d \in Capsule |-> IF capRefs'[d] = 0 THEN "nothing" ELSE heard[d]]
    BY <1>1, <1>2 DEF InterestKinds, Forget
  <2> QED  BY <1>1, <1>2, <2>1, <2>2, FinalEnds
<1>3. CASE frames[1].kind # "final"
  <2>1. Release(c, FALSE, frames[1].method)
    BY <1>1, <1>3 DEF Release
  <2>2. capRefs' = capRefs
    BY <2>1 DEF Release
  <2>3. \A d \in Capsule : capRefs[d] = 0 => heard[d] = "nothing"
    BY FreeIsSilent
  <2>4. heard \in [Capsule -> {"nothing", "answer", "two answers", "excuse"}]
    BY DEF IInv, Shape
  <2>5. c \in Capsule
    BY <1>1, StackIs, FrameParts DEF IInv, StackOK
  <2>6. /\ heard' \in [Capsule -> {"nothing", "answer", "two answers", "excuse"}]
        /\ \A d \in Capsule : \/ heard'[d] = heard[d]
                              \/ /\ d = c /\ context[d] \in Trivial
                                 /\ frames[1].kind \in InterestKinds
                                 /\ heard'[d] = "excuse"
        /\ frames[1].kind \in InterestKinds /\ context[c] \in Trivial => heard'[c] # "nothing"
    <3>1. CASE frames[1].kind \in InterestKinds /\ context[c] \in Trivial
      BY <1>1, <2>4, <2>5, <3>1
    <3>2. CASE ~(frames[1].kind \in InterestKinds /\ context[c] \in Trivial)
      <4>1. heard' = [d \in Capsule |-> IF capRefs'[d] = 0 THEN "nothing" ELSE heard[d]]
        BY <1>1, <3>2 DEF Forget
      <4> QED  BY <2>2, <2>3, <2>4, <3>2, <4>1
    <3> QED  BY <3>1, <3>2
  <2>7. ~KeepsInterest("err")
    BY DEF KeepsInterest
  <2>8. HeardAtEnd(c, frames[1].kind, "err")
    BY <2>6, <2>7 DEF HeardAtEnd
  <2> QED  BY <1>1, <1>3, <2>1, <2>8, OtherEnds
<1> QED  BY <1>2, <1>3

-----------------------------------------------------------------------------
(* Induction                                                                *)

LEMMA StutterKeeps == ASSUME IInv, UNCHANGED vars
                      PROVE  IInv'
<1>1. UNCHANGED <<cls, held, refs, capRefs, context, interests, filters, frames, destroyed, heard>>
  BY DEF vars, libndn
<1>2. Filtering' = Filtering /\ Registered' = Registered
  BY <1>1 DEF Filtering, Registered
<1>3. Shape' /\ StackOK(frames)' /\ StackServes(frames)' /\ ContextOK' /\ TablesOK'
  BY <1>1, <1>2 DEF IInv, Shape, StackOK, StackServes, ContextOK, TablesOK
<1>4. Owned' /\ Counted' /\ HeardOK'
  BY <1>1, <1>2 DEF IInv, Owned, Counted, HeardOK
<1> QED  BY <1>3, <1>4 DEF IInv

LEMMA NextKeeps == ASSUME IInv, [Next]_vars
                   PROVE  IInv'
<1>1. ASSUME NEW k \in Closure, NEW c \in Capsule, RegistrationFails(k, c)
      PROVE  IInv'
  <2>1. UNCHANGED vars
    BY <1>1, RefusedIsNothing
  <2> QED  BY <2>1, StutterKeeps
<1>2. CASE Handler
  BY <1>2, CallKeeps, FailKeeps, RaiseKeeps, ReturnKeeps DEF Handler
<1>3. CASE \E k \in Closure : Create(k) \/ Drop(k)
  BY <1>3, CreateKeeps, DropKeeps
<1>4. CASE \E k \in Closure, c \in Capsule :
              \/ ExpressInterest(k, c) \/ RegistrationFails(k, c)
              \/ \E p \in Prefix : SetInterestFilter(k, c, p)
  BY <1>1, <1>4, ExpressKeeps, SetKeeps
<1>5. CASE \E p \in Prefix : ClearInterestFilter(p)
  BY <1>5, ClearKeeps
<1>6. CASE DestroyHandle
  BY <1>6, DestroyKeeps
<1>7. CASE \E c \in Capsule : Finalize(c) \/ \E kind \in Kinds : Dispatch(c, kind)
  BY <1>7, FinalizeKeeps, DispatchKeeps
<1>8. CASE UNCHANGED vars
  BY <1>8, StutterKeeps
<1> QED  BY <1>2, <1>3, <1>4, <1>5, <1>6, <1>7, <1>8 DEF Next

\* The inductive invariant holds in every execution: the stack of upcalls and
\* libndn's tables say which references there are (ndn_upcall_handler,
\* __ndn_closure_destroy).
THEOREM Invariance == Spec => []IInv
<1> QED  BY InitIInv, NextKeeps, PTL DEF Spec

-----------------------------------------------------------------------------
(* Theorems                                                                 *)

\* Everything has its shape; no reference count goes below zero.
THEOREM TypeCorrect == Spec => []TypeOK
<1>1. IInv => TypeOK
  BY DEF IInv, Shape, StackOK, TypeOK
<1> QED  BY <1>1, Invariance, PTL

\* A capsule lives exactly as long as libndn may still call its ndn_closure or its
\* FINAL upcall runs: express_interest, set_interest_filter and ndn_upcall_handler
\* neither leak it nor free it in use.
THEOREM CapsulesHaveOneOwner == Spec => []OneOwner
<1>1. IInv => OneOwner
  BY DEF IInv, Owned, OneOwner, Finalizing, FinalOf
<1> QED  BY <1>1, Invariance, PTL

\* The reference count of a Closure is the number of those who refer to it, on
\* every path through ndn_upcall_handler.
THEOREM ClosuresAreCounted == Spec => []CountsAreExact
<1>1. IInv => CountsAreExact
  BY DEF IInv, Counted, Total, CapsOf, FramesOf, CountsAreExact
<1> QED  BY <1>1, Invariance, PTL

\* A TrivialExpressClosure calls back once per interest, before the interest is
\* over, unless there is an excuse (Closure.py).
THEOREM AnswersOnce == Spec => []AnsweredOnce
<1>1. IInv => AnsweredOnce
  <2> SUFFICES ASSUME IInv, NEW c \in Capsule, context[c] \in Trivial
               PROVE  /\ heard[c] # "two answers"
                      /\ c \in Finalizing /\ ~destroyed => heard[c] # "nothing"
    BY DEF AnsweredOnce
  <2>1. Finalizing = FinalOf(frames)
    BY DEF Finalizing, FinalOf
  <2> QED  BY <2>1 DEF IInv, HeardOK
<1> QED  BY <1>1, Invariance, PTL

-----------------------------------------------------------------------------
(* The refinement of ClosureLife                                            *)

LEMMA CurrentIs == /\ Settled(frames) => current = None
                   /\ Settled(frames)' => current' = None
                   /\ \A c \in Capsule, kind \in Kinds, fr \in Seq(Frame) :
                         frames' = <<Upcall(c, kind)>> \o fr => current' = c
<1>1. ASSUME NEW c \in Capsule, NEW kind \in Kinds, NEW fr \in Seq(Frame),
             frames' = <<Upcall(c, kind)>> \o fr
      PROVE  current' = c
  <2>1. frames' # <<>> /\ frames'[1] = Upcall(c, kind)
    BY <1>1, FrameIs, Pushed
  <2> QED  BY <2>1, FrameIs DEF current
<1> QED  BY <1>1 DEF Settled, current

\* The stages of what is registered, and of what a FINAL upcall is for.
LEMMA LifeIs == ASSUME IInv, NEW c \in Capsule
                PROVE  /\ capRefs[c] = 0 <=> life[c] = "free"
                       /\ c \in Registered <=> life[c] = "registered"
                       /\ c \in FinalOf(frames) <=> life[c] = "final"
<1>1. capRefs[c] \in {0, 1}
  BY DEF IInv, Shape
<1>2. /\ capRefs[c] = 1 <=> c \in Registered \cup FinalOf(frames)
      /\ ~(c \in Registered /\ c \in FinalOf(frames))
  BY DEF IInv, Owned
<1> QED  BY <1>1, <1>2 DEF life

LEMMA LifeSame == ASSUME capRefs' = capRefs, Registered' = Registered
                  PROVE  life' = life
BY DEF life

LEMMA LifeBegins == ASSUME NEW c \in Capsule, capRefs' = [capRefs EXCEPT ![c] = 1], IInv,
                           Registered' = Registered \cup {c}
                    PROVE  life' = [life EXCEPT ![c] = "registered"]
<1>1. \A d \in Capsule : capRefs'[d] = IF d = c THEN 1 ELSE capRefs[d]
  BY DEF IInv, Shape
<1>2. \A d \in Capsule : d \in Registered' <=> d \in Registered \/ d = c
  OBVIOUS
<1>3. \A d \in Capsule : life'[d] = IF d = c THEN "registered" ELSE life[d]
  BY <1>1, <1>2 DEF life
<1>4. life' = [d \in Capsule |-> life'[d]] /\ life = [d \in Capsule |-> life[d]]
  BY DEF life
<1> QED  BY <1>3, <1>4

LEMMA LifeRetires == ASSUME IInv, NEW c \in Registered, c \in Capsule, capRefs' = capRefs,
                            Registered' = Registered \ {c}
                     PROVE  life' = [life EXCEPT ![c] = "final"]
<1>1. capRefs[c] = 1
  BY DEF IInv, Owned
<1>2. \A d \in Capsule : d \in Registered' <=> d \in Registered /\ d # c
  OBVIOUS
<1>3. \A d \in Capsule : life'[d] = IF d = c THEN "final" ELSE life[d]
  BY <1>1, <1>2 DEF life
<1>4. life' = [d \in Capsule |-> life'[d]] /\ life = [d \in Capsule |-> life[d]]
  BY DEF life
<1> QED  BY <1>3, <1>4

LEMMA LifeEnds == ASSUME IInv, NEW c \in Capsule, capRefs' = [capRefs EXCEPT ![c] = 0],
                         Registered' = Registered
                  PROVE  life' = [life EXCEPT ![c] = "free"]
<1>1. \A d \in Capsule : capRefs'[d] = IF d = c THEN 0 ELSE capRefs[d]
  BY DEF IInv, Shape
<1> QED  BY <1>1 DEF life

LEMMA InitLife == Init => Life!Init
BY DEF Init, Life!Init, life, current

\* Nothing happens to a capsule while Python code works with its own references.
LEMMA QuietStutters == ASSUME UNCHANGED <<capRefs, interests, filters, frames>>
                       PROVE  UNCHANGED <<life, current>>
<1>1. Registered' = Registered
  BY DEF Registered, Filtering
<1>2. current' = current
  BY DEF current
<1> QED  BY <1>1, <1>2, LifeSame

LEMMA ExpressRegisters == ASSUME IInv, NEW k \in Closure, NEW c \in Capsule, ExpressInterest(k, c)
                          PROVE  Life!Register(c)
<1>1. /\ capRefs[c] = 0 /\ capRefs' = [capRefs EXCEPT ![c] = 1]
      /\ frames' = frames /\ interests' = interests \cup {c} /\ filters' = filters
  BY DEF ExpressInterest, Registers, NewCapsule
<1>2. Registered' = Registered \cup {c}
  BY <1>1 DEF Registered, Filtering
<1>3. life' = [life EXCEPT ![c] = "registered"]
  BY <1>1, <1>2, LifeBegins
<1>4. life[c] = "free"
  BY <1>1, LifeIs
<1>5. current' = current
  BY <1>1 DEF current
<1> QED  BY <1>3, <1>4, <1>5 DEF Life!Register

\* A handler that has called Python, or let go of everything, is done with the
\* ndn_closure; with FINAL the capsule is freed, after an answer FINAL begins.
LEMMA HandlerLives == ASSUME IInv, frames # <<>>, NEW result,
                             Release(frames[1].cap, frames[1].kind = "final", frames[1].method),
                             AfterUpcall(frames[1], result), filters' = filters
                      PROVE  Life!Next
<1> DEFINE c == frames[1].cap
           rest == Tail(frames)
<1>1. StackOK(frames) /\ frames \in Seq(Frame)
  BY DEF IInv, StackOK
<1>2. 1 \in DOMAIN frames /\ c \in Capsule /\ rest \in Seq(Frame)
  BY <1>1, StackIs, FrameParts, Popped
<1>3. Settled(rest)
  BY <1>1, StackPop
<1>4. CASE frames[1].kind = "final"
  <2>1. c \in FinalOf(frames)
    BY <1>2, <1>4 DEF FinalOf
  <2>2. life[c] = "final" /\ capRefs[c] = 1
    BY <1>2, <2>1, LifeIs DEF IInv, Owned
  <2>3. capRefs' = [capRefs EXCEPT ![c] = 0]
    BY <1>4, <2>2 DEF Release
  <2>4. frames' = rest /\ interests' = interests
    BY <1>4 DEF AfterUpcall, InterestKinds
  <2>5. Registered' = Registered
    BY <2>4 DEF Registered, Filtering
  <2>6. life' = [life EXCEPT ![c] = "free"]
    BY <1>2, <2>3, <2>5, LifeEnds
  <2>7. current' = None
    BY <1>3, <2>4, CurrentIs DEF Settled
  <2> HIDE DEF c
  <2>8. Life!Free(c)
    BY <2>2, <2>6, <2>7 DEF Life!Free
  <2> QED  BY <1>2, <2>8 DEF Life!Next
<1>5. CASE frames[1].kind # "final" /\ frames[1].kind \in InterestKinds /\ ~KeepsInterest(result)
  <2>1. /\ frames' = <<Upcall(c, "final")>> \o rest
        /\ interests' = interests \ {c}
        /\ capRefs' = capRefs
    BY <1>5 DEF AfterUpcall, Release
  <2>2. c \in interests /\ c \in Registered /\ c \notin Filtering
    BY <1>2, <1>5 DEF IInv, StackServes, TablesOK, Registered
  <2>3. Registered' = Registered \ {c}
    BY <2>1, <2>2 DEF Registered, Filtering
  <2>4. life' = [life EXCEPT ![c] = "final"]
    BY <1>2, <2>1, <2>2, <2>3, LifeRetires
  <2>5. life[c] = "registered"
    BY <1>2, <2>2, LifeIs
  <2>6. current' = c
    BY <1>2, <2>1, CurrentIs DEF Kinds
  <2> HIDE DEF c
  <2>7. Life!Retire(c)
    BY <2>4, <2>5, <2>6 DEF Life!Retire
  <2> QED  BY <1>2, <2>7 DEF Life!Next
<1>6. CASE frames[1].kind # "final" /\ ~(frames[1].kind \in InterestKinds /\ ~KeepsInterest(result))
  <2>1. frames' = rest /\ interests' = interests /\ capRefs' = capRefs
    BY <1>6 DEF AfterUpcall, Release
  <2>2. Registered' = Registered
    BY <2>1 DEF Registered, Filtering
  <2>3. current' = None
    BY <1>3, <2>1, CurrentIs DEF Settled
  <2> QED  BY <2>1, <2>2, <2>3, LifeSame DEF Life!Next, Life!Accept
<1> QED  BY <1>4, <1>5, <1>6

\* libndn lets go of a capsule and begins its FINAL upcall.
LEMMA RetireLives == ASSUME IInv, NEW old \in Registered, capRefs' = capRefs,
                            frames' = <<Upcall(old, "final")>> \o frames,
                            Registered' = Registered \ {old}
                     PROVE  Life!Next
<1>1. old \in Capsule
  BY OldIs
<1>2. life' = [life EXCEPT ![old] = "final"]
  BY <1>1, LifeRetires
<1>3. life[old] = "registered"
  BY <1>1, LifeIs
<1>4. frames \in Seq(Frame) /\ "final" \in Kinds
  BY DEF IInv, StackOK, Kinds
<1>5. current' = old
  BY <1>1, <1>4, CurrentIs
<1>6. Life!Retire(old)
  BY <1>2, <1>3, <1>5 DEF Life!Retire
<1> QED  BY <1>1, <1>6 DEF Life!Next

LEMMA ClearLives == ASSUME IInv, NEW p \in Prefix, ClearInterestFilter(p)
                    PROVE  Life!Next
<1> DEFINE old == filters[p]
<1>1. /\ old # None /\ capRefs' = capRefs /\ interests' = interests
      /\ filters' = [filters EXCEPT ![p] = None]
      /\ frames' = <<Upcall(old, "final")>> \o frames
  BY DEF ClearInterestFilter
<1>2. old \in Filtering /\ old \in Registered /\ old \notin interests
  BY <1>1 DEF Filtering, Registered, IInv, TablesOK
<1>3. \A q \in Prefix : filters[q] = old <=> q = p
  BY <1>1 DEF IInv, TablesOK
<1>4. filters \in [Prefix -> Capsule \cup {None}]
  BY DEF IInv, Shape
<1>5. Filtering' = Filtering \ {old}
  <2>1. \A q \in Prefix : filters'[q] = IF q = p THEN None ELSE filters[q]
    BY <1>1, <1>4
  <2>2. Filtering' = {filters'[q] : q \in Prefix} \ {None}
    BY DEF Filtering
  <2> QED  BY <1>3, <2>1, <2>2 DEF Filtering
<1>6. Registered' = Registered \ {old}
  BY <1>1, <1>2, <1>5 DEF Registered
<1> HIDE DEF old
<1> QED  BY <1>1, <1>2, <1>6, RetireLives

LEMMA FinalizeLives == ASSUME IInv, NEW c \in Capsule, Finalize(c)
                       PROVE  Life!Next
<1>1. /\ frames = <<>> /\ c \in Registered
      /\ interests' = interests \ {c}
      /\ filters' = [p \in Prefix |-> IF filters[p] = c THEN None ELSE filters[p]]
      /\ frames' = <<Upcall(c, "final")>> \o frames
      /\ capRefs' = capRefs
  BY DEF Finalize
<1>2. c # None
  BY ClosuresAssumption
<1>3. Filtering' = Filtering \ {c}
  BY <1>1, <1>2 DEF Filtering
<1>4. Registered' = Registered \ {c}
  BY <1>1, <1>3 DEF Registered
<1> QED  BY <1>1, <1>4, RetireLives

LEMMA DispatchLives == ASSUME IInv, NEW c \in Capsule, NEW kind \in Kinds, Dispatch(c, kind)
                       PROVE  Life!Next
<1>1. /\ frames = <<>> /\ c \in Registered
      /\ frames' = <<Upcall(c, kind)>> \o <<>>
      /\ UNCHANGED <<capRefs, interests, filters>>
  BY DEF Dispatch, libndn, Registered
<1>2. Registered' = Registered
  BY <1>1 DEF Registered, Filtering
<1>3. <<>> \in Seq(Frame)
  OBVIOUS
<1>4. current = None /\ current' = c
  BY <1>1, <1>3, CurrentIs DEF Settled
<1>5. life' = life /\ life[c] = "registered"
  BY <1>1, <1>2, LifeSame, LifeIs
<1>6. Life!Call(c)
  BY <1>4, <1>5 DEF Life!Call
<1> QED  BY <1>6 DEF Life!Next

LEMMA CallLives == ASSUME IInv, CallPython
                   PROVE  Life!Next
<1> DEFINE m == context[frames[1].cap]
<1>1. /\ frames # <<>> /\ frames[1].method = None /\ frames' = [frames EXCEPT ![1].method = m]
      /\ UNCHANGED <<capRefs, context, interests, filters>>
  BY DEF CallPython, libndn
<1>2. StackOK(frames) /\ StackServes(frames) /\ frames \in Seq(Frame) /\ frames' \in Seq(Frame)
  BY CallKeeps DEF IInv, StackOK
<1>3. Registered' = Registered
  BY <1>1 DEF Registered, Filtering
<1>4. 1 \in DOMAIN frames /\ frames[1].cap \in Capsule /\ frames[1].kind \in Kinds
  BY <1>1, <1>2, StackIs, FrameParts
<1>5. frames[1].cap \in Registered \cup FinalOf(frames)
  <2>1. CASE frames[1].kind = "final"
    BY <1>4, <2>1 DEF FinalOf
  <2>2. CASE frames[1].kind # "final"
    BY <1>1, <1>2, <1>4, <2>2 DEF StackServes, Kinds, Registered
  <2> QED  BY <2>1, <2>2
<1>6. m # None /\ m \in Closure \cup {None}
  BY <1>4, <1>5 DEF IInv, Owned, ContextOK, Shape
<1>7. frames'[1].method = m
  BY <1>1, <1>2, <1>6, MethodSet
<1> HIDE DEF m
<1>8. current' = None
  BY <1>6, <1>7, CurrentIs DEF Settled
<1> QED  BY <1>1, <1>3, <1>8, LifeSame DEF Life!Next, Life!Accept

LEMMA SetLives == ASSUME IInv, NEW k \in Closure, NEW c \in Capsule, NEW p \in Prefix,
                         SetInterestFilter(k, c, p)
                  PROVE  Life!Next
<1> DEFINE old == filters[p]
<1>1. /\ Registers(k, c) /\ capRefs[c] = 0 /\ capRefs' = [capRefs EXCEPT ![c] = 1]
      /\ filters' = [filters EXCEPT ![p] = c] /\ interests' = interests
      /\ old = None => frames' = frames
      /\ old # None => frames' = <<Upcall(old, "final")>> \o frames
  BY DEF SetInterestFilter, Registers, NewCapsule
<1>2. c \notin Filtering /\ c \notin interests
  BY <1>1, Fresh
<1>3. c # None
  BY ClosuresAssumption
<1>4. filters \in [Prefix -> Capsule \cup {None}]
  BY DEF IInv, Shape
<1>5. Filtering' = (Filtering \ {old}) \cup {c}
  <2>1. \A q \in Prefix : filters'[q] = IF q = p THEN c ELSE filters[q]
    BY <1>1, <1>4
  <2>2. \A q \in Prefix : q # p => filters[q] = None \/ filters[q] # old
    BY DEF IInv, TablesOK
  <2>3. Filtering' = {filters'[q] : q \in Prefix} \ {None}
    BY DEF Filtering
  <2>4. Filtering' \subseteq (Filtering \ {old}) \cup {c}
    BY <2>1, <2>2, <2>3 DEF Filtering
  <2>5. (Filtering \ {old}) \cup {c} \subseteq Filtering'
    BY <1>3, <2>1, <2>3 DEF Filtering
  <2> QED  BY <2>4, <2>5
<1>6. life[c] = "free"
  BY <1>1, LifeIs
<1>7. CASE old = None
  <2>1. None \notin Filtering
    BY DEF Filtering
  <2>2. Registered' = Registered \cup {c}
    BY <1>1, <1>5, <1>7, <2>1 DEF Registered
  <2>3. life' = [life EXCEPT ![c] = "registered"]
    BY <1>1, <2>2, LifeBegins
  <2>4. current' = current
    BY <1>1, <1>7 DEF current
  <2>5. Life!Register(c)
    BY <1>6, <2>3, <2>4 DEF Life!Register
  <2> QED  BY <2>5 DEF Life!Next
<1>8. CASE old # None
  <2>1. old \in Filtering /\ old \in Registered /\ old \notin interests
    BY <1>8 DEF Filtering, Registered, IInv, TablesOK
  <2>2. old \in Capsule /\ old # c
    BY <1>2, <2>1, OldIs
  <2>3. Registered' = (Registered \ {old}) \cup {c}
    BY <1>1, <1>5, <2>1 DEF Registered
  <2>4. life[old] = "registered" /\ capRefs[old] = 1
    BY <2>1, <2>2, LifeIs DEF IInv, Owned
  <2>5. frames \in Seq(Frame) /\ "final" \in Kinds
    BY DEF IInv, StackOK, Kinds
  <2>6. current' = old
    BY <1>1, <1>8, <2>2, <2>5, CurrentIs
  <2>7. life' = [life EXCEPT ![c] = "registered", ![old] = "final"]
    <3>1. \A d \in Capsule : capRefs'[d] = IF d = c THEN 1 ELSE capRefs[d]
      BY <1>1 DEF IInv, Shape
    <3>2. \A d \in Capsule : d \in Registered' <=> (d \in Registered /\ d # old) \/ d = c
      BY <2>3
    <3>3. \A d \in Capsule : life'[d] = IF d = old THEN "final"
                                        ELSE IF d = c THEN "registered" ELSE life[d]
      BY <2>2, <2>4, <3>1, <3>2 DEF life
    <3>4. life' = [d \in Capsule |-> life'[d]] /\ life = [d \in Capsule |-> life[d]]
      BY DEF life
    <3> HIDE DEF old
    <3> QED  BY <2>2, <3>3, <3>4
  <2> HIDE DEF old
  <2>8. Life!Replace(c, old)
    BY <1>6, <2>4, <2>6, <2>7 DEF Life!Replace
  <2> QED  BY <2>2, <2>8 DEF Life!Next
<1> QED  BY <1>7, <1>8

LEMMA StepLives == ASSUME IInv, [Next]_vars
                   PROVE  [Life!Next]_<<life, current>>
<1>1. ASSUME UNCHANGED vars PROVE UNCHANGED <<life, current>>
  BY <1>1, QuietStutters DEF vars, libndn
<1>2. ASSUME NEW k \in Closure, Create(k) \/ Drop(k)
      PROVE  UNCHANGED <<life, current>>
  BY <1>2, QuietStutters DEF Create, Drop, libndn
<1>3. ASSUME NEW k \in Closure, NEW c \in Capsule, RegistrationFails(k, c)
      PROVE  UNCHANGED <<life, current>>
  BY <1>1, <1>3, RefusedIsNothing
<1>4. ASSUME DestroyHandle PROVE UNCHANGED <<life, current>>
  BY <1>4, QuietStutters DEF DestroyHandle, libndn
<1>5. ASSUME NEW k \in Closure, NEW c \in Capsule, ExpressInterest(k, c)
      PROVE  Life!Next
  BY <1>5, ExpressRegisters DEF Life!Next
<1>6. CASE Handler
  <2>1. ASSUME NEW result \in Results, UpcallReturns(result) PROVE Life!Next
    BY <2>1, HandlerLives DEF UpcallReturns
  <2>2. ASSUME UpcallRaises PROVE Life!Next
    BY <2>2, HandlerLives DEF UpcallRaises, ErrorPath
  <2>3. ASSUME UpcallInfoFails PROVE Life!Next
    BY <2>3, HandlerLives DEF UpcallInfoFails, ErrorPath
  <2> QED  BY <1>6, <2>1, <2>2, <2>3, CallLives DEF Handler
<1>7. CASE \E k \in Closure, c \in Capsule :
              \/ ExpressInterest(k, c) \/ RegistrationFails(k, c)
              \/ \E p \in Prefix : SetInterestFilter(k, c, p)
  BY <1>3, <1>5, <1>7, SetLives
<1>8. CASE \E c \in Capsule : Finalize(c) \/ \E kind \in Kinds : Dispatch(c, kind)
  BY <1>8, FinalizeLives, DispatchLives
<1> QED  BY <1>1, <1>2, <1>4, <1>6, <1>7, <1>8, ClearLives DEF Next

\* The calls and ndn_upcall_handler implement the life of an ndn_closure: libndn
\* never calls one that is not registered or whose FINAL upcall has begun.
THEOREM ClosuresImplementLife == Spec => ImplementsLife
<1>1. Init => Life!Init
  BY InitLife
<1>2. IInv /\ [Next]_vars => [Life!Next]_<<life, current>>
  BY StepLives
<1> QED  BY <1>1, <1>2, Invariance, PTL DEF Spec, ImplementsLife, Life!Spec
=============================================================================
