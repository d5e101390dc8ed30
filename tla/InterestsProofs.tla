--------------------------- MODULE InterestsProofs ---------------------------
(***************************************************************************)
(* When a cached wire form is stale, and what parsing keeps, for any number *)
(* of different values of components.                                       *)
(***************************************************************************)
EXTENDS Interests, TLAPS

Wires == {NoWire} \cup [buf : Buffers, pi : {None, "parsed", "zeros"}]

\* The shape of the objects, which TypeOK says of their parts only.
Shape == /\ names \in [NameId -> [components : Comps, ndn_data : Comps \cup {None}]]
         /\ interest \in [name : NameId, attr : Attrs, ndn_data : Wires]
         /\ shifted \subseteq NameId
         /\ {renamed, raised, answered} \subseteq BOOLEAN
         /\ origin \in Buffers \cup {None}

\* What has been encoded could be encoded.
WireEncodable == Cached => \A a \in Attr : interest.ndn_data.buf.attr[a] # "wrong"

\* A parsed Interest has the Name the parser made.
OriginOwn == origin # None => interest.name = "own"

\* Zeros come with an exception.
ZerosRaised == interest.ndn_data.pi = "zeros" => raised /\ ~Parses(interest.ndn_data.buf)

IInv == /\ Shape
        /\ StaleOnlyByAlias
        /\ ReceivedLosesOnlyExcludeAndLong
        /\ WireEncodable
        /\ OriginOwn
        /\ ZerosRaised

-----------------------------------------------------------------------------
(* Lemmas about values                                                      *)

\* The values of attributes: v may be assigned to a.
LEMMA AssignedAttrs == ASSUME NEW f \in Attrs, NEW a \in Attr, NEW v \in Values(a)
                       PROVE  [f EXCEPT ![a] = v] \in Attrs
<1>1. v \in UNION {Values(b) : b \in Attr}
  OBVIOUS
<1>2. f \in [Attr -> UNION {Values(b) : b \in Attr}] /\ \A b \in Attr : f[b] \in Values(b)
  BY DEF Attrs
<1> DEFINE g == [f EXCEPT ![a] = v]
<1>3. g \in [Attr -> UNION {Values(b) : b \in Attr}]
  BY <1>1, <1>2
<1>4. \A b \in Attr : g[b] \in Values(b)
  BY <1>2
<1> HIDE DEF g
<1>5. g \in Attrs
  BY <1>3, <1>4 DEF Attrs
<1> QED  BY <1>5 DEF g

LEMMA NoneIsAValue == ASSUME NEW a \in Attr PROVE None \in Values(a)
BY DEF Attr, Values

LEMMA ExcludeIsAttr == "exclude" \in Attr
BY DEF Attr

\* What is written for attributes are values of attributes.
LEMMA EncodedAttrs ==
    ASSUME NEW f \in Attrs
    PROVE  LET g == [f EXCEPT !["exclude"] = None, !["lifetime"] = InThreeBytes(@)]
           IN  /\ g \in Attrs
               /\ g["exclude"] = None
               /\ g["lifetime"] = InThreeBytes(f["lifetime"])
               /\ \A a \in Attr \ {"exclude", "lifetime"} : g[a] = f[a]
               /\ (\A a \in Attr : f[a] # "wrong") => \A a \in Attr : g[a] # "wrong"
<1> DEFINE h == [f EXCEPT !["exclude"] = None]
           v == InThreeBytes(f["lifetime"])
           g == [h EXCEPT !["lifetime"] = v]
<1>1. "lifetime" \in Attr /\ "exclude" \in Attr
  BY DEF Attr
<1>2. f \in [Attr -> UNION {Values(b) : b \in Attr}] /\ f["lifetime"] \in Values("lifetime")
  BY <1>1 DEF Attrs
<1>3. v \in Values("lifetime") /\ (f["lifetime"] # "wrong" => v # "wrong")
  BY <1>2, InterestsAssumption DEF InThreeBytes, Values
<1>4. h \in Attrs
  BY <1>1, AssignedAttrs, NoneIsAValue
<1>5. g \in Attrs
  <2> HIDE DEF h, v
  <2> QED  BY <1>1, <1>3, <1>4, AssignedAttrs
<1>6. \A a \in Attr : g[a] = IF a = "lifetime" THEN v ELSE IF a = "exclude" THEN None ELSE f[a]
  BY <1>2
<1>7. g = [f EXCEPT !["exclude"] = None, !["lifetime"] = InThreeBytes(@)]
  BY <1>2
<1>8. (\A a \in Attr : f[a] # "wrong") => \A a \in Attr : g[a] # "wrong"
  BY <1>1, <1>3, <1>6, InterestsAssumption
<1> HIDE DEF g, h, v
<1>9. g["exclude"] = None /\ g["lifetime"] = v /\ \A a \in Attr \ {"exclude", "lifetime"} : g[a] = f[a]
  BY <1>1, <1>6
<1> QED  BY <1>5, <1>7, <1>8, <1>9 DEF v

\* No attribute is set.
LEMMA BlankAttrs == [a \in Attr |-> None] \in Attrs
<1> DEFINE f == [a \in Attr |-> None]
<1>1. \A a \in Attr : None \in Values(a) /\ None \in UNION {Values(b) : b \in Attr}
  BY NoneIsAValue
<1>2. f \in [Attr -> UNION {Values(b) : b \in Attr}] /\ \A a \in Attr : f[a] \in Values(a)
  BY <1>1
<1> HIDE DEF f
<1>3. f \in Attrs
  BY <1>2 DEF Attrs
<1> QED  BY <1>3 DEF f

\* A new object has the shape of one.
LEMMA BlankShape == ASSUME NEW n \in NameId
                    PROVE  Blank(n) \in [name : NameId, attr : Attrs, ndn_data : Wires]
BY BlankAttrs DEF Blank, Wires

\* A wire form that is read: the cached one or a new one, both of good values.
LEMMA WireIsGood ==
    ASSUME IInv, Readable
    PROVE  /\ Wire \in [buf : Buffers, pi : {None, "parsed", "zeros"}]
           /\ \A a \in Attr : Wire.buf.attr[a] # "wrong"
           /\ Wire.buf = Encoding(interest) \/ (Cached /\ renamed)
           /\ Wire.pi = "zeros" => raised /\ ~Parses(Wire.buf)
<1>0. /\ interest \in [name : NameId, attr : Attrs, ndn_data : Wires]
      /\ names \in [NameId -> [components : Comps, ndn_data : Comps \cup {None}]]
  BY DEF IInv, Shape
<1>1. CASE Cached
  <2>1. Wire = interest.ndn_data /\ interest.ndn_data \in Wires /\ interest.ndn_data # NoWire
    BY <1>0, <1>1 DEF Wire, Cached
  <2>2. Wire \in [buf : Buffers, pi : {None, "parsed", "zeros"}]
    BY <2>1 DEF Wires
  <2> QED  BY <1>1, <2>1, <2>2 DEF IInv, WireEncodable, StaleOnlyByAlias, ZerosRaised
<1>2. CASE ~Cached
  <2>1. Wire = NewCapsule(Encoding(interest)) /\ Encodable(interest)
    BY <1>2 DEF Wire, Readable
  <2>2. /\ Encoding(interest).attr \in Attrs
        /\ \A a \in Attr : Encoding(interest).attr[a] # "wrong"
    <3>1. interest.attr \in Attrs /\ \A a \in Attr : interest.attr[a] # "wrong"
      BY <1>0, <2>1 DEF Encodable
    <3> QED  BY <3>1, EncodedAttrs DEF Encoding
  <2>3. names[interest.name].components \in Comps
    BY <1>0
  <2>4. Encoding(interest) \in Buffers
    BY <2>2, <2>3 DEF Encoding, Buffers
  <2> QED  BY <2>1, <2>2, <2>4, InterestsAssumption DEF NewCapsule
<1> QED  BY <1>1, <1>2

\* The parsed form of a capsule.
LEMMA GetPiIsGood ==
    ASSUME NEW w \in [buf : Buffers, pi : {None, "parsed", "zeros"}]
    PROVE  /\ GetPi(w) \in [buf : Buffers, pi : {"parsed", "zeros"}]
           /\ GetPi(w).buf = w.buf
           /\ GetPi(w).pi = "zeros" => PiRaises(w) \/ w.pi = "zeros"
BY InterestsAssumption DEF GetPi, PiRaises

-----------------------------------------------------------------------------
(* The steps                                                                *)

LEMMA InitIInv == Init => IInv
<1> SUFFICES ASSUME Init PROVE IInv
  OBVIOUS
<1>1. Shape
  <2>1. names \in [NameId -> [components : Comps, ndn_data : Comps \cup {None}]]
    BY DEF Init
  <2>2. interest \in [name : NameId, attr : Attrs, ndn_data : Wires]
    BY BlankShape DEF Init, NameId
  <2> QED  BY <2>1, <2>2 DEF Init, Shape
<1>2. ~Cached /\ interest.ndn_data = NoWire
  BY DEF Init, Blank, Cached
<1>3. StaleOnlyByAlias /\ WireEncodable
  BY <1>2 DEF Init, StaleOnlyByAlias, WireEncodable
<1>4. ZerosRaised
  BY <1>2, InterestsAssumption DEF NoWire, ZerosRaised
<1>5. ReceivedLosesOnlyExcludeAndLong /\ OriginOwn
  BY DEF Init, ReceivedLosesOnlyExcludeAndLong, OriginOwn
<1> QED  BY <1>1, <1>3, <1>4, <1>5 DEF IInv

\* An Interest that has no wire form afterwards has no stale one and no zeros.
LEMMA NoWireIsGood ==
    ASSUME interest'.ndn_data = NoWire
    PROVE  /\ ~Cached'
           /\ WireEncodable' /\ ZerosRaised'
<1>1. ~Cached'
  BY DEF Cached
<1>2. WireEncodable'
  BY <1>1 DEF WireEncodable
<1>3. interest'.ndn_data.pi # "zeros"
  BY InterestsAssumption DEF NoWire
<1> QED  BY <1>1, <1>2, <1>3 DEF ZerosRaised

LEMMA ConstructKeeps == ASSUME IInv, NEW n \in NameId, Construct(n) PROVE IInv'
<1>1. PICK c \in Comps : names' = IF n = "own" THEN [names EXCEPT ![n] = NewName(c)] ELSE names
  BY DEF Construct
<1>2. interest' = Blank(n) /\ interest'.ndn_data = NoWire
  BY DEF Construct, Blank
<1>3. Shape'
  <2>1. NewName(c) \in [components : Comps, ndn_data : Comps \cup {None}]
    BY DEF NewName
  <2>2. names' \in [NameId -> [components : Comps, ndn_data : Comps \cup {None}]]
    BY <1>1, <2>1 DEF IInv, Shape
  <2>3. interest' \in [name : NameId, attr : Attrs, ndn_data : Wires]
    BY <1>2, BlankShape
  <2> QED  BY <2>2, <2>3 DEF IInv, Shape, Construct, Forget
<1>4. ~Cached' /\ WireEncodable' /\ ZerosRaised'
  BY <1>2, NoWireIsGood
<1>5. StaleOnlyByAlias'
  BY <1>1, <1>4 DEF IInv, Shape, StaleOnlyByAlias, Construct, NewName
<1>6. ReceivedLosesOnlyExcludeAndLong' /\ OriginOwn'
  BY DEF Construct, ReceivedLosesOnlyExcludeAndLong, OriginOwn
<1> QED  BY <1>3, <1>4, <1>5, <1>6 DEF IInv

LEMMA SetAttrKeeps == ASSUME IInv, NEW a \in Attr, NEW v \in Values(a), SetAttr(a, v) PROVE IInv'
<1>1. interest' = [interest EXCEPT !.attr[a] = v, !.ndn_data = NoWire]
  BY DEF SetAttr
<1>2. interest \in [name : NameId, attr : Attrs, ndn_data : Wires]
  BY DEF IInv, Shape
<1>3. [interest.attr EXCEPT ![a] = v] \in Attrs /\ NoWire \in Wires
  BY <1>2, AssignedAttrs DEF Wires
<1>4. Shape'
  BY <1>1, <1>2, <1>3 DEF IInv, Shape, SetAttr, Forget
<1>5. ~Cached' /\ WireEncodable' /\ ZerosRaised'
  BY <1>1, <1>2, NoWireIsGood
<1>6. StaleOnlyByAlias'
  BY <1>5 DEF IInv, StaleOnlyByAlias, SetAttr
<1>7. ReceivedLosesOnlyExcludeAndLong' /\ OriginOwn'
  BY DEF SetAttr, ReceivedLosesOnlyExcludeAndLong, OriginOwn
<1> QED  BY <1>4, <1>5, <1>6, <1>7 DEF IInv

LEMMA SetNameKeeps == ASSUME IInv, SetName PROVE IInv'
<1>1. interest' = [interest EXCEPT !.name = "app", !.ndn_data = NoWire]
  BY DEF SetName
<1>2. interest \in [name : NameId, attr : Attrs, ndn_data : Wires]
  BY DEF IInv, Shape
<1>3. Shape'
  BY <1>1, <1>2 DEF IInv, Shape, SetName, Forget, NameId, Wires
<1>4. ~Cached' /\ WireEncodable' /\ ZerosRaised'
  BY <1>1, <1>2, NoWireIsGood
<1>5. StaleOnlyByAlias'
  BY <1>4 DEF IInv, StaleOnlyByAlias, SetName
<1>6. ReceivedLosesOnlyExcludeAndLong' /\ OriginOwn'
  BY DEF SetName, ReceivedLosesOnlyExcludeAndLong, OriginOwn
<1> QED  BY <1>3, <1>4, <1>5, <1>6 DEF IInv

\* A change of one Name, which the Interest has or has not.
LEMMA SetComponentsKeeps == ASSUME IInv, NEW c \in Comps, SetComponents(c) PROVE IInv'
<1>1. /\ names' = [names EXCEPT !["app"] = NewName(c)] /\ UNCHANGED <<interest, origin, raised, answered>>
      /\ "app" \in NameId
  BY DEF SetComponents, NameId
<1>2. /\ names \in [NameId -> [components : Comps, ndn_data : Comps \cup {None}]]
      /\ interest \in [name : NameId, attr : Attrs, ndn_data : Wires]
  BY DEF IInv, Shape
<1>3. Shape'
  <2>1. NewName(c) \in [components : Comps, ndn_data : Comps \cup {None}]
    BY DEF NewName
  <2> QED  BY <1>1, <1>2, <2>1 DEF IInv, Shape, SetComponents
<1>4. interest.name # "app" => Encoding(interest)' = Encoding(interest)
  BY <1>1, <1>2 DEF Encoding
<1>5. StaleOnlyByAlias'
  <2>1. \A n \in NameId : names'[n].ndn_data \in {None, names'[n].components} \/ n \in shifted'
    BY <1>1, <1>2 DEF IInv, StaleOnlyByAlias, SetComponents, NewName
  <2>2. Cached' => interest'.ndn_data.buf = Encoding(interest)' \/ renamed'
    BY <1>1, <1>4 DEF IInv, StaleOnlyByAlias, SetComponents, Cached
  <2> QED  BY <2>1, <2>2 DEF StaleOnlyByAlias
<1>6. ReceivedLosesOnlyExcludeAndLong' /\ OriginOwn'
  BY <1>1, <1>4 DEF IInv, ReceivedLosesOnlyExcludeAndLong, OriginOwn, Encodable
<1>7. WireEncodable' /\ ZerosRaised'
  BY <1>1 DEF IInv, WireEncodable, ZerosRaised, Cached
<1> QED  BY <1>3, <1>5, <1>6, <1>7 DEF IInv

LEMMA SetItemKeeps == ASSUME IInv, NEW n \in NameId, NEW c \in Comps, SetItem(n, c) PROVE IInv'
<1>1. /\ names' = [names EXCEPT ![n].components = c] /\ UNCHANGED <<interest, raised, answered>>
      /\ shifted' = IF names[n].ndn_data # None THEN shifted \cup {n} ELSE shifted
      /\ renamed' = (renamed \/ (n = interest.name /\ Cached))
      /\ origin' = IF n = interest.name THEN None ELSE origin
  BY DEF SetItem
<1>2. /\ names \in [NameId -> [components : Comps, ndn_data : Comps \cup {None}]]
      /\ interest \in [name : NameId, attr : Attrs, ndn_data : Wires]
  BY DEF IInv, Shape
<1>3. Shape'
  <2>1. names' \in [NameId -> [components : Comps, ndn_data : Comps \cup {None}]]
    BY <1>1, <1>2
  <2>2. {renamed', raised', answered'} \subseteq BOOLEAN
    <3>1. {renamed, raised, answered} \subseteq BOOLEAN
      BY DEF IInv, Shape
    <3> QED  BY <1>1, <3>1
  <2> QED  BY <1>1, <1>2, <2>1, <2>2 DEF IInv, Shape
<1>4. interest.name # n => Encoding(interest)' = Encoding(interest)
  BY <1>1, <1>2 DEF Encoding
<1>5. StaleOnlyByAlias'
  <2>1. \A m \in NameId : names'[m].ndn_data \in {None, names'[m].components} \/ m \in shifted'
    BY <1>1, <1>2 DEF IInv, StaleOnlyByAlias
  <2>2. Cached' => interest'.ndn_data.buf = Encoding(interest)' \/ renamed'
    BY <1>1, <1>4 DEF IInv, StaleOnlyByAlias, Cached
  <2> QED  BY <2>1, <2>2 DEF StaleOnlyByAlias
<1>6. ReceivedLosesOnlyExcludeAndLong' /\ OriginOwn'
  BY <1>1, <1>4 DEF IInv, ReceivedLosesOnlyExcludeAndLong, OriginOwn, Encodable
<1>7. WireEncodable' /\ ZerosRaised'
  BY <1>1 DEF IInv, WireEncodable, ZerosRaised, Cached
<1> QED  BY <1>3, <1>5, <1>6, <1>7 DEF IInv

LEMMA NameWireKeeps == ASSUME IInv, NEW n \in NameId, NameWire(n) PROVE IInv'
<1>1. /\ names' = [names EXCEPT ![n].ndn_data = names[n].components]
      /\ UNCHANGED <<interest, history>>
  BY DEF NameWire
<1>2. /\ names \in [NameId -> [components : Comps, ndn_data : Comps \cup {None}]]
      /\ interest \in [name : NameId, attr : Attrs, ndn_data : Wires]
  BY DEF IInv, Shape
<1>3. Shape'
  BY <1>1, <1>2 DEF IInv, Shape, history
<1>4. Encoding(interest)' = Encoding(interest)
  BY <1>1, <1>2 DEF Encoding
<1>5. StaleOnlyByAlias'
  BY <1>1, <1>2, <1>4 DEF IInv, StaleOnlyByAlias, Cached, history
<1>6. ReceivedLosesOnlyExcludeAndLong' /\ OriginOwn'
  BY <1>1, <1>4 DEF IInv, ReceivedLosesOnlyExcludeAndLong, OriginOwn, Encodable, history
<1>7. WireEncodable' /\ ZerosRaised'
  BY <1>1 DEF IInv, WireEncodable, ZerosRaised, Cached, history
<1> QED  BY <1>3, <1>5, <1>6, <1>7 DEF IInv

\* The capsule that was read is kept, perhaps with its parsed form.
LEMMA CapsuleKept ==
    ASSUME IInv, Readable,
           NEW w \in [buf : Buffers, pi : {None, "parsed", "zeros"}],
           interest' = [interest EXCEPT !.ndn_data = w],
           w.buf = Wire.buf,
           w.pi = "zeros" => raised' /\ ~Parses(w.buf),
           UNCHANGED <<names, shifted, renamed, origin>>,
           raised' \in BOOLEAN, answered' \in BOOLEAN
    PROVE  IInv'
<1>1. /\ interest \in [name : NameId, attr : Attrs, ndn_data : Wires]
      /\ w \in Wires
  BY DEF IInv, Shape, Wires
<1>2. interest'.ndn_data = w /\ interest'.name = interest.name /\ interest'.attr = interest.attr
  BY <1>1
<1>3. Shape'
  <2>1. interest' \in [name : NameId, attr : Attrs, ndn_data : Wires]
    BY <1>1
  <2>2. renamed' \in BOOLEAN /\ shifted' \subseteq NameId /\ origin' \in Buffers \cup {None}
    BY DEF IInv, Shape
  <2> QED  BY <2>1, <2>2 DEF IInv, Shape
<1>4. Encoding(interest)' = Encoding(interest)
  BY <1>2 DEF Encoding
<1>5. StaleOnlyByAlias'
  <2>1. w.buf = Encoding(interest) \/ renamed
    BY WireIsGood
  <2> QED  BY <1>2, <1>4, <2>1 DEF IInv, StaleOnlyByAlias
<1>6. ReceivedLosesOnlyExcludeAndLong' /\ OriginOwn'
  BY <1>2, <1>4 DEF IInv, ReceivedLosesOnlyExcludeAndLong, OriginOwn, Encodable
<1>7. WireEncodable' /\ ZerosRaised'
  BY <1>2, WireIsGood DEF WireEncodable, ZerosRaised
<1> QED  BY <1>3, <1>5, <1>6, <1>7 DEF IInv

LEMMA ToWireKeeps == ASSUME IInv, ToWire PROVE IInv'
<1>1. Readable /\ interest' = [interest EXCEPT !.ndn_data = Wire] /\ UNCHANGED <<names, history>>
  BY DEF ToWire
<1>2. /\ Wire \in [buf : Buffers, pi : {None, "parsed", "zeros"}]
      /\ Wire.pi = "zeros" => raised' /\ ~Parses(Wire.buf)
  BY <1>1, WireIsGood DEF history
<1>3. raised' \in BOOLEAN /\ answered' \in BOOLEAN
  BY <1>1 DEF history, IInv, Shape
<1>4. UNCHANGED <<names, shifted, renamed, origin>>
  BY <1>1 DEF history
<1> QED  BY <1>1, <1>2, <1>3, <1>4, CapsuleKept

LEMMA MatchKeeps == ASSUME IInv, Match PROVE IInv'
<1>1. /\ Readable /\ interest' = [interest EXCEPT !.ndn_data = GetPi(Wire)]
      /\ raised' = (raised \/ PiRaises(Wire))
      /\ UNCHANGED <<names, shifted, renamed, origin>>
  BY DEF Match
<1>2. Wire \in [buf : Buffers, pi : {None, "parsed", "zeros"}]
  BY <1>1, WireIsGood
<1>3. /\ GetPi(Wire) \in [buf : Buffers, pi : {None, "parsed", "zeros"}]
      /\ GetPi(Wire).buf = Wire.buf
  BY <1>2, GetPiIsGood
<1>4. GetPi(Wire).pi = "zeros" => raised' /\ ~Parses(GetPi(Wire).buf)
  <2> SUFFICES ASSUME GetPi(Wire).pi = "zeros" PROVE raised' /\ ~Parses(Wire.buf)
    BY <1>3
  <2>1. PiRaises(Wire) \/ Wire.pi = "zeros"
    BY <1>2, GetPiIsGood
  <2>2. CASE PiRaises(Wire)
    BY <1>1, <2>2 DEF PiRaises
  <2>3. CASE Wire.pi = "zeros"
    BY <1>1, <2>3, WireIsGood
  <2> QED  BY <2>1, <2>2, <2>3
<1>5. raised' \in BOOLEAN /\ answered' \in BOOLEAN
  BY DEF Match, IInv, Shape
<1> QED  BY <1>1, <1>3, <1>4, <1>5, CapsuleKept

LEMMA ReparseFailsKeeps == ASSUME IInv, ReparseFails PROVE IInv'
<1>1. /\ Readable /\ interest' = [interest EXCEPT !.ndn_data = GetPi(Wire)]
      /\ GetPi(Wire).pi = "zeros" /\ raised' = TRUE
      /\ UNCHANGED <<names, shifted, renamed, origin, answered>>
  BY DEF ReparseFails
<1>2. Wire \in [buf : Buffers, pi : {None, "parsed", "zeros"}]
  BY <1>1, WireIsGood
<1>3. /\ GetPi(Wire) \in [buf : Buffers, pi : {None, "parsed", "zeros"}]
      /\ GetPi(Wire).buf = Wire.buf
  BY <1>2, GetPiIsGood
<1>4. ~Parses(Wire.buf)
  <2>1. PiRaises(Wire) \/ Wire.pi = "zeros"
    BY <1>1, <1>2, GetPiIsGood
  <2>2. Wire.pi = "zeros" => ~Parses(Wire.buf)
    BY <1>1, WireIsGood
  <2> QED  BY <2>1, <2>2 DEF PiRaises
<1>5. answered' \in BOOLEAN
  BY <1>1 DEF IInv, Shape
<1> QED  BY <1>1, <1>3, <1>4, <1>5, CapsuleKept

\* An Interest made from a buffer all of whose attributes could be encoded.
LEMMA BecomesKeeps ==
    ASSUME IInv, NEW buf \in Buffers, \A a \in Attr : buf.attr[a] # "wrong", Becomes(buf)
    PROVE  IInv'
<1> DEFINE attrs == [buf.attr EXCEPT !["exclude"] = None]
<1>1. buf.attr \in Attrs /\ buf.name \in Comps /\ buf = [name |-> buf.name, attr |-> buf.attr]
  BY DEF Buffers
<1>2. /\ names' = [names EXCEPT !["own"] = NewName(buf.name)]
      /\ shifted' = shifted \ {"own"} /\ origin' = buf
      /\ renamed' = FALSE /\ raised' = FALSE /\ answered' = FALSE
      /\ "own" \in NameId
  BY DEF Becomes, Forget, NameId
<1>3. interest' = [name |-> "own", attr |-> attrs, ndn_data |-> NoWire]
  BY DEF Becomes, FromNdn, Blank
<1>4. attrs \in Attrs
  BY <1>1, AssignedAttrs, NoneIsAValue, ExcludeIsAttr
<1>5. names \in [NameId -> [components : Comps, ndn_data : Comps \cup {None}]]
  BY DEF IInv, Shape
<1>6. Shape'
  <2>1. interest' \in [name : NameId, attr : Attrs, ndn_data : Wires]
    BY <1>2, <1>3, <1>4 DEF Wires
  <2>2. NewName(buf.name) \in [components : Comps, ndn_data : Comps \cup {None}]
    BY <1>1 DEF NewName
  <2>3. names' \in [NameId -> [components : Comps, ndn_data : Comps \cup {None}]]
    BY <1>2, <1>5, <2>2
  <2> QED  BY <1>2, <2>1, <2>3 DEF IInv, Shape
<1>7. ~Cached' /\ WireEncodable' /\ ZerosRaised'
  BY <1>3, NoWireIsGood
<1>8. StaleOnlyByAlias'
  BY <1>2, <1>5, <1>7 DEF IInv, StaleOnlyByAlias, NewName
<1>9. ReceivedLosesOnlyExcludeAndLong'
  <2>1. buf.attr \in [Attr -> UNION {Values(a) : a \in Attr}]
    BY <1>1 DEF Attrs
  <2>2. \A a \in Attr : attrs[a] # "wrong" /\ (a # "exclude" => attrs[a] = buf.attr[a])
    BY <2>1, InterestsAssumption
  <2>3. Encodable(interest)'
    BY <1>3, <2>2 DEF Encodable
  <2>4. names'[interest'.name].components = buf.name
    BY <1>2, <1>3, <1>5 DEF NewName
  <2>5. Encoding(interest)'.attr = [attrs EXCEPT !["exclude"] = None, !["lifetime"] = InThreeBytes(@)]
    BY <1>3 DEF Encoding
  <2>6. Encoding(interest)'.name = buf.name
    BY <2>4 DEF Encoding
  <2> HIDE DEF attrs
  <2>7. ASSUME NEW a \in Attr
        PROVE  \/ Encoding(interest)'.attr[a] = buf.attr[a]
               \/ a = "exclude"
               \/ a = "lifetime" /\ buf.attr[a] = "long"
    <3>1. CASE a = "lifetime"
      <4>1. Encoding(interest)'.attr[a] = InThreeBytes(attrs[a])
        BY <1>4, <2>5, <3>1, EncodedAttrs
      <4>2. attrs[a] = buf.attr[a]
        BY <2>2, <3>1
      <4> QED  BY <3>1, <4>1, <4>2 DEF InThreeBytes
    <3>2. CASE a # "lifetime" /\ a # "exclude"
      <4>1. attrs[a] = buf.attr[a]
        BY <2>2, <3>2
      <4>2. Encoding(interest)'.attr[a] = attrs[a]
        <5> DEFINE g == [attrs EXCEPT !["exclude"] = None, !["lifetime"] = InThreeBytes(@)]
        <5>1. \A b \in Attr \ {"exclude", "lifetime"} : g[b] = attrs[b]
          BY <1>4, EncodedAttrs
        <5>2. Encoding(interest)'.attr = g
          BY <2>5
        <5> HIDE DEF g
        <5> QED  BY <3>2, <5>1, <5>2
      <4> QED  BY <4>1, <4>2
    <3> QED  BY <3>1, <3>2
  <2> QED  BY <1>2, <2>3, <2>6, <2>7 DEF ReceivedLosesOnlyExcludeAndLong
<1>10. OriginOwn'
  BY <1>3 DEF OriginOwn
<1> QED  BY <1>6, <1>7, <1>8, <1>9, <1>10 DEF IInv

\* What libndn sends is a buffer.
LEMMA PacketsAreBuffers ==
    ASSUME NEW buf \in Packets
    PROVE  buf \in Buffers /\ \A a \in Attr : buf.attr[a] # "wrong"
<1>1. /\ buf.name \in Comps /\ buf = [name |-> buf.name, attr |-> buf.attr]
      /\ buf.attr \in [Attr -> {None, "ok", "long"}]
      /\ \A a \in Attr \ {"lifetime"} : buf.attr[a] # "long"
  BY DEF Packets
<1>2. \A a \in Attr : /\ buf.attr[a] \in Values(a)
                      /\ buf.attr[a] # "wrong"
  <2> SUFFICES ASSUME NEW a \in Attr
               PROVE  buf.attr[a] \in Values(a) /\ buf.attr[a] # "wrong"
    OBVIOUS
  <2>1. buf.attr[a] \in {None, "ok", "long"} /\ (a # "lifetime" => buf.attr[a] # "long")
    BY <1>1
  <2>2. {None, "ok"} \subseteq Values(a) /\ (a = "lifetime" => "long" \in Values(a))
    BY DEF Attr, Values
  <2> QED  BY <2>1, <2>2, InterestsAssumption
<1>3. buf.attr \in [Attr -> UNION {Values(b) : b \in Attr}]
  BY <1>1, <1>2
<1>4. buf.attr \in Attrs
  BY <1>2, <1>3 DEF Attrs
<1> QED  BY <1>1, <1>2, <1>4 DEF Buffers

LEMMA NextKeeps == IInv /\ [Next]_vars => IInv'
<1> SUFFICES ASSUME IInv, [Next]_vars PROVE IInv'
  OBVIOUS
<1>1. CASE \E n \in NameId : Construct(n)
  BY <1>1, ConstructKeeps
<1>2. CASE \E a \in Attr : \E v \in Values(a) : SetAttr(a, v)
  BY <1>2, SetAttrKeeps
<1>3. CASE SetName
  BY <1>3, SetNameKeeps
<1>4. CASE \E c \in Comps : SetComponents(c)
  BY <1>4, SetComponentsKeeps
<1>5. CASE \E n \in NameId, c \in Comps : SetItem(n, c)
  BY <1>5, SetItemKeeps
<1>6. CASE \E n \in NameId : NameWire(n)
  BY <1>6, NameWireKeeps
<1>7. CASE ToWire
  BY <1>7, ToWireKeeps
<1>8. CASE Match
  BY <1>8, MatchKeeps
<1>9. CASE Receive
  BY <1>9, BecomesKeeps, PacketsAreBuffers DEF Receive
<1>10. CASE Reparse
  <2>1. Readable /\ Becomes(Wire.buf)
    BY <1>10 DEF Reparse
  <2>2. Wire.buf \in Buffers /\ \A a \in Attr : Wire.buf.attr[a] # "wrong"
    BY <2>1, WireIsGood
  <2> QED  BY <2>1, <2>2, BecomesKeeps
<1>11. CASE ReparseFails
  BY <1>11, ReparseFailsKeeps
<1>12. CASE UNCHANGED vars
  BY <1>12 DEF vars, IInv, Shape, StaleOnlyByAlias, ReceivedLosesOnlyExcludeAndLong, WireEncodable,
               OriginOwn, ZerosRaised, Cached, Encoding, Encodable
<1> QED  BY <1>1, <1>2, <1>3, <1>4, <1>5, <1>6, <1>7, <1>8, <1>9, <1>10, <1>11, <1>12 DEF Next

\* The inductive invariant holds in every execution: besides the properties, a wire
\* form was made from attributes that can be encoded (Interest_obj_to_ndn), a parsed
\* Interest has its own Name, and zeros in a capsule were reported.
THEOREM Invariance == Spec => []IInv
<1> QED  BY InitIInv, NextKeeps, PTL DEF Spec

-----------------------------------------------------------------------------
(* Theorems                                                                 *)

\* Names, the Interest and its capsule keep their shape (Interest.__setattr__).
THEOREM TypeCorrect == Spec => []TypeOK
<1>1. IInv => TypeOK
  <2> SUFFICES ASSUME IInv PROVE TypeOK
    OBVIOUS
  <2>1. Cached => interest.ndn_data \in [buf : Buffers, pi : {None, "parsed", "zeros"}]
    BY DEF IInv, Shape, Wires, Cached
  <2> QED  BY <2>1 DEF IInv, Shape, TypeOK
<1> QED  BY <1>1, Invariance, PTL

\* A wire form differs from what the attributes say only after a change made behind
\* the back of the object that caches it (Name.__setitem__, Interest.__setattr__).
THEOREM StaleByAliasOnly == Spec => []StaleOnlyByAlias
<1>1. IInv => StaleOnlyByAlias
  BY DEF IInv
<1> QED  BY <1>1, Invariance, PTL

\* An Interest that came from a packet is encoded again as that packet, but for the
\* exclusion filter and a lifetime that three bytes do not hold
\* (Interest_obj_from_ndn, Interest_obj_to_ndn).
THEOREM ParsingLosesOnlyExcludeAndLong == Spec => []ReceivedLosesOnlyExcludeAndLong
<1>1. IInv => ReceivedLosesOnlyExcludeAndLong
  BY DEF IInv
<1> QED  BY <1>1, Invariance, PTL

\* libndn is given zeros for a parsed Interest only after an exception about the same
\* capsule (_pyndn_interest_get_pi).
THEOREM ZerosAreReported == Spec => []ZerosOnlyAfterError
<1>1. IInv => ZerosOnlyAfterError
  BY DEF IInv, ZerosRaised, ZerosOnlyAfterError
<1> QED  BY <1>1, Invariance, PTL
=============================================================================
