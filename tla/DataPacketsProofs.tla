-------------------------- MODULE DataPacketsProofs --------------------------
(***************************************************************************)
(* What a packet is signed from and what a received one keeps, for any      *)
(* number of different values of components.                                *)
(***************************************************************************)
EXTENDS DataPackets, TLAPS

\* The parts of StaleIsExplained.
StaleName == \A o \in Owner : names[o].ndn_data \in {None, names[o].components} \/ o \in stale
StaleLocator == locator \in {None, TrueLocator} \/ stale \cap KeyParts # {}
StaleInfo == info.ndn_data \in {None, TrueInfo} \/ stale \cap ({"info"} \cup InfoParts) # {}
StalePacket == data.ndn_data \in {None, TruePacket, received}
                  \/ stale \cap ({"packet", "data", "info"} \cup InfoParts) # {}

\* A received Data shares nothing with the application, and is changed only with
\* a note about the packet.
Kept == received # None =>
            /\ held = {}
            /\ data.ndn_data = received
            /\ data.content = received.content /\ data.signature = received.signer
            /\ "packet" \notin stale =>
                  /\ names["data"].components = received.name
                  /\ [timeStamp |-> info.timeStamp, freshness |-> info.freshness,
                      keyLocator |-> IF info.keyLocator THEN TrueLocator ELSE None] = received.info

\* Only a SignedInfo of our own has a wire form.
InfoIsOurs == info.ndn_data # None => info.ndn_data.timeStamp = "now"

IInv == /\ TypeOK
        /\ StaleName /\ StaleLocator /\ StaleInfo /\ StalePacket
        /\ Kept
        /\ InfoIsOurs
        /\ TimestampIsNotResigned

NameShape == [components : Comps, ndn_data : Comps \cup {None}]
InfoShape == [digest : BOOLEAN, timeStamp : {None, "now", "then"}, freshness : {None, 0, 5},
              keyLocator : BOOLEAN, ndn_data : InfoWires \cup {None}]
DataShape == [content : {None, "empty", "bytes", "number"}, signature : {None, "us", "them"},
              ndn_data : PacketWires \cup {None}]

-----------------------------------------------------------------------------
(* Lemmas about values                                                      *)

LEMMA Shapes == ASSUME TypeOK
                PROVE  /\ names \in [Owner -> NameShape]
                       /\ locator \in Comps \cup {None}
                       /\ info \in InfoShape
                       /\ data \in DataShape
                       /\ held \subseteq {"name", "info"}
                       /\ stale \subseteq Object
                       /\ received \in PacketWires \cup {None}
                       /\ "data" \in Owner /\ "key" \in Owner
BY DEF TypeOK, NameShape, InfoShape, DataShape, Owner

\* What is cached, by object.
LEMMA CachedIs == /\ \A o \in Owner : Cached(o) <=> names[o].ndn_data # None
                  /\ Cached("locator") <=> locator # None
                  /\ Cached("info") <=> info.ndn_data # None
                  /\ Cached("packet") <=> data.ndn_data # None
BY DEF Cached, Owner

\* What goes into what.
LEMMA HoldersAre == /\ Holders("packet") = {}
                    /\ Holders("info") = {"packet"}
                    /\ Holders("data") = {"packet"}
                    /\ "locator" \in Holders("key")
                    /\ info.keyLocator => {"info", "packet"} \subseteq Holders("key")
                    /\ Holders("key") \subseteq {"locator", "info", "packet"}
BY DEF Holders

\* Who is marked by a change.
LEMMA Marked ==
    ASSUME NEW o, NEW fresh, Changed(o, fresh), NEW h
    PROVE  h \in stale' <=> /\ h \notin fresh
                            /\ h \in stale \/ (h \in Holders(o) \cup {o} /\ Cached(h))
BY DEF Changed

\* Wire forms that are asked for, and what they are if nothing is stale.
LEMMA NameWireIs ==
    ASSUME TypeOK, StaleName, NEW o \in Owner
    PROVE  /\ NameWire(o) \in Comps
           /\ names[o].ndn_data # None => NameWire(o) = names[o].ndn_data
           /\ NameWire(o) = names[o].components \/ o \in stale
BY Shapes DEF NameWire, NameShape, StaleName

LEMMA LocatorWireIs ==
    ASSUME TypeOK, StaleName, StaleLocator
    PROVE  /\ LocatorWire \in Comps
           /\ LocatorWire = TrueLocator \/ stale \cap KeyParts # {}
<1>1. "key" \in Owner /\ locator \in Comps \cup {None}
  BY Shapes
<1>2. CASE locator # None
  BY <1>1, <1>2 DEF LocatorWire, StaleLocator
<1>3. CASE locator = None
  <2>1. LocatorWire = NameWire("key")
    BY <1>3 DEF LocatorWire
  <2> QED  BY <1>1, <2>1, NameWireIs DEF TrueLocator, KeyParts
<1> QED  BY <1>2, <1>3

LEMMA InfoWireIs ==
    ASSUME TypeOK, StaleName, StaleLocator, StaleInfo, InfoIsOurs
    PROVE  /\ InfoWire \in InfoWires
           /\ InfoWire.timeStamp = "now"
           /\ InfoWire = TrueInfo \/ stale \cap ({"info"} \cup InfoParts) # {}
<1>1. info \in InfoShape
  BY Shapes
<1>2. CASE info.ndn_data # None
  BY <1>1, <1>2 DEF InfoWire, InfoShape, StaleInfo, InfoIsOurs
<1>3. CASE info.ndn_data = None
  <2>1. InfoWire = [timeStamp |-> "now", freshness |-> FreshnessWire(info.freshness),
                    keyLocator |-> IF info.keyLocator THEN LocatorWire ELSE None]
    BY <1>3 DEF InfoWire
  <2>2. FreshnessWire(info.freshness) \in {None, 0, 5}
    BY <1>1 DEF InfoShape, FreshnessWire
  <2>3. InfoWire \in InfoWires
    BY <2>1, <2>2, LocatorWireIs DEF InfoWires
  <2>4. InfoWire = TrueInfo \/ stale \cap ({"info"} \cup InfoParts) # {}
    <3>1. CASE ~info.keyLocator \/ LocatorWire = TrueLocator
      BY <2>1, <3>1 DEF TrueInfo
    <3>2. CASE info.keyLocator /\ stale \cap KeyParts # {}
      BY <3>2 DEF InfoParts
    <3> QED  BY <3>1, <3>2, LocatorWireIs
  <2> QED  BY <2>1, <2>3, <2>4
<1> QED  BY <1>2, <1>3

-----------------------------------------------------------------------------
(* The steps                                                                *)

LEMMA InitIInv == Init => IInv
<1> SUFFICES ASSUME Init PROVE IInv
  OBVIOUS
<1>1. TypeOK
  BY DEF Init, TypeOK, NewInfo, Object
<1>2. StaleName /\ StaleLocator /\ StaleInfo /\ StalePacket
  BY DEF Init, NewInfo, StaleName, StaleLocator, StaleInfo, StalePacket
<1>3. Kept /\ InfoIsOurs /\ TimestampIsNotResigned
  BY DEF Init, NewInfo, Kept, InfoIsOurs, TimestampIsNotResigned
<1> QED  BY <1>1, <1>2, <1>3 DEF IInv

LEMMA SetContentKeeps ==
    ASSUME IInv, NEW v \in {None, "bytes", "number"}, SetContent(v) PROVE IInv'
<1>1. /\ data' = [data EXCEPT !.content = v, !.ndn_data = None]
      /\ received' = None /\ Changed("packet", {"packet"})
      /\ UNCHANGED <<names, locator, info, held>>
  BY DEF SetContent
<1>2. \A h : h \in stale' <=> h \in stale /\ h # "packet"
  BY <1>1, Marked, HoldersAre
<1>3. TypeOK
  BY DEF IInv
<1>4. data' \in DataShape /\ data'.ndn_data = None
  BY <1>1, <1>3, Shapes DEF DataShape
<1>5. TypeOK'
  BY <1>1, <1>2, <1>3, <1>4 DEF TypeOK, DataShape
<1>6. StaleName' /\ StaleLocator'
  BY <1>1, <1>2 DEF IInv, StaleName, StaleLocator, TrueLocator, KeyParts, Owner
<1>7. StaleInfo'
  BY <1>1, <1>2 DEF IInv, StaleInfo, TrueInfo, TrueLocator, InfoParts, KeyParts
<1>8. StalePacket' /\ Kept' /\ TimestampIsNotResigned'
  BY <1>1, <1>4 DEF StalePacket, Kept, TimestampIsNotResigned
<1>9. InfoIsOurs'
  BY <1>1 DEF IInv, InfoIsOurs
<1> QED  BY <1>5, <1>6, <1>7, <1>8, <1>9 DEF IInv

LEMMA SetNameKeeps == ASSUME IInv, NEW c \in Comps, SetName(c) PROVE IInv'
<1>1. /\ names' = [names EXCEPT !["data"] = NewName(c)]
      /\ data' = [data EXCEPT !.ndn_data = None]
      /\ held' = held \cup {"name"}
      /\ received' = None /\ Changed("data", {"data", "packet"})
      /\ UNCHANGED <<locator, info>>
  BY DEF SetName
<1>2. \A h : h \in stale' <=> h \in stale /\ h \notin {"data", "packet"}
  BY <1>1, Marked, HoldersAre
<1>3. TypeOK
  BY DEF IInv
<1>4. data' \in DataShape /\ data'.ndn_data = None
  BY <1>1, <1>3, Shapes DEF DataShape
<1>5. /\ names' \in [Owner -> NameShape]
      /\ names'["key"] = names["key"] /\ names'["data"] = NewName(c)
  BY <1>1, <1>3, Shapes DEF NameShape, NewName
<1>6. TypeOK'
  BY <1>1, <1>2, <1>3, <1>4, <1>5 DEF TypeOK, DataShape, NameShape
<1>7. StaleName' /\ StaleLocator'
  BY <1>1, <1>2, <1>5 DEF IInv, StaleName, StaleLocator, TrueLocator, KeyParts, Owner, NewName
<1>8. StaleInfo'
  BY <1>1, <1>2, <1>5 DEF IInv, StaleInfo, TrueInfo, TrueLocator, InfoParts, KeyParts
<1>9. StalePacket' /\ Kept' /\ TimestampIsNotResigned'
  BY <1>1, <1>4 DEF StalePacket, Kept, TimestampIsNotResigned
<1>10. InfoIsOurs'
  BY <1>1 DEF IInv, InfoIsOurs
<1> QED  BY <1>6, <1>7, <1>8, <1>9, <1>10 DEF IInv

LEMMA SetSignedInfoKeeps == ASSUME IInv, SetSignedInfo PROVE IInv'
<1>1. /\ info' = [NewInfo EXCEPT !.digest = TRUE]
      /\ data' = [data EXCEPT !.ndn_data = None]
      /\ held' = held \cup {"info"}
      /\ received' = None /\ Changed("info", {"info", "packet"})
      /\ UNCHANGED <<names, locator>>
  BY DEF SetSignedInfo
<1>2. \A h : h \in stale' <=> h \in stale /\ h \notin {"info", "packet"}
  BY <1>1, Marked, HoldersAre
<1>3. TypeOK
  BY DEF IInv
<1>4. data' \in DataShape /\ data'.ndn_data = None /\ info' \in InfoShape /\ info'.ndn_data = None
  BY <1>1, <1>3, Shapes DEF DataShape, InfoShape, NewInfo
<1>5. TypeOK'
  BY <1>1, <1>2, <1>3, <1>4 DEF TypeOK, DataShape, InfoShape
<1>6. StaleName' /\ StaleLocator'
  BY <1>1, <1>2 DEF IInv, StaleName, StaleLocator, TrueLocator, KeyParts, Owner
<1>7. StaleInfo' /\ InfoIsOurs'
  BY <1>4 DEF StaleInfo, InfoIsOurs
<1>8. StalePacket' /\ Kept' /\ TimestampIsNotResigned'
  BY <1>1, <1>4 DEF StalePacket, Kept, TimestampIsNotResigned
<1> QED  BY <1>5, <1>6, <1>7, <1>8 DEF IInv

\* Assigning an attribute of the SignedInfo
LEMMA InfoBecomesKeeps == ASSUME IInv, NEW i \in InfoShape, InfoBecomes(i) PROVE IInv'
<1>1. /\ "info" \in held
      /\ info' = [i EXCEPT !.ndn_data = None] /\ Changed("info", {"info"})
      /\ UNCHANGED <<names, locator, data, held, received>>
  BY DEF InfoBecomes
<1>2. \A h : h \in stale' <=>
               h # "info" /\ (h \in stale \/ (h = "packet" /\ data.ndn_data # None))
  BY <1>1, Marked, HoldersAre, CachedIs
<1>3. TypeOK
  BY DEF IInv
<1>4. info' \in InfoShape /\ info'.ndn_data = None
  BY <1>1 DEF InfoShape
<1>5. TypeOK'
  <2>1. stale' \subseteq Object
    BY <1>2, <1>3 DEF TypeOK, Object
  <2> QED  BY <1>1, <1>3, <1>4, <2>1 DEF TypeOK, InfoShape
<1>6. StaleName' /\ StaleLocator'
  BY <1>1, <1>2 DEF IInv, StaleName, StaleLocator, TrueLocator, KeyParts, Owner
<1>7. StaleInfo' /\ InfoIsOurs'
  BY <1>4 DEF StaleInfo, InfoIsOurs
<1>8. StalePacket'
  BY <1>1, <1>2 DEF StalePacket
<1>9. Kept'
  BY <1>1 DEF IInv, Kept
<1>10. TimestampIsNotResigned'
  BY <1>1 DEF IInv, TimestampIsNotResigned
<1> QED  BY <1>5, <1>6, <1>7, <1>8, <1>9, <1>10 DEF IInv

LEMMA SetInfoKeeps == ASSUME IInv, SetInfo PROVE IInv'
<1>1. info \in InfoShape
  BY Shapes DEF IInv
<1>2. CASE \E v \in {None, 0, 5} : InfoBecomes([info EXCEPT !.freshness = v])
  <2>1. PICK v \in {None, 0, 5} : InfoBecomes([info EXCEPT !.freshness = v])
    BY <1>2
  <2>2. [info EXCEPT !.freshness = v] \in InfoShape
    BY <1>1 DEF InfoShape
  <2> QED  BY <2>1, <2>2, InfoBecomesKeeps
<1>3. CASE \E d \in BOOLEAN : InfoBecomes([info EXCEPT !.digest = d])
  <2>1. PICK d \in BOOLEAN : InfoBecomes([info EXCEPT !.digest = d])
    BY <1>3
  <2>2. [info EXCEPT !.digest = d] \in InfoShape
    BY <1>1 DEF InfoShape
  <2> QED  BY <2>1, <2>2, InfoBecomesKeeps
<1>4. CASE \E t \in {None, "then"} : InfoBecomes([info EXCEPT !.timeStamp = t])
  <2>1. PICK t \in {None, "then"} : InfoBecomes([info EXCEPT !.timeStamp = t])
    BY <1>4
  <2>2. [info EXCEPT !.timeStamp = t] \in InfoShape
    BY <1>1 DEF InfoShape
  <2> QED  BY <2>1, <2>2, InfoBecomesKeeps
<1>5. CASE \E k \in BOOLEAN : InfoBecomes([info EXCEPT !.keyLocator = k])
  <2>1. PICK k \in BOOLEAN : InfoBecomes([info EXCEPT !.keyLocator = k])
    BY <1>5
  <2>2. [info EXCEPT !.keyLocator = k] \in InfoShape
    BY <1>1 DEF InfoShape
  <2> QED  BY <2>1, <2>2, InfoBecomesKeeps
<1> QED  BY <1>2, <1>3, <1>4, <1>5 DEF SetInfo

\* A change of the key's Name; those in fresh lose their wire forms.
LEMMA KeyChangeKeeps ==
    ASSUME IInv, NEW fresh \in SUBSET KeyParts, Changed("key", fresh),
           names' \in [Owner -> NameShape], names'["data"] = names["data"],
           names'["key"].ndn_data = IF "key" \in fresh THEN None ELSE names["key"].ndn_data,
           locator' = IF "locator" \in fresh THEN None ELSE locator,
           UNCHANGED <<info, data, held, received>>
    PROVE  IInv'
<1>1. /\ \A h \in {"data", "info", "packet"} : h \in stale => h \in stale'
      /\ info.keyLocator /\ info.ndn_data # None => "info" \in stale'
      /\ info.keyLocator /\ data.ndn_data # None => "packet" \in stale'
      /\ locator # None /\ "locator" \notin fresh => "locator" \in stale'
      /\ names["key"].ndn_data # None /\ "key" \notin fresh => "key" \in stale'
      /\ stale' \subseteq stale \cup Object
  <2>1. "key" \in Owner
    BY DEF Owner
  <2>2. Holders("key") \cup {"key"} \subseteq Object
    BY HoldersAre DEF Object, Owner
  <2> QED  BY <2>1, <2>2, Marked, HoldersAre, CachedIs DEF KeyParts
<1>2. TypeOK
  BY DEF IInv
<1>3. TypeOK'
  <2>1. locator' \in Comps \cup {None}
    BY <1>2 DEF TypeOK
  <2> QED  BY <1>1, <1>2, <2>1 DEF TypeOK, NameShape
<1>4. StaleName' /\ StaleLocator'
  BY <1>1 DEF IInv, StaleName, StaleLocator, KeyParts, Owner
<1>5. CASE info.keyLocator
  <2>1. StaleInfo'
    BY <1>1, <1>5 DEF StaleInfo
  <2>2. StalePacket' /\ Kept'
    BY <1>1, <1>5 DEF IInv, StalePacket, Kept
  <2> QED  BY <1>3, <1>4, <2>1, <2>2 DEF IInv, InfoIsOurs, TimestampIsNotResigned
<1>6. CASE ~info.keyLocator
  <2>1. StaleInfo'
    BY <1>1, <1>6 DEF IInv, StaleInfo, InfoParts, TrueInfo
  <2>2. TruePacket' = TruePacket
    BY <1>6 DEF TruePacket, TrueInfo, ContentWire
  <2>3. StalePacket'
    BY <1>1, <1>6, <2>2 DEF IInv, StalePacket, InfoParts
  <2>4. Kept'
    BY <1>1, <1>6 DEF IInv, Kept
  <2> QED  BY <1>3, <1>4, <2>1, <2>3, <2>4 DEF IInv, InfoIsOurs, TimestampIsNotResigned
<1> QED  BY <1>5, <1>6

\* A change of the Name of the Data, that leaves its packet as it was.
LEMMA DataNameChangeKeeps ==
    ASSUME IInv, NEW fresh \in SUBSET {"data"}, Changed("data", fresh),
           names' \in [Owner -> NameShape], names'["key"] = names["key"],
           names'["data"].ndn_data = IF "data" \in fresh THEN None ELSE names["data"].ndn_data,
           UNCHANGED <<locator, info, data, held, received>>
    PROVE  IInv'
<1>1. /\ \A h \in {"info", "packet", "locator", "key"} : h \in stale => h \in stale'
      /\ data.ndn_data # None => "packet" \in stale'
      /\ names["data"].ndn_data # None /\ "data" \notin fresh => "data" \in stale'
      /\ stale' \subseteq stale \cup Object
  <2>1. "data" \in Owner
    BY DEF Owner
  <2>2. Holders("data") \cup {"data"} \subseteq Object
    BY HoldersAre DEF Object, Owner
  <2> QED  BY <2>1, <2>2, Marked, HoldersAre, CachedIs
<1>2. TypeOK
  BY DEF IInv
<1>3. TypeOK'
  BY <1>1, <1>2 DEF TypeOK, NameShape
<1>4. TrueLocator' = TrueLocator /\ TrueInfo' = TrueInfo /\ InfoParts' = InfoParts
  BY DEF TrueLocator, TrueInfo, InfoParts
<1>5. StaleName' /\ StaleLocator'
  BY <1>1, <1>4 DEF IInv, StaleName, StaleLocator, KeyParts, Owner
<1>6. StaleInfo'
  BY <1>1, <1>4 DEF IInv, StaleInfo, InfoParts, KeyParts
<1>7. StalePacket' /\ Kept'
  BY <1>1 DEF IInv, StalePacket, Kept
<1> QED  BY <1>3, <1>5, <1>6, <1>7 DEF IInv, InfoIsOurs, TimestampIsNotResigned

LEMMA SetKeyNameKeeps == ASSUME IInv, NEW c \in Comps, SetKeyName(c) PROVE IInv'
<1>1. /\ names' = [names EXCEPT !["key"] = NewName(c)] /\ locator' = None
      /\ Changed("key", {"key", "locator"}) /\ UNCHANGED <<info, data, held, received>>
  BY DEF SetKeyName
<1>2. names \in [Owner -> NameShape] /\ NewName(c) \in NameShape /\ NewName(c).ndn_data = None
  BY Shapes DEF IInv, NewName, NameShape
<1>3. names' \in [Owner -> NameShape] /\ names'["data"] = names["data"] /\ names'["key"].ndn_data = None
  BY <1>1, <1>2, Shapes DEF IInv
<1>4. {"key", "locator"} \in SUBSET KeyParts
  BY DEF KeyParts
<1> QED  BY <1>1, <1>3, <1>4, KeyChangeKeeps

LEMMA SetComponentsKeeps ==
    ASSUME IInv, NEW o \in Owner, NEW c \in Comps, SetComponents(o, c) PROVE IInv'
<1>1. /\ names' = [names EXCEPT ![o] = NewName(c)]
      /\ Changed(o, {o}) /\ UNCHANGED <<locator, info, data, held, received>>
  BY DEF SetComponents
<1>2. names \in [Owner -> NameShape] /\ NewName(c) \in NameShape /\ NewName(c).ndn_data = None
  BY Shapes DEF IInv, NewName, NameShape
<1>3. names' \in [Owner -> NameShape] /\ names'[o].ndn_data = None
  BY <1>1, <1>2
<1>4. CASE o = "key"
  <2>1. names'["data"] = names["data"] /\ {"key"} \in SUBSET KeyParts
    BY <1>1, <1>2, <1>4, Shapes DEF IInv, KeyParts
  <2> QED  BY <1>1, <1>3, <1>4, <2>1, KeyChangeKeeps
<1>5. CASE o = "data"
  <2>1. names'["key"] = names["key"] /\ {"data"} \in SUBSET {"data"}
    BY <1>1, <1>2, <1>5, Shapes DEF IInv
  <2> QED  BY <1>1, <1>3, <1>5, <2>1, DataNameChangeKeeps
<1> QED  BY <1>4, <1>5 DEF Owner

LEMMA SetItemKeeps ==
    ASSUME IInv, NEW o \in Owner, NEW c \in Comps, SetItem(o, c) PROVE IInv'
<1>1. /\ names' = [names EXCEPT ![o].components = c]
      /\ Changed(o, {}) /\ UNCHANGED <<locator, info, data, held, received>>
  BY DEF SetItem
<1>2. names \in [Owner -> NameShape]
  BY Shapes DEF IInv
<1>3. names' \in [Owner -> NameShape] /\ names'[o].ndn_data = names[o].ndn_data
  BY <1>1, <1>2 DEF NameShape
<1>4. CASE o = "key"
  <2>1. names'["data"] = names["data"]
    BY <1>1, <1>2, <1>4, Shapes DEF IInv
  <2> QED  BY <1>1, <1>3, <1>4, <2>1, KeyChangeKeeps
<1>5. CASE o = "data"
  <2>1. names'["key"] = names["key"]
    BY <1>1, <1>2, <1>5, Shapes DEF IInv
  <2> QED  BY <1>1, <1>3, <1>5, <2>1, DataNameChangeKeeps
<1> QED  BY <1>4, <1>5 DEF Owner

\* A Name's wire form is asked for.
LEMMA UseNameKeeps == ASSUME IInv, NEW o \in Owner, UseName(o) PROVE IInv'
<1>1. /\ names' = [names EXCEPT ![o].ndn_data = NameWire(o)]
      /\ UNCHANGED <<locator, info, data, held, stale, received>>
  BY DEF UseName
<1>2. names \in [Owner -> NameShape] /\ TypeOK /\ StaleName
  BY Shapes DEF IInv
<1>3. NameWire(o) \in Comps /\ (NameWire(o) = names[o].components \/ o \in stale)
  BY <1>2, NameWireIs
<1>4. /\ names' \in [Owner -> NameShape]
      /\ \A p \in Owner : names'[p].components = names[p].components
  BY <1>1, <1>2, <1>3 DEF NameShape
<1>5. TypeOK'
  BY <1>1, <1>2, <1>4 DEF TypeOK, NameShape
<1>6. StaleName'
  BY <1>1, <1>2, <1>3, <1>4 DEF StaleName
<1>7. TrueLocator' = TrueLocator /\ names'["data"].components = names["data"].components
  BY <1>4, <1>2, Shapes DEF TrueLocator
<1>8. TrueInfo' = TrueInfo /\ TruePacket' = TruePacket /\ InfoParts' = InfoParts
  BY <1>1, <1>7 DEF TrueInfo, TruePacket, InfoParts
<1>9. StaleLocator' /\ StaleInfo' /\ StalePacket'
  BY <1>1, <1>7, <1>8 DEF IInv, StaleLocator, StaleInfo, StalePacket
<1>10. Kept' /\ InfoIsOurs' /\ TimestampIsNotResigned'
  BY <1>1, <1>7 DEF IInv, Kept, InfoIsOurs, TimestampIsNotResigned
<1> QED  BY <1>5, <1>6, <1>9, <1>10 DEF IInv

\* What is filled is made from what is stale already, or is not stale.
LEMMA FillsCachesIs ==
    ASSUME IInv, FillsCaches
    PROVE  /\ names' \in [Owner -> NameShape]
           /\ \A o \in Owner : /\ names'[o].components = names[o].components
                               /\ names'[o].ndn_data \in {None, names[o].components} \/ o \in stale
           /\ locator' \in Comps \cup {None}
           /\ locator' \in {None, TrueLocator} \/ stale \cap KeyParts # {}
           /\ info' \in InfoShape
           /\ \E w \in InfoWires \cup {None} : info' = [info EXCEPT !.ndn_data = w]
           /\ info'.ndn_data \in {None, TrueInfo} \/ stale \cap ({"info"} \cup InfoParts) # {}
           /\ info'.ndn_data # None => info'.ndn_data.timeStamp = "now"
<1>1. TypeOK /\ StaleName /\ StaleLocator /\ StaleInfo /\ InfoIsOurs
  BY DEF IInv
<1>2. names \in [Owner -> NameShape] /\ locator \in Comps \cup {None} /\ info \in InfoShape
  BY <1>1, Shapes
<1>3. \A o \in Owner : /\ NameWire(o) \in Comps
                       /\ NameWire(o) = names[o].components \/ o \in stale
  BY <1>1, NameWireIs
<1> DEFINE asksLocator == info.ndn_data = None /\ info.keyLocator
<1>4. /\ names' = [o \in Owner |-> IF o = "data" \/ (asksLocator /\ locator = None)
                                   THEN [names[o] EXCEPT !.ndn_data = NameWire(o)] ELSE names[o]]
      /\ locator' = IF asksLocator THEN LocatorWire ELSE locator
      /\ info' = IF info.ndn_data = None /\ ~InfoEncodable THEN info
                 ELSE [info EXCEPT !.ndn_data = InfoWire]
  BY DEF FillsCaches
<1> HIDE DEF asksLocator
<1>5. \A o \in Owner : /\ names'[o] \in NameShape
                       /\ names'[o].components = names[o].components
                       /\ names'[o].ndn_data \in {NameWire(o), names[o].ndn_data}
  BY <1>2, <1>3, <1>4 DEF NameShape
<1>6. names' \in [Owner -> NameShape]
  BY <1>4, <1>5
<1>7. \A o \in Owner : names'[o].ndn_data \in {None, names[o].components} \/ o \in stale
  BY <1>1, <1>3, <1>5 DEF StaleName
<1>8. /\ locator' \in Comps \cup {None}
      /\ locator' \in {None, TrueLocator} \/ stale \cap KeyParts # {}
  BY <1>1, <1>2, <1>4, LocatorWireIs DEF StaleLocator
<1>9. /\ InfoWire \in InfoWires /\ InfoWire.timeStamp = "now"
      /\ InfoWire = TrueInfo \/ stale \cap ({"info"} \cup InfoParts) # {}
  BY <1>1, InfoWireIs
<1>10. CASE info.ndn_data = None /\ ~InfoEncodable
  <2>1. info' = info /\ info = [info EXCEPT !.ndn_data = None]
    BY <1>2, <1>4, <1>10 DEF InfoShape
  <2> QED  BY <1>2, <1>5, <1>6, <1>7, <1>8, <1>10, <2>1
<1>11. CASE ~(info.ndn_data = None /\ ~InfoEncodable)
  <2>1. info' = [info EXCEPT !.ndn_data = InfoWire]
    BY <1>4, <1>11
  <2>2. info' \in InfoShape /\ info'.ndn_data = InfoWire
    BY <1>2, <1>9, <2>1 DEF InfoShape
  <2> QED  BY <1>5, <1>6, <1>7, <1>8, <1>9, <2>1, <2>2
<1> QED  BY <1>10, <1>11

\* The attributes are what they were.
LEMMA FillsCachesLeaves ==
    ASSUME IInv, FillsCaches
    PROVE  /\ TrueLocator' = TrueLocator /\ TrueInfo' = TrueInfo /\ InfoParts' = InfoParts
           /\ names'["data"].components = names["data"].components
           /\ info'.timeStamp = info.timeStamp /\ info'.freshness = info.freshness
           /\ info'.keyLocator = info.keyLocator
<1>1. PICK w \in InfoWires \cup {None} : info' = [info EXCEPT !.ndn_data = w]
  BY FillsCachesIs
<1>2. info \in InfoShape /\ "data" \in Owner /\ "key" \in Owner
  BY Shapes DEF IInv
<1>3. /\ info'.timeStamp = info.timeStamp /\ info'.freshness = info.freshness
      /\ info'.keyLocator = info.keyLocator
  BY <1>1, <1>2 DEF InfoShape
<1>4. /\ names'["data"].components = names["data"].components
      /\ TrueLocator' = TrueLocator
  BY <1>2, FillsCachesIs DEF TrueLocator
<1> QED  BY <1>3, <1>4 DEF TrueInfo, InfoParts

LEMMA SignFailsKeeps == ASSUME IInv, SignFails PROVE IInv'
<1>1. FillsCaches /\ UNCHANGED <<data, held, stale, received>>
  BY DEF SignFails
<1>2. TypeOK'
  BY <1>1, FillsCachesIs DEF IInv, TypeOK, NameShape, InfoShape
<1>3. StaleName' /\ StaleLocator' /\ StaleInfo' /\ InfoIsOurs'
  BY <1>1, FillsCachesIs, FillsCachesLeaves
     DEF StaleName, StaleLocator, StaleInfo, InfoIsOurs, KeyParts
<1>4. StalePacket'
  <2>1. TruePacket' = TruePacket
    BY <1>1, FillsCachesLeaves DEF TruePacket
  <2> QED  BY <1>1, <2>1, FillsCachesLeaves DEF IInv, StalePacket
<1>5. Kept' /\ TimestampIsNotResigned'
  BY <1>1, FillsCachesLeaves DEF IInv, Kept, TimestampIsNotResigned
<1> QED  BY <1>2, <1>3, <1>4, <1>5 DEF IInv

LEMMA SignKeeps == ASSUME IInv, Sign PROVE IInv'
<1>1. /\ FillsCaches /\ ContentEncodable
      /\ data' = [data EXCEPT !.ndn_data = PacketWire]
      /\ received' = None /\ stale' = stale \ {"packet"} /\ UNCHANGED held
  BY DEF Sign
<1>2. TypeOK /\ StaleName /\ StaleLocator /\ StaleInfo /\ InfoIsOurs /\ data \in DataShape
  BY Shapes DEF IInv
<1>3. /\ InfoWire \in InfoWires /\ InfoWire.timeStamp = "now"
      /\ InfoWire = TrueInfo \/ stale \cap ({"info"} \cup InfoParts) # {}
  BY <1>2, InfoWireIs
<1>4. /\ NameWire("data") \in Comps
      /\ NameWire("data") = names["data"].components \/ "data" \in stale
  BY <1>2, Shapes, NameWireIs
<1>5. ContentWire(data.content) \in {"empty", "bytes"}
  BY <1>1, <1>2 DEF ContentEncodable, ContentWire, DataShape
<1>6. PacketWire \in PacketWires
  BY <1>3, <1>4, <1>5 DEF PacketWire, PacketWires
<1>7. data' \in DataShape /\ data'.ndn_data = PacketWire /\ data'.content = data.content
  BY <1>1, <1>2, <1>6 DEF DataShape
<1>8. TypeOK'
  BY <1>1, <1>2, <1>7, FillsCachesIs DEF TypeOK, NameShape, InfoShape, DataShape
<1>9. StaleName' /\ StaleLocator' /\ StaleInfo' /\ InfoIsOurs'
  <2>1. \A h : h # "packet" => (h \in stale' <=> h \in stale)
    BY <1>1
  <2>2. "packet" \notin Owner /\ "packet" \notin KeyParts /\ "packet" \notin {"info"} \cup InfoParts
    BY DEF Owner, KeyParts, InfoParts
  <2>3. stale' \cap KeyParts = stale \cap KeyParts
    BY <2>1, <2>2
  <2>4. stale' \cap ({"info"} \cup InfoParts) = stale \cap ({"info"} \cup InfoParts)
    BY <2>1, <2>2
  <2> QED  BY <1>1, <2>1, <2>2, <2>3, <2>4, FillsCachesIs, FillsCachesLeaves
           DEF StaleName, StaleLocator, StaleInfo, InfoIsOurs, KeyParts
<1>10. StalePacket'
  <2>1. TruePacket' = [name |-> names["data"].components, content |-> ContentWire(data.content),
                       info |-> TrueInfo, signer |-> "us"]
    BY <1>1, <1>7, FillsCachesLeaves DEF TruePacket
  <2>2. CASE NameWire("data") = names["data"].components /\ InfoWire = TrueInfo
    <3>1. PacketWire = TruePacket'
      BY <2>1, <2>2 DEF PacketWire
    <3> QED  BY <1>7, <3>1 DEF StalePacket
  <2>3. CASE "data" \in stale
    BY <1>1, <2>3 DEF StalePacket
  <2>4. CASE stale \cap ({"info"} \cup InfoParts) # {}
    <3>1. "packet" \notin {"info"} \cup InfoParts
      BY DEF InfoParts, KeyParts
    <3>2. PICK h \in {"info"} \cup InfoParts : h \in stale
      BY <2>4
    <3>3. h \in stale'
      BY <1>1, <3>1, <3>2
    <3> QED  BY <1>1, <3>2, <3>3, FillsCachesLeaves DEF StalePacket
  <2> QED  BY <1>3, <1>4, <2>2, <2>3, <2>4
<1>11. Kept' /\ TimestampIsNotResigned'
  BY <1>1, <1>3, <1>7 DEF Kept, TimestampIsNotResigned, PacketWire
<1> QED  BY <1>8, <1>9, <1>10, <1>11 DEF IInv

\* A Data made from a packet whose timestamp tells who signed it.
LEMMA FromWireKeeps ==
    ASSUME IInv, NEW p \in PacketWires, p.signer = "us" <=> p.info.timeStamp = "now", FromWire(p)
    PROVE  IInv'
<1> DEFINE k == p.info.keyLocator
<1>1. /\ names' = [names EXCEPT !["data"] = NewName(p.name),
                                !["key"] = IF k = None THEN @ ELSE NewName(k)]
      /\ locator' = IF k = None THEN locator ELSE None
      /\ info' = ParsedInfo(p.info) /\ data' = ParsedData(p) /\ held' = {}
      /\ stale' = IF k = None THEN stale \cap {"key", "locator"} ELSE {}
      /\ received' = p
  BY DEF FromWire
<1>2. /\ p.name \in Comps /\ p.content \in {"empty", "bytes"} /\ p.signer \in {"us", "them"}
      /\ p.info \in InfoWires /\ k \in Comps \cup {None}
  BY DEF PacketWires, InfoWires
<1> HIDE DEF k
<1>3. TypeOK /\ names \in [Owner -> NameShape] /\ "data" \in Owner /\ "key" \in Owner
  BY Shapes DEF IInv
<1>4. /\ names' \in [Owner -> NameShape]
      /\ names'["data"] = NewName(p.name)
      /\ names'["key"] = IF k = None THEN names["key"] ELSE NewName(k)
  BY <1>1, <1>2, <1>3 DEF NameShape, NewName
<1>5. info' \in InfoShape /\ info'.ndn_data = None
  BY <1>1, <1>2 DEF ParsedInfo, InfoShape, InfoWires
<1>6. data' \in DataShape /\ data'.ndn_data = p /\ data'.content = p.content /\ data'.signature = p.signer
  BY <1>1, <1>2 DEF ParsedData, DataShape
<1>7. TypeOK'
  <2>1. stale' \subseteq Object /\ locator' \in Comps \cup {None}
    BY <1>1, <1>3 DEF TypeOK, Object
  <2> QED  BY <1>1, <1>4, <1>5, <1>6, <2>1 DEF TypeOK, NameShape, InfoShape, DataShape
<1>8. StaleName'
  BY <1>1, <1>4 DEF IInv, StaleName, NewName, Owner
<1>9. StaleLocator'
  BY <1>1, <1>4 DEF IInv, StaleLocator, TrueLocator, KeyParts
<1>10. StaleInfo' /\ InfoIsOurs' /\ StalePacket'
  BY <1>1, <1>5, <1>6 DEF StaleInfo, InfoIsOurs, StalePacket
<1>11. Kept'
  <2>1. names'["data"].components = p.name
    BY <1>4 DEF NewName
  <2>2. /\ info'.timeStamp = p.info.timeStamp /\ info'.freshness = p.info.freshness
        /\ info'.keyLocator = (k # None)
    BY <1>1 DEF ParsedInfo, k
  <2>3. k # None => TrueLocator' = k
    BY <1>4 DEF TrueLocator, NewName
  <2>4. p.info = [timeStamp |-> p.info.timeStamp, freshness |-> p.info.freshness, keyLocator |-> k]
    BY <1>2 DEF InfoWires, k
  <2>5. [timeStamp |-> info'.timeStamp, freshness |-> info'.freshness,
         keyLocator |-> IF info'.keyLocator THEN TrueLocator' ELSE None] = p.info
    BY <2>2, <2>3, <2>4
  <2> QED  BY <1>1, <1>6, <2>1, <2>5 DEF Kept
<1>12. TimestampIsNotResigned'
  BY <1>6 DEF TimestampIsNotResigned
<1> QED  BY <1>7, <1>8, <1>9, <1>10, <1>11, <1>12 DEF IInv

\* What others send is a packet, and says who signed it.
LEMMA PacketsAreWires ==
    ASSUME NEW p \in Packets
    PROVE  p \in PacketWires /\ (p.signer = "us" <=> p.info.timeStamp = "now")
<1>1. PICK c \in Comps, b \in {"empty", "bytes"}, f \in {0, 5}, k \in Comps \cup {None} :
         p = [name |-> c, content |-> b, signer |-> "them",
              info |-> [timeStamp |-> "then", freshness |-> f, keyLocator |-> k]]
  BY DEF Packets
<1>2. [timeStamp |-> "then", freshness |-> f, keyLocator |-> k] \in InfoWires
  BY DEF InfoWires
<1> QED  BY <1>1, <1>2 DEF PacketWires

LEMMA NextKeeps == IInv /\ [Next]_vars => IInv'
<1> SUFFICES ASSUME IInv, [Next]_vars PROVE IInv'
  OBVIOUS
<1>1. CASE \E v \in {None, "bytes", "number"} : SetContent(v)
  BY <1>1, SetContentKeeps
<1>2. CASE \E c \in Comps : SetName(c) \/ SetKeyName(c)
  BY <1>2, SetNameKeeps, SetKeyNameKeeps
<1>3. CASE SetSignedInfo
  BY <1>3, SetSignedInfoKeeps
<1>4. CASE SetInfo
  BY <1>4, SetInfoKeeps
<1>5. CASE \E o \in Owner, c \in Comps : SetComponents(o, c) \/ SetItem(o, c)
  BY <1>5, SetComponentsKeeps, SetItemKeeps
<1>6. CASE \E o \in Owner : UseName(o)
  BY <1>6, UseNameKeeps
<1>7. CASE Sign
  BY <1>7, SignKeeps
<1>8. CASE SignFails
  BY <1>8, SignFailsKeeps
<1>9. CASE Receive
  BY <1>9, PacketsAreWires, FromWireKeeps DEF Receive
<1>10. CASE Reparse
  <2>1. data.ndn_data # None /\ FromWire(data.ndn_data)
    BY <1>10, CachedIs DEF Reparse
  <2>2. data.ndn_data \in PacketWires
    BY <2>1, Shapes DEF IInv, DataShape
  <2>3. data.ndn_data.signer = "us" <=> data.ndn_data.info.timeStamp = "now"
    BY <2>1 DEF IInv, TimestampIsNotResigned
  <2> QED  BY <2>1, <2>2, <2>3, FromWireKeeps
<1>11. CASE UNCHANGED vars
  BY <1>11 DEF vars, IInv, TypeOK, StaleName, StaleLocator, StaleInfo, StalePacket, Kept,
               InfoIsOurs, TimestampIsNotResigned, TrueLocator, TrueInfo, TruePacket, InfoParts
<1> QED  BY <1>1, <1>2, <1>3, <1>4, <1>5, <1>6, <1>7, <1>8, <1>9, <1>10, <1>11 DEF Next

\* The inductive invariant holds in every execution: each cache on the way from a
\* Name to the packet is that of its object, or a note says where it was left behind
\* (the __setattr__ of Name, KeyLocator, SignedInfo and Data).
THEOREM Invariance == Spec => []IInv
<1> QED  BY InitIInv, NextKeeps, PTL DEF Spec

-----------------------------------------------------------------------------
(* Theorems                                                                 *)

\* The objects and their wire forms keep their shape; what is signed has content.
THEOREM TypeCorrect == Spec => []TypeOK
<1>1. IInv => TypeOK
  BY DEF IInv
<1> QED  BY <1>1, Invariance, PTL

\* A signature is made from what the attributes say, all the way down, unless a part
\* was changed under a wire form that was there already (Data.sign).
THEOREM StaleHasAReason == Spec => []StaleIsExplained
<1>1. IInv => StaleIsExplained
  BY DEF IInv, StaleIsExplained, StaleName, StaleLocator, StaleInfo, StalePacket
<1> QED  BY <1>1, Invariance, PTL

\* A received Data keeps its wire form and says what it says, until it is changed
\* (Data_obj_from_ndn).
THEOREM ReceivedStays == Spec => []ReceivedIsKept
<1>1. IInv => ReceivedIsKept
  BY DEF IInv, Kept, ReceivedIsKept
<1> QED  BY <1>1, Invariance, PTL

\* Our signatures are over a timestamp of their own, never over that of a packet
\* that was received (SignedInfo_obj_from_ndn, _pyndn_cmd_SignedInfo_to_ndn).
THEOREM TimestampStays == Spec => []TimestampIsNotResigned
<1>1. IInv => TimestampIsNotResigned
  BY DEF IInv
<1> QED  BY <1>1, Invariance, PTL
=============================================================================
