---------------------------- MODULE DataPackets ----------------------------
(***************************************************************************)
(* Data packets and the chain of cached wire forms they are signed from     *)
(* (Data.py, SignedInfo.py, KeyLocator.py, Name.py, Signature.py and their  *)
(* converters in csrc).                                                     *)
(*                                                                          *)
(* A Data is signed over the wire forms of its Name and its SignedInfo;     *)
(* that of the SignedInfo holds the wire form of its KeyLocator, and that   *)
(* of the KeyLocator the wire form of the key's Name.  Each object caches   *)
(* its own and drops it when an attribute of its own is assigned, so a form *)
(* that is made anew may be made from stale ones.  Unlike the others a Data *)
(* makes no wire form on demand: sign() does, or the packet came with it.   *)
(*                                                                          *)
(* The application builds or receives one Data at a time and lets go of an  *)
(* object it replaces.  data.name and data.signedInfo are seen through      *)
(* Const; what is below them (the list of components, the KeyLocator) is    *)
(* not.  finalBlockID and type are fields like freshness and left out.      *)
(***************************************************************************)
EXTENDS Integers

CONSTANTS Comps,    \* values of Name.components
          None      \* Python's None

ASSUME DataAssumption ==
    None \notin Comps \cup {"now", "then", "us", "them", "empty", "bytes", "number"}

VARIABLES names,      \* the Name of the Data and the Name of the key
          locator,    \* ndn_data of the KeyLocator
          info,       \* the SignedInfo
          data,       \* the Data
          held,       \* those of Name and SignedInfo the application has a reference on
          stale,      \* history: objects a part of which was changed under their wire form
          received    \* history: the packet the Data came in, while nothing was assigned

vars == <<names, locator, info, data, held, stale, received>>

Owner == {"data", "key"}                           \* of the two Names
Object == Owner \cup {"locator", "info", "packet"}

NewName(c) == [components |-> c, ndn_data |-> None]
NewInfo == [digest |-> FALSE, timeStamp |-> None, freshness |-> None,
            keyLocator |-> FALSE, ndn_data |-> None]

-----------------------------------------------------------------------------
(* Wire forms, made from what the parts have cached                         *)

NameWire(o) == IF names[o].ndn_data # None THEN names[o].ndn_data ELSE names[o].components

LocatorWire == IF locator # None THEN locator ELSE NameWire("key")

\* freshnessSeconds or (-1): no freshness and zero are both left out.
FreshnessWire(f) == IF f \in {None, 0} THEN None ELSE f

\* The timestamp is the time of encoding: a given one is refused.
InfoEncodable == info.digest /\ info.timeStamp = None
InfoWire == IF info.ndn_data # None THEN info.ndn_data
            ELSE [timeStamp |-> "now", freshness |-> FreshnessWire(info.freshness),
                  keyLocator |-> IF info.keyLocator THEN LocatorWire ELSE None]

ContentEncodable == data.content # "number"       \* bytes or None

\* Variant: None is passed on.
ContentWireRaw(c) == c

ContentWire(c) == IF c = None THEN "empty" ELSE c

PacketWire == [name |-> NameWire("data"), content |-> ContentWire(data.content),
               info |-> InfoWire, signer |-> "us"]

\* What others send: the freshness may be zero.
Packets == {[name |-> c, content |-> b, signer |-> "them",
             info |-> [timeStamp |-> "then", freshness |-> f, keyLocator |-> k]] :
              c \in Comps, b \in {"empty", "bytes"}, f \in {0, 5}, k \in Comps \cup {None}}

\* The wire forms there would be if nothing were cached.
TrueLocator == names["key"].components
TrueInfo == [timeStamp |-> "now", freshness |-> FreshnessWire(info.freshness),
             keyLocator |-> IF info.keyLocator THEN TrueLocator ELSE None]
TruePacket == [name |-> names["data"].components, content |-> ContentWire(data.content),
               info |-> TrueInfo, signer |-> "us"]

-----------------------------------------------------------------------------
(* Caches                                                                   *)

Cached(o) == CASE o \in Owner -> names[o].ndn_data # None
               [] o = "locator" -> locator # None
               [] o = "info" -> info.ndn_data # None
               [] o = "packet" -> data.ndn_data # None

\* The objects whose wire forms an object's own goes into.
Holders(o) == CASE o = "packet" -> {}
                [] o \in {"info", "data"} -> {"packet"}
                [] o \in {"locator", "key"} -> (IF o = "key" THEN {"locator"} ELSE {}) \cup
                                               (IF info.keyLocator THEN {"info", "packet"} ELSE {})

\* Some objects are changed; those in fresh have no wire form afterwards.
Changed(o, fresh) == stale' = (stale \ fresh) \cup
                              {h \in (Holders(o) \cup {o}) \ fresh : Cached(h)}

-----------------------------------------------------------------------------
Init == /\ names \in [Owner -> [components : Comps, ndn_data : {None}]]
        /\ locator = None
        /\ info = NewInfo
        /\ data = [content |-> None, signature |-> None, ndn_data |-> None]
        /\ held = {"name", "info"}
        /\ stale = {}
        /\ received = None

(* Assignments                                                              *)

\* Variant: __setattr__ keeps ndn_data.
SetContentKeep(v) == /\ data' = [data EXCEPT !.content = v]
                     /\ UNCHANGED <<names, locator, info, held, stale, received>>

\* data.content = v; the conversion content_to_bytes makes is overwritten (Data.py:62).
SetContent(v) == /\ data' = [data EXCEPT !.content = v, !.ndn_data = None]
                 /\ received' = None
                 /\ Changed("packet", {"packet"})
                 /\ UNCHANGED <<names, locator, info, held>>

\* data.name = Name(..)
SetName(c) == /\ names' = [names EXCEPT !["data"] = NewName(c)]
              /\ data' = [data EXCEPT !.ndn_data = None]
              /\ held' = held \cup {"name"}
              /\ received' = None
              /\ Changed("data", {"data", "packet"})
              /\ UNCHANGED <<locator, info>>

\* data.signedInfo = SignedInfo(key_digest)
SetSignedInfo == /\ info' = [NewInfo EXCEPT !.digest = TRUE]
                 /\ data' = [data EXCEPT !.ndn_data = None]
                 /\ held' = held \cup {"info"}
                 /\ received' = None
                 /\ Changed("info", {"info", "packet"})
                 /\ UNCHANGED <<names, locator>>

\* si.<attribute> = v, with the application's own reference on the SignedInfo
InfoBecomes(i) == /\ "info" \in held
                  /\ info' = [i EXCEPT !.ndn_data = None]
                  /\ Changed("info", {"info"})
                  /\ UNCHANGED <<names, locator, data, held, received>>

SetInfo == \/ \E f \in {None, 0, 5} : InfoBecomes([info EXCEPT !.freshness = f])
           \/ \E d \in BOOLEAN : InfoBecomes([info EXCEPT !.digest = d])
           \/ \E t \in {None, "then"} : InfoBecomes([info EXCEPT !.timeStamp = t])
           \/ \E k \in BOOLEAN : InfoBecomes([info EXCEPT !.keyLocator = k])

\* locator.keyName = Name(..), of the SignedInfo's or one that will be
SetKeyName(c) == /\ names' = [names EXCEPT !["key"] = NewName(c)]
                 /\ locator' = None
                 /\ Changed("key", {"key", "locator"})
                 /\ UNCHANGED <<info, data, held, received>>

\* name.components = c
SetComponents(o, c) == /\ o = "key" \/ "name" \in held
                       /\ names' = [names EXCEPT ![o] = NewName(c)]
                       /\ Changed(o, {o})
                       /\ UNCHANGED <<locator, info, data, held, received>>

\* name[i] = .., del name[i], a change of the list data.name.components
SetItem(o, c) == /\ names' = [names EXCEPT ![o].components = c]
                 /\ Changed(o, {})
                 /\ UNCHANGED <<locator, info, data, held, received>>

-----------------------------------------------------------------------------
(* Uses                                                                     *)

\* name.ndn_data: toUri, a comparison, a Face call
UseName(o) == /\ names' = [names EXCEPT ![o].ndn_data = NameWire(o)]
              /\ UNCHANGED <<locator, info, data, held, stale, received>>

\* The caches that reading name.ndn_data and signedInfo.ndn_data fills, also
\* when the SignedInfo cannot be encoded in the end.
FillsCaches ==
    LET asksLocator == info.ndn_data = None /\ info.keyLocator
    IN  /\ names' = [o \in Owner |->
                       IF o = "data" \/ (asksLocator /\ locator = None)
                       THEN [names[o] EXCEPT !.ndn_data = NameWire(o)] ELSE names[o]]
        /\ locator' = IF asksLocator THEN LocatorWire ELSE locator
        /\ info' = IF info.ndn_data = None /\ ~InfoEncodable THEN info
                   ELSE [info EXCEPT !.ndn_data = InfoWire]

\* data.sign(key): the signature attribute stays what it was.
Sign == /\ FillsCaches
        /\ info'.ndn_data # None /\ ContentEncodable
        /\ data' = [data EXCEPT !.ndn_data = PacketWire]
        /\ received' = None
        /\ stale' = stale \ {"packet"}
        /\ UNCHANGED held

\* It raises: no digest, a timestamp, or content that is not bytes.
SignFails == /\ FillsCaches
             /\ info'.ndn_data = None \/ ~ContentEncodable
             /\ UNCHANGED <<data, held, stale, received>>

\* Variant: the wire form of the SignedInfo is set after its attributes.
ParsedInfoKept(i) == [digest |-> TRUE, timeStamp |-> i.timeStamp, freshness |-> i.freshness,
                      keyLocator |-> i.keyLocator # None, ndn_data |-> i]

\* SignedInfo_obj_from_ndn: ndn_data is set first, each attribute resets it.
ParsedInfo(i) == [digest |-> TRUE, timeStamp |-> i.timeStamp, freshness |-> i.freshness,
                  keyLocator |-> i.keyLocator # None, ndn_data |-> None]

\* Variant: ndn_data is set before the attributes, as for an Interest.
ParsedDataFirst(p) == [content |-> p.content, signature |-> p.signer, ndn_data |-> None]

\* Data_obj_from_ndn: ndn_data is set last and stays.
ParsedData(p) == [content |-> p.content, signature |-> p.signer, ndn_data |-> p]

\* A Data made from a wire form.  It has a Name, a SignedInfo and a KeyLocator of
\* its own, the KeyLocator by name only: one that holds the key itself raises, as
\* KeyLocator has no attribute for it.
FromWire(p) == /\ names' = [names EXCEPT !["data"] = NewName(p.name),
                              !["key"] = IF p.info.keyLocator = None THEN @
                                         ELSE NewName(p.info.keyLocator)]
               /\ locator' = IF p.info.keyLocator = None THEN locator ELSE None
               /\ info' = ParsedInfo(p.info)
               /\ data' = ParsedData(p)
               /\ held' = {}
               /\ stale' = IF p.info.keyLocator = None THEN stale \cap {"key", "locator"} ELSE {}
               /\ received' = p

\* Data.fromWire, an upcall's Data, Face.get
Receive == \E p \in Packets : FromWire(p)

\* _pyndn.Data_obj_from_ndn(data.ndn_data): DataException if it is not signed
Reparse == /\ Cached("packet")
           /\ FromWire(data.ndn_data)

Next == \/ \E v \in {None, "bytes", "number"} : SetContent(v)
        \/ \E c \in Comps : SetName(c) \/ SetKeyName(c)
        \/ SetSignedInfo
        \/ SetInfo
        \/ \E o \in Owner, c \in Comps : SetComponents(o, c) \/ SetItem(o, c)
        \/ \E o \in Owner : UseName(o)
        \/ Sign
        \/ SignFails
        \/ Receive
        \/ Reparse

Spec == Init /\ [][Next]_vars

-----------------------------------------------------------------------------
(* Properties                                                               *)

InfoWires == [timeStamp : {"now", "then"}, freshness : {None, 0, 5},
              keyLocator : Comps \cup {None}]
PacketWires == [name : Comps, content : {"empty", "bytes"}, info : InfoWires,
                signer : {"us", "them"}]

TypeOK == /\ names \in [Owner -> [components : Comps, ndn_data : Comps \cup {None}]]
          /\ locator \in Comps \cup {None}
          /\ info \in [digest : BOOLEAN, timeStamp : {None, "now", "then"},
                       freshness : {None, 0, 5}, keyLocator : BOOLEAN,
                       ndn_data : InfoWires \cup {None}]
          /\ data \in [content : {None, "empty", "bytes", "number"},
                       signature : {None, "us", "them"}, ndn_data : PacketWires \cup {None}]
          /\ held \subseteq {"name", "info"}
          /\ stale \subseteq Object
          /\ received \in PacketWires \cup {None}

KeyParts == {"locator", "key"}
InfoParts == IF info.keyLocator THEN KeyParts ELSE {}

\* A wire form that differs from what the attributes say, all the way down, does
\* so because it or a form it is made from was there when a part was changed
\* under it (Name.__setitem__, Name.py:144; a part the packet shares with the
\* application, Data.py:18-25).  In particular a sign() that follows changes made
\* through attributes before the parts were first used signs what they say.
StaleIsExplained ==
    /\ \A o \in Owner : names[o].ndn_data \in {None, names[o].components} \/ o \in stale
    /\ locator \in {None, TrueLocator} \/ stale \cap KeyParts # {}
    /\ info.ndn_data \in {None, TrueInfo} \/ stale \cap ({"info"} \cup InfoParts) # {}
    /\ data.ndn_data \in {None, TruePacket, received}
          \/ stale \cap ({"packet", "data", "info"} \cup InfoParts) # {}

\* A received Data keeps the wire form it came in, and its attributes are what it
\* says, until something is assigned to the Data, it is signed, or a part of it is
\* changed behind it (methods_contentobject.c:356).
ReceivedIsKept ==
    received # None =>
        /\ data.ndn_data = received
        /\ data.content = received.content /\ data.signature = received.signer
        /\ stale = {} => /\ names["data"].components = received.name
                         /\ [timeStamp |-> info.timeStamp, freshness |-> info.freshness,
                             keyLocator |-> IF info.keyLocator THEN TrueLocator ELSE None]
                              = received.info

\* The timestamp of somebody else's packet is never signed again: the parsed
\* SignedInfo has lost its wire form (methods_signedinfo.c:49) and cannot be encoded
\* with a timestamp (methods_signedinfo.c:314), however the Data is changed.
TimestampIsNotResigned ==
    data.ndn_data # None => (data.ndn_data.signer = "us" <=> data.ndn_data.info.timeStamp = "now")
=============================================================================
