----------------------------- MODULE Interests -----------------------------
(***************************************************************************)
(* Names and Interests with their cached wire forms (Name.py, Interest.py,  *)
(* csrc/methods_name.c, csrc/methods_interest.c).                           *)
(*                                                                          *)
(* A Name keeps its components and, in ndn_data, the wire form they had     *)
(* when it was last asked for.  An Interest keeps a reference on a Name,    *)
(* its attributes, and a capsule with its wire form; the capsule keeps what *)
(* parsing the wire gave.  Assigning an attribute drops the cached form of  *)
(* that object, and of no other: changes made to the Name behind the        *)
(* Interest, or in the list of components, leave the caches alone.          *)
(*                                                                          *)
(* A list of components is one of a few values; the attributes are grouped  *)
(* by the way the C code treats them.  The application has one Interest at  *)
(* a time, and a Name it may have passed to the constructor.                *)
(***************************************************************************)
EXTENDS Integers

CONSTANTS Comps,    \* values of Name.components
          None      \* Python's None

ASSUME InterestsAssumption ==
    None \notin Comps \cup {"ok", "negative", "long", "wrong", "parsed", "zeros"}

VARIABLES names,      \* the Name objects
          interest,   \* the Interest object
          shifted,    \* history: names changed in place under a cached wire
          renamed,    \* history: the Name was changed under the cached wire of the Interest
          origin,     \* history: what the Interest was parsed from, until it is changed
          raised,     \* history: parsing the present capsule has raised an exception
          answered    \* history: content_matches_interest has answered with this capsule

vars == <<names, interest, shifted, renamed, origin, raised, answered>>
history == <<shifted, renamed, origin, raised, answered>>

NameId == {"app",     \* made and kept by the application
           "own"}     \* made by the constructor or the parser; seen as interest.name

\* number: min/maxSuffixComponents, childSelector, answerOriginKind, scope
\* blob: publisherPublicKeyDigest, nonce      "wrong": of a type the C code refuses
\* lifetime: "ok" is 0 to less than 4096 s, "long" any other number
Attr == {"number", "blob", "lifetime", "exclude"}
Values(a) == CASE a = "number" -> {None, "ok", "negative", "wrong"}
               [] a = "blob" -> {None, "ok", "wrong"}
               [] a = "lifetime" -> {None, "ok", "long", "wrong"}
               [] a = "exclude" -> {None, "ok"}

NoWire == [buf |-> None, pi |-> None]
NewCapsule(buf) == [buf |-> buf, pi |-> None]

\* Variant: the parser's components are not assigned to the Name.
NewNameUnset(c) == [components |-> None, ndn_data |-> None]

NewName(c) == [components |-> c, ndn_data |-> None]

Blank(n) == [name |-> n, attr |-> [a \in Attr |-> None], ndn_data |-> NoWire]

Cached == interest.ndn_data # NoWire

-----------------------------------------------------------------------------
(* The wire form                                                            *)

\* The lifetime is written as 24 bits of 1/4096 s: of a number that they do not
\* hold some number is left that they do.
InThreeBytes(lifetime) == IF lifetime = "long" THEN "ok" ELSE lifetime

\* The exclusion filter is looked at and left out.
Encodable(i) == \A a \in Attr : i.attr[a] # "wrong"
Encoding(i) == [name |-> names[i.name].components,
                attr |-> [i.attr EXCEPT !["exclude"] = None,
                                        !["lifetime"] = InThreeBytes(@)]]

\* What libndn sends; a peer's lifetime may be of any length.  A PublisherID that
\* is no digest is not among them: parsing it raises and makes no Interest
\* (methods_interest.c:605-610).
Packets == [name : Comps,
            attr : {f \in [Attr -> {None, "ok", "long"}] :
                       /\ \A a \in Attr \ {"lifetime"} : f[a] # "long"
                       /\ f["number"] = f["blob"]}]

\* What libndn's parser accepts.
Parses(buf) == buf.attr["number"] # "negative"

\* Variant: the parser is not called.
GetPiUnparsed(w) == IF w.pi # None THEN w ELSE [w EXCEPT !.pi = "zeros"]

\* The parsed form of a capsule: kept, zeros included when the parser failed.
GetPi(w) == IF w.pi # None THEN w
            ELSE [w EXCEPT !.pi = IF Parses(w.buf) THEN "parsed" ELSE "zeros"]

PiRaises(w) == w.pi = None /\ ~Parses(w.buf)

\* Variant: the lifetime is skipped.
FromNdnNoLifetime(buf) ==
    [Blank("own") EXCEPT !.attr = [a \in Attr |-> IF a \in {"number", "blob"}
                                                  THEN buf.attr[a] ELSE None]]

\* An Interest object made from a capsule.  ndn_data is set first, so each
\* attribute that follows resets it; the exclusion filter is not set.  A lifetime
\* is read whole, whatever its length.
FromNdn(buf) == [Blank("own") EXCEPT !.attr = [buf.attr EXCEPT !["exclude"] = None]]

-----------------------------------------------------------------------------
Init == /\ names \in [NameId -> [components : Comps, ndn_data : {None}]]
        /\ interest = Blank("own")
        /\ shifted = {}
        /\ renamed = FALSE
        /\ origin = None
        /\ raised = FALSE
        /\ answered = FALSE

\* The Interest has another capsule or none: what was noted of the old one goes.
Forget == renamed' = FALSE /\ raised' = FALSE /\ answered' = FALSE

\* Interest(name), with a Name or with something a Name is made of.
Construct(n) ==
    \E c \in Comps :
        /\ interest' = Blank(n)
        /\ names' = IF n = "own" THEN [names EXCEPT ![n] = NewName(c)] ELSE names
        /\ shifted' = IF n = "own" THEN shifted \ {n} ELSE shifted
        /\ origin' = None
        /\ Forget

\* Variant: __setattr__ keeps ndn_data.
SetAttrKeep(a, v) == /\ interest' = [interest EXCEPT !.attr[a] = v]
                     /\ UNCHANGED <<names, history>>

\* interest.<attribute> = v
SetAttr(a, v) == /\ interest' = [interest EXCEPT !.attr[a] = v, !.ndn_data = NoWire]
                 /\ origin' = None
                 /\ Forget
                 /\ UNCHANGED <<names, shifted>>

\* interest.name = the application's Name
SetName == /\ interest' = [interest EXCEPT !.name = "app", !.ndn_data = NoWire]
           /\ origin' = None
           /\ Forget
           /\ UNCHANGED <<names, shifted>>

\* name.components = c: of the application's Name, Const refuses it for the other.
SetComponents(c) == /\ names' = [names EXCEPT !["app"] = NewName(c)]
                    /\ shifted' = shifted \ {"app"}
                    /\ renamed' = (renamed \/ (interest.name = "app" /\ Cached))
                    /\ UNCHANGED <<interest, origin, raised, answered>>

\* name[i] = .., del name[i], or a change of the list interest.name.components
SetItem(n, c) == /\ n = "app" \/ n = interest.name
                 /\ names' = [names EXCEPT ![n].components = c]
                 /\ shifted' = IF names[n].ndn_data # None THEN shifted \cup {n} ELSE shifted
                 /\ renamed' = (renamed \/ (n = interest.name /\ Cached))
                 /\ origin' = IF n = interest.name THEN None ELSE origin
                 /\ UNCHANGED <<interest, raised, answered>>

\* A use of name.ndn_data: toUri, toWire, a comparison, Face calls.
NameWire(n) == /\ n = "app" \/ n = interest.name
               /\ names[n].ndn_data = None
               /\ names' = [names EXCEPT ![n].ndn_data = names[n].components]
               /\ UNCHANGED <<interest, history>>

(* Reading interest.ndn_data: the cached capsule, else a new one is made    *)
(* and kept.  When an attribute cannot be encoded TypeError leaves no trace.*)

Readable == Cached \/ Encodable(interest)
Wire == IF Cached THEN interest.ndn_data ELSE NewCapsule(Encoding(interest))

\* toWire; Face.expressInterest and Face.get with this Interest as the template
ToWire == /\ Readable
          /\ interest' = [interest EXCEPT !.ndn_data = Wire]
          /\ UNCHANGED <<names, history>>

\* Data.matchesInterest(interest), of a Data that has a wire form
Match == /\ Readable
         /\ interest' = [interest EXCEPT !.ndn_data = GetPi(Wire)]
         /\ raised' = (raised \/ PiRaises(Wire))
         /\ answered' = (answered \/ ~PiRaises(Wire))
         /\ UNCHANGED <<names, shifted, renamed, origin>>

\* The Interest made from a buffer takes the place of the old one.
Becomes(buf) == /\ interest' = FromNdn(buf)
                /\ names' = [names EXCEPT !["own"] = NewName(buf.name)]
                /\ shifted' = shifted \ {"own"}
                /\ origin' = buf
                /\ Forget

\* UpcallInfo.Interest
Receive == \E buf \in Packets : Becomes(buf)

\* _pyndn.Interest_obj_from_ndn(interest.ndn_data)
Reparse == /\ Readable
           /\ GetPi(Wire).pi = "parsed"
           /\ Becomes(Wire.buf)

\* It raises because the parser fails, or because the zeros it left name nothing.
ReparseFails == /\ Readable
                /\ GetPi(Wire).pi = "zeros"
                /\ interest' = [interest EXCEPT !.ndn_data = GetPi(Wire)]
                /\ raised' = TRUE
                /\ UNCHANGED <<names, shifted, renamed, origin, answered>>

Next == \/ \E n \in NameId : Construct(n)
        \/ \E a \in Attr : \E v \in Values(a) : SetAttr(a, v)
        \/ SetName
        \/ \E c \in Comps : SetComponents(c)
        \/ \E n \in NameId, c \in Comps : SetItem(n, c)
        \/ \E n \in NameId : NameWire(n)
        \/ ToWire
        \/ Match
        \/ Receive
        \/ Reparse
        \/ ReparseFails

Spec == Init /\ [][Next]_vars

-----------------------------------------------------------------------------
(* Properties                                                               *)

Attrs == {f \in [Attr -> UNION {Values(a) : a \in Attr}] : \A a \in Attr : f[a] \in Values(a)}
Buffers == [name : Comps, attr : Attrs]

TypeOK == /\ names \in [NameId -> [components : Comps, ndn_data : Comps \cup {None}]]
          /\ interest.name \in NameId
          /\ interest.attr \in Attrs
          /\ Cached => /\ interest.ndn_data.buf \in Buffers
                       /\ interest.ndn_data.pi \in {None, "parsed", "zeros"}
          /\ shifted \subseteq NameId
          /\ {renamed, raised, answered} \subseteq BOOLEAN
          /\ origin \in Buffers \cup {None}

\* A wire form that is not that of the object's present attributes is one whose
\* object was changed behind its back: the components of a Name in place
\* (Name.__setitem__, Name.py:144), the Name of an Interest through another
\* reference (Interest.py:23).  Assigning an attribute never leaves one.
StaleOnlyByAlias ==
    /\ \A n \in NameId : names[n].ndn_data \in {None, names[n].components} \/ n \in shifted
    /\ Cached => interest.ndn_data.buf = Encoding(interest) \/ renamed

\* An Interest that is encoded from its attributes is what it was parsed from but
\* for the exclusion filter and a lifetime of 4096 s or more: the parser drops the
\* capsule it came in (methods_interest.c:515), so every later use of it encodes
\* it again, with three bytes for the lifetime (methods_interest.c:441).
ReceivedLosesOnlyExcludeAndLong ==
    origin # None =>
        /\ Encodable(interest)
        /\ Encoding(interest).name = origin.name
        /\ \A a \in Attr : \/ Encoding(interest).attr[a] = origin.attr[a]
                           \/ a = "exclude"
                           \/ a = "lifetime" /\ origin.attr[a] = "long"

\* What libndn is given as the parsed form of an Interest is that form, unless the
\* parser failed on this very capsule and an exception said so: then the zeros it
\* left are taken for it (_pyndn_interest_get_pi, methods_interest.c:777-790).
ZerosOnlyAfterError ==
    /\ interest.ndn_data.pi = "zeros" => ~Parses(interest.ndn_data.buf)
    /\ answered /\ interest.ndn_data.pi = "zeros" => raised
=============================================================================
