-------------------------------- MODULE Nre --------------------------------
(***************************************************************************)
(* Regular expressions over the components of a name (nre.py): a           *)
(* backtracking matcher with repetition and back references.  A            *)
(* RegexMatcher is made once and may be asked about many names; each of its *)
(* groups keeps what it last matched, also from attempts that were given    *)
(* up.                                                                      *)
(*                                                                          *)
(* An expression is the tree of matchers its constructors build; the        *)
(* concrete syntax is left out, and what a component matches, which is      *)
(* Python's re, is a set of components.  Groups inside a component are left *)
(* out.                                                                     *)
(***************************************************************************)
EXTENDS Integers, Sequences, FiniteSets, TLC

CONSTANTS Comp,            \* components of names
          MaxLen,          \* bound: components in a name
          Expr,            \* the expressions: [start, end : BOOLEAN, parts : Seq(Matcher)]
          Group,           \* the numbers of groups
          Unlimited,       \* sys.maxint
          RecursionLimit,  \* repetitions before Python's stack is full
          MaxCalls         \* bound: names one RegexMatcher is asked about

ASSUME NreAssumption == /\ {MaxLen, MaxCalls} \subseteq Nat
                        /\ MaxLen < RecursionLimit /\ RecursionLimit < Unlimited

VARIABLES expr,             \* the expression the RegexMatcher was made from
          backRef,          \* matchResult of each group of primaryMatcher
          secondBackRef,    \* and of secondaryMatcher
          secondaryUsed,
          matchResult,      \* of the RegexMatcher
          asked, result,    \* the last name and the answer
          calls

vars == <<expr, backRef, secondBackRef, secondaryUsed, matchResult, asked, result, calls>>

Name == UNION {[1 .. n -> Comp] : n \in 0 .. MaxLen}
Slice(name, offset, len) == SubSeq(name, offset + 1, offset + len)

-----------------------------------------------------------------------------
(* The matchers: SetOf is ComponentSetMatcher, GroupOf BackRefMatcher (with *)
(* its PatternListMatcher), Repeat RepeatMatcher, ListOf PatternListMatcher. *)

SetOf(comps, include) == [kind |-> "set", comps |-> comps, include |-> include]
ListOf(parts) == [kind |-> "list", parts |-> parts]
GroupOf(g, parts) == [kind |-> "group", group |-> g, parts |-> <<ListOf(parts)>>]
Repeat(m, min, max) == [kind |-> "repeat", body |-> m, min |-> min, max |-> max]

Anything == Repeat(SetOf(Comp, TRUE), 0, Unlimited)     \* <.*>*

Primary(e) == ListOf(IF e.end THEN e.parts ELSE Append(e.parts, Anything))
Secondary(e) == ListOf(<<Anything>> \o Primary(e).parts)

\* Outcome of a match: the answer and what the groups hold by then.
Outcome(answer, refs) == [answer |-> answer, refs |-> refs]
YesNo(b) == IF b THEN "yes" ELSE "no"

\* What _recursiveMatch decides at once, before its k-th matcher is tried.
ListStop(m, k, len) == IF k > Len(m.parts) THEN YesNo(len = 0) ELSE "go on"

\* Variant: the count is not looked at when the components are used up.
RepeatStopNoMin(m, k, len) == IF k - 1 > RecursionLimit THEN "error"
                              ELSE IF 0 < len /\ k - 1 >= m.max THEN "no"
                              ELSE IF len = 0 THEN "yes" ELSE "go on"

RepeatStop(m, k, len) == IF k - 1 > RecursionLimit THEN "error"
                         ELSE IF 0 < len /\ k - 1 >= m.max THEN "no"
                         ELSE IF len = 0 THEN YesNo(k - 1 >= m.min) ELSE "go on"

Stop(m, k, len) == IF m.kind = "repeat" THEN RepeatStop(m, k, len) ELSE ListStop(m, k, len)
Inner(m, k) == IF m.kind = "repeat" THEN m.body ELSE m.parts[k]

\* Variant: matchResult is not emptied before a new attempt.
EmptiesNothing(refs, g) == refs

\* match begins with an empty matchResult and appends to it in the end.
Empties(refs, g) == [refs EXCEPT ![g] = <<>>]

Remember(refs, g, s) == [refs EXCEPT ![g] = @ \o s]

RECURSIVE Match(_, _, _, _, _, _), RecursiveMatch(_, _, _, _, _, _, _),
          TryLength(_, _, _, _, _, _, _, _)

\* match (greedy: aggressiveMatch) of matcher m on len components from offset.
Match(greedy, m, name, offset, len, refs) ==
    CASE m.kind = "set" ->
           Outcome(YesNo(len = 1 /\ (name[offset + 1] \in m.comps <=> m.include)), refs)
      [] m.kind = "list" -> RecursiveMatch(greedy, m, 1, name, offset, len, refs)
      [] m.kind = "group" ->
           LET r == RecursiveMatch(greedy, m, 1, name, offset, len,
                                   Empties(refs, m.group))
           IN  IF r.answer = "yes"
               THEN Outcome("yes", Remember(r.refs, m.group, Slice(name, offset, len)))
               ELSE r
      [] m.kind = "repeat" ->
           IF m.min = 0 /\ len = 0 THEN Outcome("yes", refs)
           ELSE RecursiveMatch(greedy, m, 1, name, offset, len, refs)

RecursiveMatch(greedy, m, k, name, offset, len, refs) ==
    LET stop == Stop(m, k, len)
    IN  IF stop # "go on" THEN Outcome(stop, refs)
        ELSE TryLength(greedy, m, k, name, offset, len, IF greedy THEN len ELSE 0, refs)

\* The k-th matcher takes `tried` components, the others what is left.
TryLength(greedy, m, k, name, offset, len, tried, refs) ==
    IF tried \notin 0 .. len THEN Outcome("no", refs)
    ELSE LET first == Match(greedy, Inner(m, k), name, offset, tried, refs)
             both == IF first.answer # "yes" THEN first
                     ELSE RecursiveMatch(greedy, m, k + 1, name, offset + tried,
                                         len - tried, first.refs)
         IN  IF both.answer # "no" THEN both
             ELSE TryLength(greedy, m, k, name, offset, len,
                            IF greedy THEN tried - 1 ELSE tried + 1, both.refs)

-----------------------------------------------------------------------------
(* RegexMatcher *)

NoRefs == [g \in Group |-> <<>>]

Init == /\ expr \in Expr
        /\ backRef = NoRefs /\ secondBackRef = NoRefs
        /\ secondaryUsed = FALSE
        /\ matchResult = <<>>
        /\ asked = <<>> /\ result = "none"
        /\ calls = 0

\* The two matchers in turn.  An exception ends the call where it occurs.
Ask(greedy, name) ==
    LET p == Match(greedy, Primary(expr), name, 0, Len(name), backRef)
        second == p.answer = "no" /\ ~expr.start
        s == IF second THEN Match(greedy, Secondary(expr), name, 0, Len(name), secondBackRef)
             ELSE Outcome(p.answer, secondBackRef)
    IN  /\ backRef' = p.refs
        /\ secondBackRef' = s.refs
        /\ result' = s.answer
        /\ matchResult' = IF s.answer = "yes" THEN matchResult \o name ELSE matchResult
        /\ secondaryUsed' = (second /\ s.answer # "error")

MatchName(name) == /\ calls < MaxCalls
                   /\ Ask(FALSE, name)
                   /\ asked' = name
                   /\ calls' = calls + 1
                   /\ UNCHANGED expr

MatchN(name) == /\ calls < MaxCalls
                /\ Ask(TRUE, name)
                /\ asked' = name
                /\ calls' = calls + 1
                /\ UNCHANGED expr

\* extract and expand, for one group
Extracted(g) == IF secondaryUsed THEN secondBackRef[g] ELSE backRef[g]

Next == \E name \in Name : MatchName(name) \/ MatchN(name)

Spec == Init /\ [][Next]_vars

-----------------------------------------------------------------------------
(* Reference: the language of an expression, with what its groups stand for *)

\* The ways matcher m derives the components s: for each the groups that take
\* part, in the last round of a repetition, and their slices.
RECURSIVE Derivations(_, _), Rounds(_, _, _)

Derivations(m, s) ==
    CASE m.kind = "set" -> IF Len(s) = 1 /\ (s[1] \in m.comps <=> m.include) THEN {<<>>} ELSE {}
      [] m.kind = "list" ->
           IF m.parts = <<>> THEN (IF s = <<>> THEN {<<>>} ELSE {})
           ELSE UNION {{a @@ b : a \in Derivations(Head(m.parts), SubSeq(s, 1, n)),
                                 b \in Derivations(ListOf(Tail(m.parts)), SubSeq(s, n + 1, Len(s)))}
                        : n \in 0 .. Len(s)}
      [] m.kind = "group" -> {(m.group :> s) @@ d : d \in Derivations(m.parts[1], s)}
      [] m.kind = "repeat" ->
           UNION {Rounds(m, k, s) : k \in {i \in m.min .. m.min + Len(s) : i <= m.max}}

\* s in exactly k rounds
Rounds(m, k, s) ==
    IF k = 0 THEN (IF s = <<>> THEN {<<>>} ELSE {})
    ELSE UNION {IF Rounds(m, k - 1, SubSeq(s, 1, n)) = {} THEN {}
                ELSE Derivations(m.body, SubSeq(s, n + 1, Len(s))) : n \in 0 .. Len(s)}

\* Where in the name the expression may be found.
Found(e, name) ==
    UNION {Derivations(ListOf(e.parts), SubSeq(name, i, j - 1)) :
             <<i, j>> \in {<<i, j>> \in (1 .. Len(name) + 1) \X (1 .. Len(name) + 1) :
                             i <= j /\ (e.start => i = 1) /\ (e.end => j = Len(name) + 1)}}

\* A repetition of something that may be empty.
RECURSIVE RepeatsEmpty(_)
RepeatsEmpty(m) ==
    CASE m.kind = "set" -> FALSE
      [] m.kind = "repeat" -> Derivations(m.body, <<>>) # {} \/ RepeatsEmpty(m.body)
      [] OTHER -> \E i \in DOMAIN m.parts : RepeatsEmpty(m.parts[i])

-----------------------------------------------------------------------------
(* Properties *)

TypeOK == /\ expr \in Expr
          /\ backRef \in [Group -> Name] /\ secondBackRef \in [Group -> Name]
          /\ secondaryUsed \in BOOLEAN
          /\ matchResult \in Seq(Comp)
          /\ asked \in Name
          /\ result \in {"none", "yes", "no", "error"}
          /\ calls \in 0 .. MaxCalls

\* A name matches if and only if the expression derives a part of it that the
\* anchors allow, whichever method is asked and whatever the matcher was asked
\* before (nre.py:60-66, 462-488).  A repetition of something that may be empty
\* is the exception: it can refuse a name of the language, or recurse until
\* Python's stack is full, but it never accepts a wrong name.
MatchesTheLanguage ==
    /\ result = "yes" => Found(expr, asked) # {}
    /\ result = "no" => Found(expr, asked) = {} \/ RepeatsEmpty(ListOf(expr.parts))
    /\ result = "error" => RepeatsEmpty(ListOf(expr.parts))

\* After a match the groups that take part in it hold their slices of this name in
\* one and the same derivation, although the matcher backtracked over others and
\* was asked about other names before (nre.py:34-43, 580-602).  A group that was
\* skipped may hold anything, also what an abandoned attempt left.
BackReferencesAgree ==
    result = "yes" => \E d \in Found(expr, asked) : \A g \in DOMAIN d : Extracted(g) = d[g]
=============================================================================
