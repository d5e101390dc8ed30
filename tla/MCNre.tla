------------------------------- MODULE MCNre -------------------------------
EXTENDS Nre

CONSTANTS a, b

A == Repeat(SetOf({a}, TRUE), 1, 1)         \* <a>
B == Repeat(SetOf({b}, TRUE), 1, 1)
NotA == SetOf({a}, FALSE)                   \* [^<a>]
One == Repeat(SetOf(Comp, TRUE), 1, 1)      \* <.*>
As == Repeat(SetOf({a}, TRUE), 0, Unlimited)

Regex(start, parts, end) == [start |-> start, end |-> end, parts |-> parts]

Expressions == {
    Regex(FALSE, <<A, B>>, FALSE),                                            \* <a><b>
    Regex(FALSE, <<GroupOf(1, <<B>>), Repeat(NotA, 0, 1)>>, TRUE),            \* (<b>)[^<a>]?$
    Regex(TRUE, <<Repeat(GroupOf(1, <<A>>), 0, 1), One>>, TRUE),              \* ^(<a>)?<.*>$
    Regex(TRUE, <<GroupOf(1, <<Anything>>), GroupOf(2, <<One>>)>>, FALSE),    \* ^(<.*>*)(<.*>)
    Regex(FALSE, <<Repeat(GroupOf(1, <<A, B>>), 1, Unlimited)>>, TRUE),       \* (<a><b>)+$
    Regex(TRUE, <<Repeat(GroupOf(1, <<One>>), 2, 3), As>>, TRUE),             \* ^(<.*>){2,3}<a>*$
    Regex(TRUE, <<Repeat(GroupOf(1, <<As>>), 0, Unlimited), B>>, TRUE),       \* ^(<a>*)*<b>$
    Regex(TRUE, <<Repeat(GroupOf(1, <<As>>), 1, 2)>>, TRUE),                  \* ^(<a>*){1,2}$
    Regex(FALSE, <<Repeat(GroupOf(1, <<Repeat(GroupOf(2, <<A>>), 0, 1), B>>), 1, Unlimited)>>,
          TRUE),                                                              \* ((<a>)?<b>)+$
    Regex(FALSE, <<A, GroupOf(1, <<Anything>>), GroupOf(2, <<Repeat(NotA, 2, 2)>>)>>, FALSE)}
                                                                \* <a>(<.*>*)([^<a>]{2})
=============================================================================
