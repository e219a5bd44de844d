-------------------------------- MODULE Lists ---------------------------------
(***************************************************************************)
(* What Go's loops and its sort package do with a slice, said by what they *)
(* return: a filter is the positions it keeps in rising order, a sort the  *)
(* order it puts the positions in, and the best of a loop that replaces it *)
(* by something better the first in that order.                            *)
(*                                                                         *)
(* An order is a set of pairs <<x, y>>, x before y.                        *)
(***************************************************************************)
EXTENDS Integers, Sequences, FiniteSets

Members(s) == {s[i] : i \in DOMAIN s}

\* A finite set as a sequence, in an order of its members.
InOrder(S, before) ==
    CHOOSE p \in [1..Cardinality(S) -> S] :
        \A m, n \in 1..Cardinality(S) : m < n => <<p[m], p[n]>> \in before

\* The member of a set that is before all others.
First(S, before) == CHOOSE x \in S : \A y \in S \ {x} : <<x, y>> \in before

Rising(S) == {e \in S \X S : e[1] < e[2]}
Falling(S) == {e \in S \X S : e[1] > e[2]}

Least(S) == First(S, Rising(S))

\* A set of numbers in rising order: sort.Ints.
Listed(S) == InOrder(S, Rising(S))

\* The elements at the positions P of s, in their order.
At(s, P) ==
    LET p == Listed(P)
    IN [n \in DOMAIN p |-> s[p[n]]]

\* The elements that pass a test: a loop that appends under a condition.
Where(s, Test(_)) == At(s, {i \in DOMAIN s : Test(s[i])})

\* The positions of s as a stable sort by Less orders them.
Stable(s, Less(_, _)) ==
    {e \in (DOMAIN s) \X (DOMAIN s) :
        \/ Less(s[e[1]], s[e[2]])
        \/ ~Less(s[e[2]], s[e[1]]) /\ e[1] < e[2]}

\* sort.Slice and sort.SliceStable.
Sorted(s, Less(_, _)) ==
    LET p == InOrder(DOMAIN s, Stable(s, Less))
    IN [n \in DOMAIN s |-> s[p[n]]]

=============================================================================
