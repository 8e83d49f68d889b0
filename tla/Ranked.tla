------------------------------- MODULE Ranked -------------------------------
(***************************************************************************)
(* Numbers in their order, the elements a sequence has at some of its      *)
(* places, and sequences one after another: what sorting, filtering and    *)
(* flattening come to, told by how many come before one.                   *)
(***************************************************************************)
EXTENDS Integers, FiniteSets, Sequences

\* The k-th of the numbers S: k - 1 of them come before it.
Nth(S, k) == CHOOSE i \in S : Cardinality({j \in S : j < i}) = k - 1

InOrder(S) == [k \in 1 .. Cardinality(S) |-> Nth(S, k)]

\* The elements of s at places I, as s has them.
Picked(s, I) == [k \in 1 .. Cardinality(I) |-> s[Nth(I, k)]]

\* The places <<i, j>> of the sequences of ss, in the order they come one after another.
Places(ss) == UNION {{i} \X DOMAIN ss[i] : i \in DOMAIN ss}
Before(p, q) == p[1] < q[1] \/ (p[1] = q[1] /\ p[2] < q[2])
NthPlace(P, k) == CHOOSE p \in P : Cardinality({q \in P : Before(q, p)}) = k - 1

\* The sequences of ss as one.
Flat(ss) ==
    [k \in 1 .. Cardinality(Places(ss)) |-> LET p == NthPlace(Places(ss), k) IN ss[p[1]][p[2]]]
=============================================================================
