------------------------------- MODULE Lists --------------------------------
(***************************************************************************)
(* The kernel's linked lists as sequences: taking members out, and walking *)
(* along one.  SelectSeq and FoldLeft compute the same; these forms can be *)
(* proved about.                                                           *)
(***************************************************************************)
EXTENDS Naturals, Sequences, FiniteSets

\* The positions of l that stay when the members of S are taken out
Kept(l, S) == {k \in DOMAIN l : l[k] \notin S}

\* The n-th smallest member of the set K of numbers
Nth(K, n) == CHOOSE k \in K : Cardinality({j \in K : j <= k}) = n

\* list_del of every member of S: the others keep their order
Without(l, S) == LET K == Kept(l, S) IN [n \in 1..Cardinality(K) |-> l[Nth(K, n)]]

\* list_for_each: what Step makes of base, member after member
Walk(Step(_, _), base, l) ==
    LET at[k \in 0..Len(l)] == IF k = 0 THEN base ELSE Step(at[k - 1], l[k])
    IN  at[Len(l)]
=============================================================================
