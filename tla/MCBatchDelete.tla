---------------------------- MODULE MCBatchDelete ----------------------------
(* One access key, two object keys and a few requests for TLC. The bucket     *)
(* keeps its objects under a prefix, which one of the keys begins with, too.  *)
EXTENDS BatchDelete, TLC

CONSTANTS c1, c2

A == <<"a">>
PA == <<"p", "a">>
P == <<"p">>

Wide == [enabled |-> TRUE, scopes |-> {{}}]
Narrow == [enabled |-> TRUE, scopes |-> {{P}}]
Off == [Wide EXCEPT !.enabled = FALSE]

MCKeys == {A, PA, P}
MCValues == {Wide, Narrow, Off, Absent}

MCRequests ==
    {[keys |-> <<A, PA>>, quiet |-> FALSE],
     [keys |-> <<A, PA>>, quiet |-> TRUE],
     [keys |-> <<A, A>>, quiet |-> FALSE],
     [keys |-> <<>>, quiet |-> FALSE],
     [keys |-> <<A, PA, A>>, quiet |-> FALSE]}

Symmetry == Permutations(Callers)
==============================================================================
