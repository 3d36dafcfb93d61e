----------------------------- MODULE MCKlineCache -----------------------------
(* The instances of KlineCache for TLC. *)
EXTENDS KlineCache, TLC

CONSTANTS u1, u2, g1

TwoPutters == {u1, u2}
OneGetter  == {g1}

PuttersAlike == Permutations(TwoPutters)

(* New klines at the end, an old one in front, and two in one put. *)
SomeLists == {<<1>>, <<4>>, <<2, 3>>, <<3, 5>>}
SomeAsks ==
    {[from |-> 0, to |-> 9, limit |-> 0], [from |-> 2, to |-> 4, limit |-> 2],
     [from |-> 3, to |-> 5, limit |-> 1]}
===============================================================================
