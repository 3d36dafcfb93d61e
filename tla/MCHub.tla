--------------------------------- MODULE MCHub ---------------------------------
(* Instances of Hub for TLC: two connections at one writer. *)
EXTENDS Hub, TLC

CONSTANTS c1, c2, s1

TwoConns  == {c1, c2}
OneSymbol == {s1}

Shared   == [c \in Conns |-> 1]
AllOfOne == [t \in Trades |-> s1]

(* Such as a subscribe, its repetition and an unsubscribe, beside a subscribe. *)
ThreeAndOne == [c \in Conns |-> IF c = c1 THEN 3 ELSE 1]
===============================================================================
