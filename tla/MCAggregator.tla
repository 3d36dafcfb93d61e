----------------------------- MODULE MCAggregator -----------------------------
(* Instances of Aggregator for TLC: a few trades of one or two symbols over a
   narrow interval of width 1 and a wide one of width 2. *)
EXTENDS Aggregator, TLC

CONSTANTS s1, s2, w1, w2

OneSymbol  == {s1}
TwoSymbols == {s1, s2}
OneWorker  == {w1}
TwoWorkers == {w1, w2}

NarrowAndWide == {1, 2}
Narrow == {1}

(* All trades of one symbol, or of two symbols in turn. *)
AllOfOne == [t \in Trades |-> s1]
InTurn   == [t \in Trades |-> IF t % 2 = 1 THEN s1 ELSE s2]

(* The windows the trades fall into: every second trade opens a narrow window
   and every fourth a wide one; or all trades share one window. *)
Paired   == [t \in Trades |-> t \div 2]
Together == [t \in Trades |-> 0]
===============================================================================
