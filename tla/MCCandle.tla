------------------------------- MODULE MCCandle -------------------------------
(* Instances of Candle and Intervals for TLC.  Numbers have sixteen bits and
   two digits after the point; an hour is half a day and a minute one tick.  The
   two share no state: the clock moves while no trade is handled, and trades are
   handled while it has not moved. *)
EXTENDS Candle, Intervals

Txt(whole, frac) == [neg |-> FALSE, whole |-> whole, frac |-> frac]
Tk(price, qty, buy) == [price |-> price, qty |-> qty, buy |-> buy]

(* A plain trade, a price with a digit too many, a tiny trade, one whose
   product is beyond sixteen bits, one of a large volume, and one whose price is
   no number. *)
SomeTicks ==
    {Tk(Txt(2, <<0, 5>>), Txt(1, <<>>), TRUE), Tk(Txt(3, <<0, 9, 9>>), Txt(0, <<7>>), FALSE),
     Tk(Txt(0, <<9>>), Txt(0, <<0, 1>>), FALSE), Tk(Txt(20, <<0>>), Txt(15, <<0>>), TRUE),
     Tk(Txt(1, <<2>>), Txt(150, <<>>), FALSE), Tk(Malformed, Txt(2, <<>>), TRUE)}

(* The clock runs from 1970, and from the 400th day on, to the March of 1972. *)
TwoStarts == {0, 400 * Day}
(* Without a clock. *)
NoClock == {0}

SmallWidths == [n \in {"1m", "10m", "30m", "1h"} |->
    CASE n = "1m" -> 1 [] n = "10m" -> 2 [] n = "30m" -> 6 [] n = "1h" -> 12]

MCInit == Init /\ ClockInit
MCNext ==
    \/ now = 0 /\ Next /\ UNCHANGED now
    \/ trades = <<>> /\ Tick /\ UNCHANGED candle
MCSpec == MCInit /\ [][MCNext]_<<candle, now>>
===============================================================================
