----------------------------- MODULE CandleStore -----------------------------
(***************************************************************************)
(* What the aggregator and its checkpoints promise the readers of the      *)
(* kline tables, with no buckets, buffers or locks: the row of a window    *)
(* counts only trades of that window which the aggregator has begun to     *)
(* count, and loses none of them but those that are given again after a    *)
(* restart and not counted yet, and all in a window that is begun anew.  A *)
(* row has two parts, the prices and the volumes, because the code reads   *)
(* them without a lock.                                                    *)
(***************************************************************************)
EXTENDS Integers

CONSTANTS
    Trades,    \* the trades
    Intervals, \* the interval widths
    TradeSym,  \* the symbol of each trade
    TradeTime  \* the timestamp of each trade

VARIABLES
    begun, \* the trades the aggregator has begun to add to its buckets
    ahead, \* those a restarted aggregator is still to count again
    anew,  \* the windows begun anew though trades of them were counted
    rows   \* per window, the trades its stored row counts

vars == <<begun, ahead, anew, rows>>

Window(t, iv) == <<TradeSym[t], iv, TradeTime[t] \div iv>>
Windows == {Window(t, iv) : t \in Trades, iv \in Intervals}
InWindow(win) == {t \in Trades : Window(t, win[2]) = win}

Row == [px : SUBSET Trades, vol : SUBSET Trades]
NoRow == [px |-> {}, vol |-> {}]

Init ==
    /\ begun = {} /\ ahead = {} /\ anew = {}
    /\ rows = [win \in Windows |-> NoRow]

(* A trade is given to the aggregator, which may find no row for its first kline
   of a window, or look for none. *)
Begin(t) ==
    /\ begun' = begun \cup {t}
    /\ \E ivs \in SUBSET Intervals : anew' = anew \cup {Window(t, iv) : iv \in ivs}
    /\ UNCHANGED <<ahead, rows>>

Count(t) ==
    /\ t \in begun
    /\ ahead' = ahead \ {t}
    /\ \E ivs \in SUBSET Intervals : anew' = anew \cup {Window(t, iv) : iv \in ivs}
    /\ UNCHANGED <<begun, rows>>

Rewind ==
    /\ ahead' \in SUBSET begun
    /\ UNCHANGED <<begun, anew, rows>>

Save ==
    /\ rows' \in [Windows -> Row]
    /\ \A win \in Windows :
          /\ rows'[win].px \cup rows'[win].vol \subseteq begun \cap InWindow(win)
          /\ win \notin anew => /\ rows[win].px \ ahead \subseteq rows'[win].px
                                /\ rows[win].vol \ ahead \subseteq rows'[win].vol
    /\ UNCHANGED <<begun, ahead, anew>>

Next ==
    \/ \E t \in Trades : Begin(t) \/ Count(t)
    \/ Rewind \/ Save

Spec == Init /\ [][Next]_vars
==============================================================================
