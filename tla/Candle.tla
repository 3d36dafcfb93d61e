-------------------------------- MODULE Candle --------------------------------
(***************************************************************************)
(* The figures of one kline and of the narrower klines that make it up:    *)
(* trades of internal/model are converted from text and added, a save      *)
(* computes the averages and stores the text of every figure, and the      *)
(* continuity checker merges the narrow klines into a wide one.            *)
(***************************************************************************)
EXTENDS Decimal

CONSTANTS
    Ticks,    \* the trades the matching engine sends: two texts and a side
    MaxTrades \* bound on the trades of the wide kline

VARIABLES
    trades, \* the trades handled, in order (history)
    wide,   \* the wide kline
    narrow, \* the narrow klines of the same trades, in order of time
    saved   \* the stored row, with the number of trades it was saved after

candle == <<trades, wide, narrow, saved>>

-----------------------------------------------------------------------------
(* Trades and klines *)

Trade == [price : D, qty : D, amount : D, buy : BOOLEAN]
Kline == [open : D, high : D, low : D, close : D, vol : 0..MaxInt, amt : 0..MaxInt,
          buyVol : 0..MaxInt, buyAmt : 0..MaxInt, count : Nat, avg : D]
Stored == {"open", "high", "low", "close", "vol", "amt", "buyVol", "buyAmt", "avg"}

NewTradeFromTick(tick) ==
    LET price == FromString(tick.price)
        qty == FromString(tick.qty)
    IN  [price |-> price, qty |-> qty, amount |-> Mul(price, qty), buy |-> tick.buy]

(* The ticks are of non-negative numbers whose product can be represented. *)
ASSUME TicksAssumption ==
    /\ MaxTrades \in Nat
    /\ \A tick \in Ticks :
          LET price == FromString(tick.price)
              qty == FromString(tick.qty)
          IN  /\ {tick.price, tick.qty} \subseteq Text \cup {Malformed}
              /\ price \in 0..MaxInt /\ qty \in 0..MaxInt
              /\ price * qty <= MaxInt * Scale
              /\ tick.buy \in BOOLEAN

NewKline(price) ==
    [open |-> price, high |-> price, low |-> price, close |-> price, vol |-> 0, amt |-> 0,
     buyVol |-> 0, buyAmt |-> 0, count |-> 0, avg |-> 0]

Higher(a, b) == IF a > b THEN a ELSE b
Lower(a, b) == IF a < b THEN a ELSE b

Update(k, t) ==
    LET taken(x) == IF t.buy THEN x ELSE 0
    IN  [k EXCEPT !.high = Higher(t.price, @), !.low = Lower(t.price, @), !.close = t.price,
                  !.vol = Add(@, t.qty), !.amt = Add(@, t.amount), !.count = @ + 1,
                  !.buyVol = Add(@, taken(t.qty)), !.buyAmt = Add(@, taken(t.amount))]

(* ComputeAvg of a variant that divides by the number of trades. *)
AvgPerTrade(k) == IF k.vol > 0 THEN [k EXCEPT !.avg = Quo(k.amt, k.count * Scale)] ELSE k

ComputeAvg(k) == IF k.vol > 0 THEN [k EXCEPT !.avg = Quo(k.amt, k.vol)] ELSE k

(* Include of a variant that keeps the prices of the first kline. *)
IncludeTotals(m, k) ==
    [m EXCEPT !.vol = Add(@, k.vol), !.amt = Add(@, k.amt), !.count = @ + k.count,
              !.buyVol = Add(@, k.buyVol), !.buyAmt = Add(@, k.buyAmt)]

(* mergeOneMKlines: what its loop does with each narrow kline, *)
Include(m, k) ==
    [m EXCEPT !.high = Higher(k.high, @), !.low = Lower(k.low, @),
              !.vol = Add(@, k.vol), !.amt = Add(@, k.amt), !.count = @ + k.count,
              !.buyVol = Add(@, k.buyVol), !.buyAmt = Add(@, k.buyAmt)]

(* and the whole. *)
Merge(ks) ==
    LET first == [NewKline(Head(ks).open) EXCEPT !.high = Head(ks).high, !.low = Head(ks).low,
                                                 !.close = Last(ks).close]
        merged[n \in 0..Len(ks)] ==
            IF n = 0 THEN first ELSE Include(merged[n - 1], ks[n])
    IN  ComputeAvg(merged[Len(ks)])

(* The row BatchSave writes, and below the kline LoadKline and Query read. *)
RowOf(k) == [k EXCEPT !.open = String(@), !.high = String(@), !.low = String(@),
                      !.close = String(@), !.vol = String(@), !.amt = String(@),
                      !.buyVol = String(@), !.buyAmt = String(@), !.avg = String(@)]

(* A column keeps more digits than the code has and gives zeros back. *)
Column(s) == IF s = Malformed THEN s ELSE [s EXCEPT !.frac = @ \o <<0, 0>>]

Loaded(row) ==
    [f \in DOMAIN row |-> IF f \in Stored THEN FromString(Column(row[f])) ELSE row[f]]

-----------------------------------------------------------------------------
Init ==
    /\ trades = <<>>
    /\ wide = NewKline(0)
    /\ narrow = <<>>
    /\ saved = [row |-> RowOf(NewKline(0)), after |-> 0]

(* A tick is converted and added to the wide kline, and to the open narrow one
   or, when it falls into a later window, to a new one. *)
AddTrade(tick, later) ==
    /\ Len(trades) < MaxTrades
    /\ LET t == NewTradeFromTick(tick)
           fresh == later \/ narrow = <<>>
       IN  /\ trades' = Append(trades, t)
           /\ wide' = Update(IF trades = <<>> THEN NewKline(t.price) ELSE wide, t)
           /\ narrow' = IF fresh THEN Append(narrow, Update(NewKline(t.price), t))
                        ELSE [narrow EXCEPT ![Len(narrow)] = Update(@, t)]
    /\ UNCHANGED saved

(* BatchSave computes the averages of the klines it is given and stores them. *)
Save ==
    /\ trades # <<>>
    /\ wide' = ComputeAvg(wide)
    /\ narrow' = [i \in DOMAIN narrow |-> ComputeAvg(narrow[i])]
    /\ saved' = [row |-> RowOf(wide'), after |-> Len(trades)]
    /\ UNCHANGED trades

Next == (\E tick \in Ticks, later \in BOOLEAN : AddTrade(tick, later)) \/ Save

Spec == Init /\ [][Next]_candle

-----------------------------------------------------------------------------
(* Properties *)

(* The type invariant: every figure fits the width of the machine, and no total
   turns negative. *)
TypeOK ==
    /\ trades \in Seq(Trade)
    /\ wide \in Kline
    /\ narrow \in Seq(Kline)
    /\ DOMAIN saved.row = DOMAIN wide
    /\ saved.after \in 0..Len(trades)

(* The sum of a sequence of numbers, in exact arithmetic. *)
Total(ns) ==
    LET sum[n \in 0..Len(ns)] == IF n = 0 THEN 0 ELSE sum[n - 1] + ns[n]
    IN  sum[Len(ns)]

(* The amount of a trade in exact arithmetic, in whole units. *)
Product(t) == (t.price * t.qty) \div Scale

(* The kline of a sequence of trades, by definition and in exact arithmetic,
   its totals stopping at the largest number. *)
Figures(ts) ==
    LET prices == {ts[i].price : i \in DOMAIN ts}
        qty == [i \in DOMAIN ts |-> ts[i].qty]
        product == [i \in DOMAIN ts |-> Product(ts[i])]
        bought(ns) == [i \in DOMAIN ts |-> IF ts[i].buy THEN ns[i] ELSE 0]
    IN  [open |-> Head(ts).price, high |-> Max(prices), low |-> Min(prices),
         close |-> Last(ts).price, vol |-> Clamp(Total(qty)), amt |-> Clamp(Total(product)),
         buyVol |-> Clamp(Total(bought(qty))), buyAmt |-> Clamp(Total(bought(product))),
         count |-> Len(ts)]

Agree(k, figures) == \A f \in DOMAIN figures : k[f] = figures[f]

(* However the trades come, with products beyond the width of the machine and
   totals beyond it, the live kline (NewKline, Update) holds the figures of its
   trades: the overflow paths of Mul and Add are exact and saturating, though the
   comment on Add says that it panics. *)
KlineRight == trades # <<>> => Agree(wide, Figures(trades))

(* Rebuilding a wide kline from its narrow ones (mergeOneMKlines) gives the
   figures the aggregator counted, wherever the narrow windows end. *)
MergeAgrees == trades # <<>> => Merge(narrow) = ComputeAvg(wide)

(* The row read back from the table (String by BatchSave, FromString by
   LoadKline and Query) is the kline as it was when it was saved, the trades
   that came later excluded; and the text without zeros at the end that the API
   serves of a figure reads back as well. *)
RowReadsBack ==
    saved.after > 0 =>
        /\ Agree(Loaded(saved.row), Figures(SubSeq(trades, 1, saved.after)))
        /\ \A f \in Stored : FromString(Trimmed(wide[f])) = wide[f]

(* The saved average, its dividend within the width of the machine and its
   volume not at the bound, lies between the lowest and the highest price, but
   for the fractions that the division and each trade's amount lose. *)
AverageBetween ==
    LET k == Loaded(saved.row)
    IN  k.vol > 0 /\ k.vol < MaxInt /\ k.amt * Scale <= MaxInt =>
            /\ k.avg <= k.high
            /\ k.low * k.vol < (k.avg + 1) * k.vol + k.count * Scale

(* ComputeAvg, as it is documented: the amount divided by the volume, whatever
   they are. *)
AverageIsQuotient ==
    LET k == Loaded(saved.row)
    IN  k.vol > 0 => k.avg = (k.amt * Scale) \div k.vol
=============================================================================
