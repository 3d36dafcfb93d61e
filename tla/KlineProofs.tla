----------------------------- MODULE KlineProofs ------------------------------
(***************************************************************************)
(* Proofs about the figures and the windows of a kline.  The figures, for  *)
(* integers of any width and any number of digits, whatever the trades:    *)
(* sums saturate, products are exact, a kline has the figures its trades   *)
(* have by definition, narrow klines merge into the wide one, a row reads  *)
(* back, and an average lies between the prices.  The windows, at every    *)
(* time, for every set of widths that divide a day and for weeks, months   *)
(* and years of the calendar: they tile the time line and are left exactly *)
(* after their close times.                                                *)
(***************************************************************************)
EXTENDS Candle, Intervals, SequenceTheorems, WellFoundedInduction, TLAPS

-----------------------------------------------------------------------------
(* Machine integers *)

LEMMA Bounds ==
    /\ MaxInt \in Nat /\ MinInt \in Int /\ MinInt = -MaxInt - 1 /\ MinInt < 0
    /\ Scale \in Nat \ {0}
    /\ Direct \in Nat /\ Direct * Direct <= MaxInt
  BY DecimalAssumption DEF MinInt

(* What the machine keeps is representable, and is the number itself when that
   is representable. *)
LEMMA WrapProperties ==
    ASSUME NEW n \in Int
    PROVE  /\ Wrap(n) \in D
           /\ n \in D => Wrap(n) = n
           /\ n > MaxInt /\ n <= 2 * MaxInt + 1 => Wrap(n) = n - 2 * (MaxInt + 1)
           /\ n < MinInt /\ n >= 2 * MinInt => Wrap(n) = n + 2 * (MaxInt + 1)
<1> DEFINE m == 2 * (MaxInt + 1)
<1>1. m \in Nat \ {0} /\ MaxInt \in Nat /\ MinInt = -MaxInt - 1
  BY Bounds
<1>2. (n - MinInt) % m \in 0..(m - 1)
  BY <1>1
<1>3. ASSUME NEW r \in 0..(m - 1), NEW q \in Int, n - MinInt = q * m + r
      PROVE  (n - MinInt) % m = r
  BY <1>1, <1>3
<1>4. Wrap(n) = ((n - MinInt) % m) + MinInt
  BY DEF Wrap
<1>5. ASSUME n \in D PROVE Wrap(n) = n
  <2>1. n - MinInt \in 0..(m - 1) /\ n - MinInt = 0 * m + (n - MinInt)
    BY <1>1, <1>5 DEF D
  <2> QED BY <1>1, <1>3, <1>4, <2>1
<1>6. ASSUME n > MaxInt, n <= 2 * MaxInt + 1 PROVE Wrap(n) = n - m
  <2>1. n - MinInt - m \in 0..(m - 1) /\ n - MinInt = 1 * m + (n - MinInt - m)
    BY <1>1, <1>6
  <2> QED BY <1>1, <1>3, <1>4, <2>1
<1>7. ASSUME n < MinInt, n >= 2 * MinInt PROVE Wrap(n) = n + m
  <2>1. n - MinInt + m \in 0..(m - 1) /\ n - MinInt = (-1) * m + (n - MinInt + m)
    BY <1>1, <1>7
  <2> QED BY <1>1, <1>3, <1>4, <2>1
<1>8. Wrap(n) \in D
  BY <1>1, <1>2, <1>4 DEF D
<1> QED BY <1>5, <1>6, <1>7, <1>8

(* Add is exact within the width of the machine and stops at its bounds. *)
THEOREM AddSaturates ==
    ASSUME NEW a \in D, NEW b \in D
    PROVE  Add(a, b) = Clamp(a + b)
<1>1. /\ MaxInt \in Nat /\ MinInt = -MaxInt - 1
      /\ a \in Int /\ b \in Int /\ MinInt <= a /\ a <= MaxInt /\ MinInt <= b /\ b <= MaxInt
  BY Bounds DEF D
<1> DEFINE sum == Wrap(a + b)
<1>2. CASE a + b \in D
  <2>1. sum = a + b
    BY <1>1, <1>2, WrapProperties
  <2>2. (sum >= 0 <=> a >= 0) \/ (sum >= 0 <=> b >= 0)
    BY <1>1, <2>1
  <2>3. Clamp(a + b) = a + b
    BY <1>1, <1>2 DEF Clamp, D
  <2> QED BY <2>1, <2>2, <2>3 DEF Add
<1>3. CASE a + b > MaxInt
  <2>1. sum = a + b - 2 * (MaxInt + 1) /\ sum < 0 /\ a > 0 /\ b > 0
    BY <1>1, <1>3, WrapProperties
  <2>2. Add(a, b) = MaxInt
    BY <1>1, <2>1 DEF Add
  <2> QED BY <1>3, <2>2 DEF Clamp
<1>4. CASE a + b < MinInt
  <2>1. sum = a + b + 2 * (MaxInt + 1) /\ sum >= 0 /\ a < 0 /\ b < 0
    BY <1>1, <1>4, WrapProperties
  <2>2. Add(a, b) = MinInt
    BY <1>1, <2>1 DEF Add
  <2>3. ~(a + b > MaxInt)
    BY <1>1, <1>4
  <2> QED BY <1>4, <2>2, <2>3 DEF Clamp
<1> QED BY <1>1, <1>2, <1>3, <1>4 DEF D

(* The quotient by a positive number of a product that does not exceed a
   multiple of it. *)
LEMMA QuotientBound ==
    ASSUME NEW n \in Nat, NEW w \in Nat \ {0}, NEW m \in Nat, n <= m * w
    PROVE  n \div w \in 0..m
<1> DEFINE q == n \div w
<1>1. q \in Nat /\ q * w <= n
  OBVIOUS
<1> HIDE DEF q
<1>2. q > m => (m + 1) * w <= q * w
  BY <1>1
<1>3. q <= m
  BY <1>1, <1>2
<1> QED BY <1>1, <1>3 DEF q

(* Mul is exact for numbers that are not negative, as the price and quantity of
   a trade, when their product is representable: with big integers and without. *)
THEOREM MulIsExact ==
    ASSUME NEW a \in 0..MaxInt, NEW b \in 0..MaxInt, a * b <= MaxInt * Scale
    PROVE  Mul(a, b) = (a * b) \div Scale /\ Mul(a, b) \in 0..MaxInt
<1> DEFINE n == a * b
<1>1. /\ MaxInt \in Nat /\ MinInt = -MaxInt - 1 /\ Scale \in Nat \ {0}
      /\ a \in Nat /\ b \in Nat /\ Magnitude(a) = a /\ Magnitude(b) = b
  BY Bounds DEF Magnitude
<1>2. n \in Nat /\ n <= MaxInt * Scale
  BY <1>1
<1> HIDE DEF n
<1>3. n \div Scale \in 0..MaxInt
  BY <1>1, <1>2, QuotientBound
<1>4. n \div Scale \in D
  BY <1>1, <1>3 DEF D
<1>5. Wrap(n \div Scale) = n \div Scale
  BY <1>4, WrapProperties DEF D
<1>6. ASSUME a <= Direct, b <= Direct PROVE Truncated(Wrap(n), Scale) = n \div Scale
  <2>1. n <= MaxInt
    <3>1. a * b <= Direct * b /\ Direct * b <= Direct * Direct
      BY <1>1, <1>6, Bounds
    <3> QED BY <1>1, <3>1, Bounds DEF n
  <2>2. Wrap(n) = n
    BY <1>1, <1>2, <2>1, WrapProperties DEF D
  <2>3. Magnitude(n) = n /\ Magnitude(Scale) = Scale
    BY <1>1, <1>2 DEF Magnitude
  <2> QED BY <1>1, <1>2, <2>2, <2>3 DEF Truncated
<1>7. Mul(a, b) = n \div Scale
  BY <1>1, <1>5, <1>6 DEF Mul, n
<1> QED BY <1>3, <1>7 DEF n

-----------------------------------------------------------------------------
(* Trades and klines *)

Figure == 0..MaxInt

LEMMA TradeProperties ==
    ASSUME NEW tick \in Ticks
    PROVE  LET t == NewTradeFromTick(tick)
           IN  /\ t \in Trade
               /\ t.price \in Figure /\ t.qty \in Figure /\ t.amount \in Figure
<1> DEFINE price == FromString(tick.price)
           qty == FromString(tick.qty)
<1>1. /\ price \in Figure /\ qty \in Figure /\ price * qty <= MaxInt * Scale
      /\ tick.buy \in BOOLEAN
  BY TicksAssumption DEF Figure
<1> HIDE DEF price, qty
<1>2. Mul(price, qty) \in Figure
  BY <1>1, MulIsExact DEF Figure
<1>3. Figure \subseteq D
  BY Bounds DEF Figure, D
<1>4. NewTradeFromTick(tick) =
        [price |-> price, qty |-> qty, amount |-> Mul(price, qty), buy |-> tick.buy]
  BY DEF NewTradeFromTick, price, qty
<1> QED BY <1>1, <1>2, <1>3, <1>4 DEF Trade

(* The sum of figures is a figure, and at least each of them; a part of a sum
   stays a part. *)
LEMMA SumOfFigures ==
    ASSUME NEW a \in Figure, NEW b \in Figure
    PROVE  /\ Add(a, b) \in Figure /\ a <= Add(a, b)
           /\ \A c \in Figure, d \in Figure : c <= a /\ d <= b => Add(c, d) <= Add(a, b)
<1>1. MaxInt \in Nat /\ MinInt < 0 /\ MinInt \in Int /\ Figure \subseteq D
  BY Bounds DEF Figure, D
<1>2. \A c \in Figure, d \in Figure : Add(c, d) = Clamp(c + d)
  BY <1>1, AddSaturates
<1> QED BY <1>1, <1>2 DEF Clamp, Figure

(* What a kline is made of, and what holds of its figures: the prices lie
   between the lowest and the highest, the takers' part does not exceed the
   whole. *)
Consistent(k) ==
    /\ k.low <= k.open /\ k.low <= k.close /\ k.open <= k.high /\ k.close <= k.high
    /\ k.buyVol <= k.vol /\ k.buyAmt <= k.amt

LEMMA NewKlineProperties ==
    ASSUME NEW price \in D
    PROVE  NewKline(price) \in Kline /\ Consistent(NewKline(price))
<1>1. 0 \in 0..MaxInt /\ 0 \in D /\ price \in Int
  BY Bounds DEF D
<1> QED BY <1>1 DEF NewKline, Kline, Consistent

LEMMA UpdateProperties ==
    ASSUME NEW k \in Kline, Consistent(k), NEW t \in Trade, t.qty \in Figure, t.amount \in Figure
    PROVE  /\ Update(k, t) \in Kline /\ Consistent(Update(k, t))
           /\ k.vol <= Update(k, t).vol /\ k.amt <= Update(k, t).amt
           /\ Update(k, t).count = k.count + 1
           /\ Update(k, t).open = k.open /\ Update(k, t).close = t.price
           /\ k.high <= Update(k, t).high /\ Update(k, t).low <= k.low
<1> DEFINE taken(x) == IF t.buy THEN x ELSE 0
           u == Update(k, t)
<1>1. /\ k.open \in D /\ k.high \in D /\ k.low \in D /\ k.close \in D /\ k.avg \in D
      /\ k.vol \in Figure /\ k.amt \in Figure /\ k.buyVol \in Figure /\ k.buyAmt \in Figure
      /\ k.count \in Nat /\ t.price \in D
  BY DEF Kline, Trade, Figure
<1>2. /\ taken(t.qty) \in Figure /\ taken(t.qty) <= t.qty
      /\ taken(t.amount) \in Figure /\ taken(t.amount) <= t.amount
  BY Bounds DEF Figure
<1>3. u = [open |-> k.open, high |-> Higher(t.price, k.high), low |-> Lower(t.price, k.low),
           close |-> t.price, vol |-> Add(k.vol, t.qty), amt |-> Add(k.amt, t.amount),
           buyVol |-> Add(k.buyVol, taken(t.qty)), buyAmt |-> Add(k.buyAmt, taken(t.amount)),
           count |-> k.count + 1, avg |-> k.avg]
  <2>1. k = [open |-> k.open, high |-> k.high, low |-> k.low, close |-> k.close,
             vol |-> k.vol, amt |-> k.amt, buyVol |-> k.buyVol, buyAmt |-> k.buyAmt,
             count |-> k.count, avg |-> k.avg]
    BY DEF Kline
  <2>2. u = [k EXCEPT !.high = Higher(t.price, k.high), !.low = Lower(t.price, k.low),
                      !.close = t.price, !.vol = Add(k.vol, t.qty),
                      !.amt = Add(k.amt, t.amount), !.count = k.count + 1,
                      !.buyVol = Add(k.buyVol, taken(t.qty)),
                      !.buyAmt = Add(k.buyAmt, taken(t.amount))]
    BY DEF Update
  <2> HIDE DEF u, taken
  <2> QED BY <2>1, <2>2
<1> HIDE DEF taken, u
<1>4. /\ Add(k.vol, t.qty) \in Figure /\ k.vol <= Add(k.vol, t.qty)
      /\ Add(k.amt, t.amount) \in Figure /\ k.amt <= Add(k.amt, t.amount)
      /\ Add(k.buyVol, taken(t.qty)) \in Figure
      /\ Add(k.buyAmt, taken(t.amount)) \in Figure
  BY <1>1, <1>2, SumOfFigures
<1>5. /\ Add(k.buyVol, taken(t.qty)) <= Add(k.vol, t.qty)
      /\ Add(k.buyAmt, taken(t.amount)) <= Add(k.amt, t.amount)
  BY <1>1, <1>2, SumOfFigures DEF Consistent
<1>6. /\ Higher(t.price, k.high) \in D /\ Lower(t.price, k.low) \in D
      /\ k.high <= Higher(t.price, k.high) /\ t.price <= Higher(t.price, k.high)
      /\ Lower(t.price, k.low) <= k.low /\ Lower(t.price, k.low) <= t.price
  BY <1>1 DEF Higher, Lower, D
<1>7. D \subseteq Int
  BY Bounds DEF D
<1>8. u \in Kline
  BY <1>1, <1>3, <1>4, <1>6 DEF Kline, Figure
<1>9. Consistent(u)
  <2>1. Lower(t.price, k.low) <= k.open /\ k.open <= Higher(t.price, k.high)
    <3>1. /\ k.low \in Int /\ k.open \in Int /\ k.high \in Int
          /\ Lower(t.price, k.low) \in Int /\ Higher(t.price, k.high) \in Int
      BY <1>1, <1>6, <1>7
    <3>2. k.low <= k.open /\ k.open <= k.high
      BY DEF Consistent
    <3> QED BY <1>6, <3>1, <3>2
  <2> QED BY <1>3, <1>5, <1>6, <2>1 DEF Consistent
<1>10. /\ u.vol = Add(k.vol, t.qty) /\ u.amt = Add(k.amt, t.amount)
       /\ u.count = k.count + 1 /\ u.open = k.open /\ u.close = t.price
       /\ u.high = Higher(t.price, k.high) /\ u.low = Lower(t.price, k.low)
  BY <1>3
<1> QED BY <1>4, <1>6, <1>8, <1>9, <1>10 DEF u

LEMMA ComputeAvgProperties ==
    ASSUME NEW k \in Kline, Consistent(k)
    PROVE  /\ ComputeAvg(k) \in Kline /\ Consistent(ComputeAvg(k))
           /\ \A f \in DOMAIN k \ {"avg"} : ComputeAvg(k)[f] = k[f]
<1>1. ASSUME k.vol > 0 PROVE Quo(k.amt, k.vol) \in D
  <2>1. /\ k.amt \in Nat /\ k.vol \in Nat \ {0} /\ Scale \in Nat /\ k.amt * Scale \in Int
    BY <1>1, Bounds DEF Kline
  <2>2. Wrap(k.amt * Scale) \in D /\ D \subseteq Int
    BY <2>1, WrapProperties, Bounds DEF D
  <2>3. \A n \in Int, d \in Nat \ {0} : Truncated(n, d) \in Int
    BY DEF Truncated, Magnitude
  <2> QED BY <2>1, <2>2, <2>3, WrapProperties DEF Quo
<1>2. CASE k.vol > 0
  <2>1. ComputeAvg(k) = [k EXCEPT !.avg = Quo(k.amt, k.vol)]
    BY <1>2 DEF ComputeAvg
  <2>2. ComputeAvg(k) \in Kline
    BY <1>1, <1>2, <2>1 DEF Kline
  <2>3. \A f \in DOMAIN k \ {"avg"} : ComputeAvg(k)[f] = k[f]
    BY <2>1
  <2>4. Consistent(ComputeAvg(k))
    BY <2>1 DEF Consistent, Kline
  <2> QED BY <2>2, <2>3, <2>4
<1>3. CASE ~(k.vol > 0)
  BY <1>3 DEF ComputeAvg
<1> QED BY <1>2, <1>3

-----------------------------------------------------------------------------
(* The live klines *)

(* Once there are trades the wide kline opens with the price of the first and
   closes with that of the last, its lowest and highest price are prices of
   trades, no trade is outside of them, and it counts all trades. *)
PricesRight ==
    trades # <<>> =>
        /\ wide.open = trades[1].price /\ wide.close = trades[Len(trades)].price
        /\ \A i \in DOMAIN trades : wide.low <= trades[i].price /\ trades[i].price <= wide.high
        /\ \E i \in DOMAIN trades : wide.low = trades[i].price
        /\ \E i \in DOMAIN trades : wide.high = trades[i].price
        /\ wide.count = Len(trades)

FiguresSound ==
    /\ PricesRight
    /\ Consistent(wide)
    /\ \A i \in DOMAIN narrow : Consistent(narrow[i])

CandleInv == TypeOK /\ FiguresSound

(* The prices of the wide kline after the trade t, which keeps those it had or
   takes that of t. *)
LEMMA UpdatePrices ==
    ASSUME NEW k \in Kline, NEW t \in Trade
    PROVE  LET u == Update(k, t)
           IN  /\ u.high \in {k.high, t.price} /\ u.low \in {k.low, t.price}
               /\ k.high <= u.high /\ t.price <= u.high /\ u.low <= k.low /\ u.low <= t.price
<1>1. k.high \in Int /\ k.low \in Int /\ t.price \in Int
  BY Bounds DEF Kline, Trade, D
<1>2. /\ Update(k, t).high = Higher(t.price, k.high)
      /\ Update(k, t).low = Lower(t.price, k.low)
  BY DEF Update, Kline
<1> QED BY <1>1, <1>2 DEF Higher, Lower

LEMMA InitSound == Init => CandleInv
<1> SUFFICES ASSUME Init PROVE CandleInv
  OBVIOUS
<1>1. 0 \in D
  BY Bounds DEF D
<1>2. NewKline(0) \in Kline /\ Consistent(NewKline(0))
  BY <1>1, NewKlineProperties
<1>3. DOMAIN RowOf(NewKline(0)) = DOMAIN NewKline(0)
  BY DEF RowOf, NewKline
<1>4. trades = <<>> /\ narrow = <<>> /\ trades \in Seq(Trade) /\ narrow \in Seq(Kline)
      /\ DOMAIN narrow = {} /\ Len(trades) = 0
  BY DEF Init
<1> QED BY <1>2, <1>3, <1>4 DEF Init, CandleInv, TypeOK, FiguresSound, PricesRight

LEMMA AddTradeSound ==
    ASSUME CandleInv, NEW tick \in Ticks, NEW later \in BOOLEAN, AddTrade(tick, later)
    PROVE  CandleInv'
<1> DEFINE t == NewTradeFromTick(tick)
           fresh == later \/ narrow = <<>>
           base == IF trades = <<>> THEN NewKline(t.price) ELSE wide
           n == Len(trades)
           m == Len(narrow)
<1>0. /\ trades \in Seq(Trade) /\ wide \in Kline /\ narrow \in Seq(Kline)
      /\ DOMAIN saved.row = DOMAIN wide /\ saved.after \in 0..n
      /\ Consistent(wide) /\ \A i \in DOMAIN narrow : Consistent(narrow[i])
  BY DEF CandleInv, TypeOK, FiguresSound
<1>1. t \in Trade /\ t.qty \in Figure /\ t.amount \in Figure /\ t.price \in D /\ t.price \in Int
  BY TradeProperties, Bounds DEF Trade, D
<1>2. /\ trades' = Append(trades, t) /\ wide' = Update(base, t) /\ saved' = saved
      /\ narrow' = IF fresh THEN Append(narrow, Update(NewKline(t.price), t))
                   ELSE [narrow EXCEPT ![m] = Update(narrow[m], t)]
  BY DEF AddTrade
<1> HIDE DEF t, fresh
<1>3. base \in Kline /\ Consistent(base) /\ n \in Nat /\ m \in Nat
  BY <1>0, <1>1, NewKlineProperties
<1>4. NewKline(t.price) \in Kline /\ Consistent(NewKline(t.price))
  BY <1>1, NewKlineProperties
<1>5. wide' \in Kline /\ Consistent(wide')
  BY <1>1, <1>2, <1>3, UpdateProperties
<1>6. narrow' \in Seq(Kline) /\ \A i \in DOMAIN narrow' : Consistent(narrow'[i])
  <2> DEFINE new == Update(NewKline(t.price), t)
             more == Update(narrow[m], t)
  <2>1. CASE fresh
    <3>1. new \in Kline /\ Consistent(new)
      BY <1>1, <1>4, UpdateProperties
    <3>2. narrow' = Append(narrow, new)
      BY <1>2, <2>1
    <3> HIDE DEF new
    <3> QED BY <1>0, <3>1, <3>2
  <2>2. CASE ~fresh
    <3>1. m \in DOMAIN narrow
      BY <1>0, <2>2 DEF fresh
    <3>2. more \in Kline /\ Consistent(more)
      <4>1. narrow[m] \in Kline /\ Consistent(narrow[m])
        BY <1>0, <3>1
      <4> QED BY <1>1, <4>1, UpdateProperties
    <3>3. narrow' = [narrow EXCEPT ![m] = more]
      BY <1>2, <2>2
    <3> HIDE DEF more
    <3> QED BY <1>0, <3>1, <3>2, <3>3
  <2> QED BY <2>1, <2>2
<1>7. /\ trades' \in Seq(Trade) /\ Len(trades') = n + 1 /\ trades'[n + 1] = t
      /\ \A i \in 1..n : trades'[i] = trades[i]
      /\ DOMAIN trades' = 1..(n + 1) /\ DOMAIN trades = 1..n /\ trades' # <<>>
  BY <1>0, <1>1, <1>2
<1>8. TypeOK'
  <2>1. DOMAIN wide' = DOMAIN wide
    BY <1>0, <1>5 DEF Kline
  <2> QED BY <1>0, <1>2, <1>3, <1>5, <1>6, <1>7, <2>1 DEF TypeOK
<1>9. /\ wide'.high \in {base.high, t.price} /\ wide'.low \in {base.low, t.price}
      /\ base.high <= wide'.high /\ t.price <= wide'.high
      /\ wide'.low <= base.low /\ wide'.low <= t.price
      /\ wide'.open = base.open /\ wide'.close = t.price /\ wide'.count = base.count + 1
  BY <1>1, <1>2, <1>3, UpdatePrices, UpdateProperties
<1>10. PricesRight'
  <2>1. CASE trades = <<>>
    <3>1. /\ base.open = t.price /\ base.high = t.price /\ base.low = t.price /\ base.count = 0
          /\ n = 0
      BY <2>1 DEF NewKline
    <3> HIDE DEF base
    <3> QED BY <1>1, <1>7, <1>9, <3>1 DEF PricesRight
  <2>2. CASE trades # <<>>
    <3>1. base = wide
      BY <2>2
    <3>2. n \in Nat \ {0} /\ PricesRight
      BY <1>0, <2>2 DEF CandleInv, FiguresSound
    <3>3. /\ wide.low \in Int /\ wide.high \in Int /\ wide'.low \in Int /\ wide'.high \in Int
          /\ \A i \in 1..n : trades[i].price \in Int
      <4>1. D \subseteq Int
        BY Bounds DEF D
      <4>2. /\ wide.low \in D /\ wide.high \in D /\ wide'.low \in D /\ wide'.high \in D
        BY <1>0, <1>5 DEF Kline
      <4>3. ASSUME NEW i \in 1..n PROVE trades[i].price \in D
        <5>1. trades[i] \in Trade
          BY <1>0
        <5> QED BY <5>1 DEF Trade
      <4> QED BY <4>1, <4>2, <4>3
    <3> HIDE DEF base, n
    <3>4. wide'.open = trades'[1].price /\ wide'.close = trades'[n + 1].price /\ wide'.count = n + 1
      BY <1>7, <1>9, <2>2, <3>1, <3>2 DEF PricesRight, n
    <3>5. ASSUME NEW i \in 1..(n + 1)
          PROVE  wide'.low <= trades'[i].price /\ trades'[i].price <= wide'.high
      <4>1. CASE i = n + 1
        BY <1>7, <1>9, <4>1
      <4>2. CASE i \in 1..n
        <5>1. wide.low <= trades[i].price /\ trades[i].price <= wide.high
          BY <1>7, <2>2, <3>2, <4>2 DEF PricesRight
        <5>2. wide'.low <= wide.low /\ wide.high <= wide'.high /\ trades'[i] = trades[i]
          BY <1>7, <1>9, <3>1, <4>2
        <5> QED BY <3>3, <4>2, <5>1, <5>2
      <4> QED BY <3>2, <4>1, <4>2
    <3>6. \E i \in 1..(n + 1) : wide'.low = trades'[i].price
      <4>1. PICK i \in 1..n : wide.low = trades[i].price
        BY <1>7, <2>2, <3>2 DEF PricesRight
      <4>2. i \in 1..(n + 1) /\ n + 1 \in 1..(n + 1)
        BY <3>2
      <4> QED BY <1>7, <1>9, <3>1, <4>1, <4>2
    <3>7. \E i \in 1..(n + 1) : wide'.high = trades'[i].price
      <4>1. PICK i \in 1..n : wide.high = trades[i].price
        BY <1>7, <2>2, <3>2 DEF PricesRight
      <4>2. i \in 1..(n + 1) /\ n + 1 \in 1..(n + 1)
        BY <3>2
      <4> QED BY <1>7, <1>9, <3>1, <4>1, <4>2
    <3> QED BY <1>7, <3>4, <3>5, <3>6, <3>7 DEF PricesRight
  <2> QED BY <2>1, <2>2
<1> QED BY <1>5, <1>6, <1>8, <1>10 DEF CandleInv, FiguresSound

LEMMA SaveSound ==
    ASSUME CandleInv, Save
    PROVE  CandleInv'
<1>0. /\ trades \in Seq(Trade) /\ wide \in Kline /\ narrow \in Seq(Kline)
      /\ Consistent(wide) /\ \A i \in DOMAIN narrow : Consistent(narrow[i]) /\ narrow[i] \in Kline
      /\ PricesRight
  BY DEF CandleInv, TypeOK, FiguresSound
<1>1. /\ trades' = trades /\ wide' = ComputeAvg(wide)
      /\ narrow' = [i \in DOMAIN narrow |-> ComputeAvg(narrow[i])]
      /\ saved' = [row |-> RowOf(wide'), after |-> Len(trades)]
  BY DEF Save
<1>2. wide' \in Kline /\ Consistent(wide')
  BY <1>0, <1>1, ComputeAvgProperties
<1>3. narrow' \in Seq(Kline) /\ \A i \in DOMAIN narrow' : Consistent(narrow'[i])
  <2>1. \A i \in DOMAIN narrow :
           ComputeAvg(narrow[i]) \in Kline /\ Consistent(ComputeAvg(narrow[i]))
    BY <1>0, ComputeAvgProperties
  <2>2. DOMAIN narrow = 1..Len(narrow) /\ Len(narrow) \in Nat
    BY <1>0
  <2> QED BY <1>1, <2>1, <2>2
<1>4. DOMAIN saved'.row = DOMAIN wide'
  <2>1. DOMAIN RowOf(wide') = DOMAIN wide'
    BY <1>2 DEF RowOf, Kline
  <2> QED BY <1>1, <2>1
<1>5. saved'.after \in 0..Len(trades')
  BY <1>0, <1>1
<1>6. PricesRight'
  <2>1. \A f \in {"open", "high", "low", "close", "count"} : wide'[f] = wide[f]
    <3>1. {"open", "high", "low", "close", "count"} \subseteq DOMAIN wide \ {"avg"}
      BY <1>0 DEF Kline
    <3>2. \A f \in DOMAIN wide \ {"avg"} : ComputeAvg(wide)[f] = wide[f]
      BY <1>0, ComputeAvgProperties
    <3> QED BY <1>1, <3>1, <3>2
  <2>2. /\ wide'.open = wide.open /\ wide'.high = wide.high /\ wide'.low = wide.low
        /\ wide'.close = wide.close /\ wide'.count = wide.count
    BY <2>1
  <2> QED BY <1>0, <1>1, <2>2 DEF PricesRight
<1> QED BY <1>0, <1>1, <1>2, <1>3, <1>4, <1>5, <1>6 DEF CandleInv, TypeOK, FiguresSound

(* Every figure of a kline fits the machine, no total turns negative, and the
   figures are consistent, for trades of any number and size: open, high, low,
   close and count are those of the trades, the takers' part of a total does not
   exceed it, and computing the average for a save changes nothing else. *)
THEOREM FiguresAreSound == Spec => [](TypeOK /\ FiguresSound)
<1>1. CandleInv /\ [Next]_candle => CandleInv'
  <2> SUFFICES ASSUME CandleInv, [Next]_candle PROVE CandleInv'
    OBVIOUS
  <2>1. CASE UNCHANGED candle
    BY <2>1 DEF candle, CandleInv, TypeOK, FiguresSound, PricesRight
  <2> QED BY <2>1, AddTradeSound, SaveSound DEF Next
<1> QED BY <1>1, InitSound, PTL DEF Spec, CandleInv

-----------------------------------------------------------------------------
(* Numbers and sequences *)

(* A set of natural numbers that is not empty has a least element. *)
LEMMA LeastNatural ==
    ASSUME NEW S \in SUBSET Nat, S # {}
    PROVE  \E n \in S : \A m \in S : n <= m
<1> DEFINE R == OpToRel(<, Nat)
<1>1. IsWellFoundedOn(R, Nat)
  BY NatLessThanWellFounded
<1> HIDE DEF R
<1>2. PICK n \in S : \A m \in S : ~(<<m, n>> \in R)
  BY <1>1, WFMin
<1>3. \A m \in S : ~(m < n)
  BY <1>2 DEF R, OpToRel
<1> QED BY <1>3

(* The first elements of a sequence. *)
LEMMA PrefixIs ==
    ASSUME NEW S, NEW s \in Seq(S), NEW n \in Nat, n <= Len(s)
    PROVE  /\ SubSeq(s, 1, n) \in Seq(S) /\ Len(SubSeq(s, 1, n)) = n
           /\ \A i \in 1..n : SubSeq(s, 1, n)[i] = s[i]
<1>1. 1 \in Int /\ n \in Int /\ \A i \in 1..n : i \in 1..Len(s)
  OBVIOUS
<1>2. \A i \in 1..n : s[i] \in S
  BY <1>1, ElementOfSeq
<1>3. /\ SubSeq(s, 1, n) \in Seq(S)
      /\ Len(SubSeq(s, 1, n)) = IF 1 <= n THEN n - 1 + 1 ELSE 0
      /\ \A i \in 1..(n - 1 + 1) : SubSeq(s, 1, n)[i] = s[1 + i - 1]
  BY <1>1, <1>2, SubSeqProperties
<1>4. (IF 1 <= n THEN n - 1 + 1 ELSE 0) = n /\ n - 1 + 1 = n /\ \A i \in 1..n : 1 + i - 1 = i
  OBVIOUS
<1>5. \A i \in 1..n : SubSeq(s, 1, n)[i] = s[i]
  BY <1>3, <1>4
<1> QED BY <1>3, <1>4, <1>5

-----------------------------------------------------------------------------
(* Sums *)

(* g holds the sums of the first numbers of ns, up to n of them. *)
Sums(g, ns, n) == g = [k \in 0..n |-> IF k = 0 THEN 0 ELSE g[k - 1] + ns[k]]

LEMMA SumsExist ==
    ASSUME NEW ns \in Seq(Nat), NEW n \in 0..Len(ns)
    PROVE  \E g \in [0..n -> Nat] : Sums(g, ns, n)
<1> DEFINE S == {m \in Nat : m <= Len(ns) /\ ~\E g \in [0..m -> Nat] : Sums(g, ns, m)}
<1>1. SUFFICES ASSUME S # {} PROVE FALSE
  <2>1. n \in Nat /\ n <= Len(ns)
    OBVIOUS
  <2> QED BY <1>1, <2>1
<1>2. PICK m \in S : \A l \in S : m <= l
  BY <1>1, LeastNatural
<1>3. m \in Nat /\ m <= Len(ns) /\ Len(ns) \in Nat
  OBVIOUS
<1>4. CASE m = 0
  <2> DEFINE g == [k \in 0..0 |-> 0]
  <2>1. g \in [0..m -> Nat] /\ g = [k \in 0..m |-> IF k = 0 THEN 0 ELSE g[k - 1] + ns[k]]
    BY <1>4
  <2> QED BY <2>1 DEF Sums
<1>5. CASE m # 0
  <2>1. m - 1 \in Nat /\ m - 1 <= Len(ns) /\ ~(m <= m - 1) /\ m \in 1..Len(ns) /\ m \in 0..m
    BY <1>3, <1>5
  <2>2. PICK g \in [0..(m - 1) -> Nat] : Sums(g, ns, m - 1)
    BY <1>2, <2>1
  <2> DEFINE h == [k \in 0..m |-> IF k = m THEN g[m - 1] + ns[m] ELSE g[k]]
  <2>3. h \in [0..m -> Nat]
    <3>1. ns[m] \in Nat
      BY <2>1, ElementOfSeq
    <3>2. \A k \in 0..m : k # m => k \in 0..(m - 1)
      BY <1>3
    <3>3. m - 1 \in 0..(m - 1)
      BY <2>1
    <3> QED BY <3>1, <3>2, <3>3
  <2>4. ASSUME NEW k \in 0..m PROVE h[k] = IF k = 0 THEN 0 ELSE h[k - 1] + ns[k]
    <3>1. \A i \in 0..(m - 1) : g[i] = IF i = 0 THEN 0 ELSE g[i - 1] + ns[i]
      BY <2>2 DEF Sums
    <3>2. CASE k = m
      <4>1. k - 1 \in 0..m /\ k - 1 # m /\ k # 0
        BY <1>3, <1>5, <3>2
      <4> QED BY <3>2, <4>1
    <3>3. CASE k # m
      <4>1. k \in 0..(m - 1) /\ (k # 0 => k - 1 \in 0..m /\ k - 1 # m)
        BY <1>3, <3>3
      <4> QED BY <3>1, <3>3, <4>1
    <3> QED BY <3>2, <3>3
  <2>5. h = [k \in 0..m |-> h[k]]
    OBVIOUS
  <2> HIDE DEF h
  <2>6. Sums(h, ns, m)
    BY <2>4, <2>5 DEF Sums
  <2> QED BY <2>3, <2>6
<1> QED BY <1>4, <1>5

(* Sums of the same numbers are the same. *)
SameUpTo(ns, ms, n) == \A k \in 1..n : ns[k] = ms[k]

LEMMA SumsAgree ==
    ASSUME NEW l \in Nat, NEW n \in 0..l, NEW ns, NEW ms, NEW g, NEW h,
           Sums(g, ns, l), Sums(h, ms, n), SameUpTo(ns, ms, n)
    PROVE  g[n] = h[n]
<1> DEFINE S == {k \in Nat : k <= n /\ g[k] # h[k]}
<1>1. SUFFICES ASSUME S # {} PROVE FALSE
  BY <1>1
<1>2. PICK k \in S : \A i \in S : k <= i
  BY <1>1, LeastNatural
<1>3. /\ \A i \in 0..l : g[i] = IF i = 0 THEN 0 ELSE g[i - 1] + ns[i]
      /\ \A i \in 0..n : h[i] = IF i = 0 THEN 0 ELSE h[i - 1] + ms[i]
  BY DEF Sums
<1>4. k \in 0..l /\ k \in 0..n /\ k <= n
  OBVIOUS
<1>5. k # 0
  BY <1>3, <1>4
<1>6. k - 1 \in Nat /\ k - 1 <= n /\ ~(k <= k - 1) /\ k \in 1..n
  BY <1>4, <1>5
<1>7. g[k - 1] = h[k - 1]
  BY <1>2, <1>6
<1>8. ns[k] = ms[k]
  BY <1>6 DEF SameUpTo
<1> QED BY <1>3, <1>4, <1>5, <1>7, <1>8

LEMMA TotalIs ==
    ASSUME NEW ns \in Seq(Nat), NEW g, Sums(g, ns, Len(ns))
    PROVE  Total(ns) = g[Len(ns)]
<1> DEFINE n == Len(ns)
           c == CHOOSE sum : sum = [k \in 0..n |-> IF k = 0 THEN 0 ELSE sum[k - 1] + ns[k]]
<1>1. Sums(c, ns, n)
  BY DEF Sums
<1>2. Total(ns) = c[n]
  BY DEF Total
<1>3. n \in Nat /\ n \in 0..n
  OBVIOUS
<1> HIDE DEF c, n
<1>4. Sums(g, ns, n) /\ SameUpTo(ns, ns, n)
  BY DEF n, SameUpTo
<1>5. c[n] = g[n]
  BY <1>1, <1>3, <1>4, SumsAgree
<1> QED BY <1>2, <1>5 DEF n

(* A number more adds itself to the total. *)
LEMMA TotalProperties ==
    /\ Total(<<>>) = 0
    /\ \A ns \in Seq(Nat), x \in Nat :
          Total(ns) \in Nat /\ Total(Append(ns, x)) = Total(ns) + x
<1>1. Total(<<>>) = 0
  <2>1. <<>> \in Seq(Nat) /\ Len(<<>>) = 0 /\ 0 \in 0..0
    OBVIOUS
  <2>2. PICK g \in [0..0 -> Nat] : Sums(g, <<>>, 0)
    BY <2>1, SumsExist
  <2>3. g[0] = 0
    BY <2>1, <2>2 DEF Sums
  <2> QED BY <2>1, <2>2, <2>3, TotalIs
<1>2. ASSUME NEW ns \in Seq(Nat), NEW x \in Nat
      PROVE  Total(ns) \in Nat /\ Total(Append(ns, x)) = Total(ns) + x
  <2> DEFINE n == Len(ns)
             ms == Append(ns, x)
  <2>1. /\ n \in Nat /\ ms \in Seq(Nat) /\ Len(ms) = n + 1 /\ ms[n + 1] = x
        /\ \A k \in 1..n : ms[k] = ns[k]
    OBVIOUS
  <2> HIDE DEF ms
  <2>2. n + 1 \in 0..Len(ms) /\ n \in 0..(n + 1) /\ n + 1 \in 0..(n + 1) /\ n + 1 # 0
        /\ (n + 1) - 1 = n
    BY <2>1
  <2>3. PICK g \in [0..(n + 1) -> Nat] : Sums(g, ms, n + 1)
    BY <2>1, <2>2, SumsExist
  <2>4. Total(ms) = g[n + 1]
    BY <2>1, <2>3, TotalIs
  <2>5. g[n + 1] = g[n] + x /\ g[n] \in Nat
    BY <2>1, <2>2, <2>3 DEF Sums
  <2>6. PICK h \in [0..n -> Nat] : Sums(h, ns, n)
    <3>1. n \in 0..Len(ns)
      BY <2>1
    <3> QED BY <3>1, SumsExist
  <2>7. Total(ns) = h[n]
    BY <2>6, TotalIs
  <2>8. g[n] = h[n]
    <3> DEFINE l == n + 1
    <3>1. l \in Nat /\ n \in 0..l
      BY <2>1
    <3>2. Sums(g, ms, l) /\ Sums(h, ns, n) /\ SameUpTo(ms, ns, n)
      BY <2>1, <2>3, <2>6 DEF SameUpTo
    <3> HIDE DEF n, l
    <3> QED BY <3>1, <3>2, SumsAgree
  <2> HIDE DEF n
  <2>9. Total(ns) \in Nat /\ Total(ms) = Total(ns) + x
    BY <2>4, <2>5, <2>7, <2>8
  <2> QED BY <2>9 DEF ms
<1> QED BY <1>1, <1>2

-----------------------------------------------------------------------------
(* The figures of the trades *)

(* A total that stops at the largest number stays there. *)
LEMMA Saturated ==
    ASSUME NEW a \in Nat, NEW x \in Figure
    PROVE  Clamp(a) \in Figure /\ Add(Clamp(a), x) = Clamp(a + x)
<1>1. MaxInt \in Nat /\ MinInt < 0 /\ MinInt \in Int /\ x \in Nat /\ x <= MaxInt
  BY Bounds DEF Figure
<1>2. Clamp(a) \in Figure /\ Clamp(a) = IF a > MaxInt THEN MaxInt ELSE a
  BY <1>1 DEF Clamp, Figure
<1>3. Clamp(a) \in D /\ x \in D
  BY <1>1, <1>2 DEF D, Figure
<1>4. Add(Clamp(a), x) = Clamp(Clamp(a) + x)
  BY <1>3, AddSaturates
<1>5. Clamp(Clamp(a) + x) = Clamp(a + x)
  BY <1>1, <1>2 DEF Clamp
<1> QED BY <1>2, <1>4, <1>5

(* What a trade is made of: its amount is the exact product. *)
Exact(t) ==
    /\ t \in Trade /\ t.price \in Figure /\ t.qty \in Figure /\ t.amount \in Figure
    /\ t.amount = Product(t)

LEMMA TradeExact ==
    ASSUME NEW tick \in Ticks
    PROVE  Exact(NewTradeFromTick(tick))
<1> DEFINE price == FromString(tick.price)
           qty == FromString(tick.qty)
<1>1. /\ price \in 0..MaxInt /\ qty \in 0..MaxInt /\ price * qty <= MaxInt * Scale
  BY TicksAssumption
<1> HIDE DEF price, qty
<1>2. Mul(price, qty) = (price * qty) \div Scale
  BY <1>1, MulIsExact
<1>3. NewTradeFromTick(tick) =
        [price |-> price, qty |-> qty, amount |-> Mul(price, qty), buy |-> tick.buy]
  BY DEF NewTradeFromTick, price, qty
<1> QED BY <1>2, <1>3, TradeProperties DEF Exact, Product

Qty(ts) == [i \in DOMAIN ts |-> ts[i].qty]
Products(ts) == [i \in DOMAIN ts |-> Product(ts[i])]
Bought(ts, ns) == [i \in DOMAIN ts |-> IF ts[i].buy THEN ns[i] ELSE 0]

(* The totals of the trades ts, by definition. *)
Totals(ts) ==
    [vol |-> Clamp(Total(Qty(ts))), amt |-> Clamp(Total(Products(ts))),
     buyVol |-> Clamp(Total(Bought(ts, Qty(ts)))),
     buyAmt |-> Clamp(Total(Bought(ts, Products(ts))))]

(* ns has a number for each trade of ts, and ms the same and x for one trade more. *)
Numbered(ts, ns, us, ms, x) ==
    /\ ns = [i \in DOMAIN ts |-> ns[i]] /\ ms = [i \in DOMAIN us |-> ms[i]]
    /\ \A i \in DOMAIN ts : ns[i] \in Nat /\ ms[i] = ns[i]
    /\ ms[Len(ts) + 1] = x

LEMMA OneMore ==
    ASSUME NEW ts \in Seq(Trade), NEW t \in Trade, NEW ns, NEW ms, NEW x \in Nat,
           Numbered(ts, ns, Append(ts, t), ms, x)
    PROVE  ns \in Seq(Nat) /\ Total(ns) \in Nat /\ Total(ms) = Total(ns) + x
<1> DEFINE n == Len(ts)
           as == Append(ns, x)
<1>1. n \in Nat /\ DOMAIN ts = 1..n /\ DOMAIN Append(ts, t) = 1..(n + 1)
  OBVIOUS
<1>2. ns \in Seq(Nat) /\ Len(ns) = n
  <2>1. ns \in [1..n -> Nat]
    BY <1>1 DEF Numbered
  <2>2. ns \in Seq(Nat)
    BY <1>1, <2>1, SeqDef
  <2> QED BY <1>1, <2>1, <2>2, LenProperties
<1>3. /\ as \in Seq(Nat) /\ Len(as) = n + 1 /\ as[n + 1] = x
      /\ \A i \in 1..n : as[i] = ns[i]
  BY <1>1, <1>2
<1> HIDE DEF as
<1>4. as = [i \in 1..(n + 1) |-> as[i]]
  <2>1. as \in [1..(n + 1) -> Nat]
    BY <1>3, LenProperties
  <2> QED BY <2>1
<1>5. ASSUME NEW i \in 1..(n + 1) PROVE as[i] = ms[i]
  <2>1. i \in 1..n \/ i = n + 1
    BY <1>1
  <2> QED BY <1>1, <1>3, <2>1 DEF Numbered
<1>6. as = ms
  BY <1>1, <1>4, <1>5 DEF Numbered
<1> QED BY <1>2, <1>6, TotalProperties DEF as

(* The trade t adds its part to every total. *)
LEMMA TotalsOfOneMore ==
    ASSUME NEW ts \in Seq(Trade), \A i \in DOMAIN ts : Exact(ts[i]), NEW t, Exact(t)
    PROVE  LET taken(x) == IF t.buy THEN x ELSE 0
               k == Totals(ts)
           IN  Totals(Append(ts, t)) =
                  [vol |-> Add(k.vol, t.qty), amt |-> Add(k.amt, t.amount),
                   buyVol |-> Add(k.buyVol, taken(t.qty)),
                   buyAmt |-> Add(k.buyAmt, taken(t.amount))]
<1> DEFINE n == Len(ts)
           taken(x) == IF t.buy THEN x ELSE 0
           us == Append(ts, t)
<1>1. /\ n \in Nat /\ DOMAIN ts = 1..n /\ DOMAIN us = 1..(n + 1) /\ us[n + 1] = t
      /\ \A i \in 1..n : us[i] = ts[i] /\ i \in 1..(n + 1)
      /\ n + 1 \in 1..(n + 1)
  BY DEF Exact
<1>2. /\ t \in Trade /\ t.qty \in Figure /\ Product(t) \in Figure /\ Product(t) = t.amount
      /\ 0 \in Figure /\ Figure \subseteq Nat
      /\ taken(t.qty) \in Figure /\ taken(Product(t)) \in Figure
  BY Bounds DEF Exact, Figure
<1>3. \A i \in 1..n : ts[i].qty \in Nat /\ Product(ts[i]) \in Nat
  BY <1>1, <1>2 DEF Exact
<1> HIDE DEF us
<1>4. /\ Total(Qty(ts)) \in Nat
      /\ Total(Qty(us)) = Total(Qty(ts)) + t.qty
  <2> DEFINE ns == Qty(ts)
             ms == Qty(us)
  <2>1. ns = [i \in DOMAIN ts |-> ns[i]] /\ ms = [i \in DOMAIN us |-> ms[i]]
    BY DEF Qty
  <2>2. (\A i \in DOMAIN ts : ns[i] \in Nat /\ ms[i] = ns[i]) /\ ms[n + 1] = t.qty
    BY <1>1, <1>3 DEF Qty
  <2>3. t.qty \in Nat
    BY <1>2
  <2> HIDE DEF ns, ms
  <2>4. Numbered(ts, ns, us, ms, t.qty)
    BY <2>1, <2>2 DEF Numbered
  <2>5. Total(ns) \in Nat /\ Total(ms) = Total(ns) + t.qty
    BY <1>2, <2>3, <2>4, OneMore DEF us
  <2> QED BY <2>5 DEF ns, ms
<1>5. /\ Total(Products(ts)) \in Nat
      /\ Total(Products(us)) = Total(Products(ts)) + Product(t)
  <2> DEFINE ns == Products(ts)
             ms == Products(us)
  <2>1. ns = [i \in DOMAIN ts |-> ns[i]] /\ ms = [i \in DOMAIN us |-> ms[i]]
    BY DEF Products
  <2>2. (\A i \in DOMAIN ts : ns[i] \in Nat /\ ms[i] = ns[i]) /\ ms[n + 1] = Product(t)
    BY <1>1, <1>3 DEF Products
  <2>3. Product(t) \in Nat
    BY <1>2
  <2> HIDE DEF ns, ms
  <2>4. Numbered(ts, ns, us, ms, Product(t))
    BY <2>1, <2>2 DEF Numbered
  <2>5. Total(ns) \in Nat /\ Total(ms) = Total(ns) + Product(t)
    BY <1>2, <2>3, <2>4, OneMore DEF us
  <2> QED BY <2>5 DEF ns, ms
<1>6. /\ Total(Bought(ts, Qty(ts))) \in Nat
      /\ Total(Bought(us, Qty(us))) = Total(Bought(ts, Qty(ts))) + taken(t.qty)
  <2> DEFINE ns == Bought(ts, Qty(ts))
             ms == Bought(us, Qty(us))
             x == taken(t.qty)
  <2>1. ns = [i \in DOMAIN ts |-> ns[i]] /\ ms = [i \in DOMAIN us |-> ms[i]]
    BY DEF Bought
  <2>2. (\A i \in DOMAIN ts : ns[i] \in Nat /\ ms[i] = ns[i]) /\ ms[n + 1] = x
    BY <1>1, <1>3 DEF Bought, Qty
  <2>3. x \in Nat
    BY <1>2
  <2> HIDE DEF ns, ms, x
  <2>4. Numbered(ts, ns, us, ms, x)
    BY <2>1, <2>2 DEF Numbered
  <2>5. Total(ns) \in Nat /\ Total(ms) = Total(ns) + x
    BY <1>2, <2>3, <2>4, OneMore DEF us
  <2> QED BY <2>5 DEF ns, ms, x
<1>7. /\ Total(Bought(ts, Products(ts))) \in Nat
      /\ Total(Bought(us, Products(us))) = Total(Bought(ts, Products(ts))) + taken(Product(t))
  <2> DEFINE ns == Bought(ts, Products(ts))
             ms == Bought(us, Products(us))
             x == taken(Product(t))
  <2>1. ns = [i \in DOMAIN ts |-> ns[i]] /\ ms = [i \in DOMAIN us |-> ms[i]]
    BY DEF Bought
  <2>2. (\A i \in DOMAIN ts : ns[i] \in Nat /\ ms[i] = ns[i]) /\ ms[n + 1] = x
    BY <1>1, <1>3 DEF Bought, Products
  <2>3. x \in Nat
    BY <1>2
  <2> HIDE DEF ns, ms, x
  <2>4. Numbered(ts, ns, us, ms, x)
    BY <2>1, <2>2 DEF Numbered
  <2>5. Total(ns) \in Nat /\ Total(ms) = Total(ns) + x
    BY <1>2, <2>3, <2>4, OneMore DEF us
  <2> QED BY <2>5 DEF ns, ms, x
<1> HIDE DEF taken
<1>8. /\ Clamp(Total(Qty(us))) = Add(Clamp(Total(Qty(ts))), t.qty)
      /\ Clamp(Total(Products(us))) = Add(Clamp(Total(Products(ts))), t.amount)
      /\ Clamp(Total(Bought(us, Qty(us)))) = Add(Clamp(Total(Bought(ts, Qty(ts)))), taken(t.qty))
      /\ Clamp(Total(Bought(us, Products(us)))) =
            Add(Clamp(Total(Bought(ts, Products(ts)))), taken(t.amount))
  <2>1. ASSUME NEW a \in Nat, NEW b, NEW x \in Figure, b = a + x
        PROVE  Clamp(b) = Add(Clamp(a), x)
    BY <2>1, Saturated
  <2>2. Clamp(Total(Qty(us))) = Add(Clamp(Total(Qty(ts))), t.qty)
    BY <1>2, <1>4, <2>1
  <2>3. Clamp(Total(Products(us))) = Add(Clamp(Total(Products(ts))), t.amount)
    BY <1>2, <1>5, <2>1
  <2>4. Clamp(Total(Bought(us, Qty(us)))) = Add(Clamp(Total(Bought(ts, Qty(ts)))), taken(t.qty))
    BY <1>2, <1>6, <2>1
  <2>5. Clamp(Total(Bought(us, Products(us)))) =
          Add(Clamp(Total(Bought(ts, Products(ts)))), taken(t.amount))
    BY <1>2, <1>7, <2>1
  <2> QED BY <2>2, <2>3, <2>4, <2>5
<1> QED BY <1>8 DEF Totals, us, taken

LEMMA TotalsOfNothing ==
    /\ Totals(<<>>) = [vol |-> 0, amt |-> 0, buyVol |-> 0, buyAmt |-> 0]
<1>1. DOMAIN <<>> = {}
  OBVIOUS
<1>2. Qty(<<>>) = <<>> /\ Products(<<>>) = <<>>
  BY <1>1 DEF Qty, Products
<1>3. Bought(<<>>, <<>>) = <<>>
  BY <1>1 DEF Bought
<1>4. Clamp(0) = 0
  BY Bounds DEF Clamp
<1> QED BY <1>2, <1>3, <1>4, TotalProperties DEF Totals

-----------------------------------------------------------------------------
(* The live kline holds the figures of its trades *)

TotalsOf(k) == [vol |-> k.vol, amt |-> k.amt, buyVol |-> k.buyVol, buyAmt |-> k.buyAmt]

(* The wide kline has the totals of the trades. *)
TotalsRight ==
    /\ \A i \in DOMAIN trades : Exact(trades[i])
    /\ TotalsOf(wide) = Totals(trades)

LEMMA UpdateTotals ==
    ASSUME NEW ts \in Seq(Trade), \A i \in DOMAIN ts : Exact(ts[i]), NEW t, Exact(t),
           NEW k \in Kline, TotalsOf(k) = Totals(ts)
    PROVE  TotalsOf(Update(k, t)) = Totals(Append(ts, t))
<1> DEFINE taken(x) == IF t.buy THEN x ELSE 0
           u == Update(k, t)
           old == Totals(ts)
<1>1. /\ u.vol = Add(k.vol, t.qty) /\ u.amt = Add(k.amt, t.amount)
      /\ u.buyVol = Add(k.buyVol, taken(t.qty)) /\ u.buyAmt = Add(k.buyAmt, taken(t.amount))
  BY DEF Update, Kline
<1>2. /\ k.vol = old.vol /\ k.amt = old.amt /\ k.buyVol = old.buyVol /\ k.buyAmt = old.buyAmt
  <2> HIDE DEF old
  <2>1. TotalsOf(k) = old
    BY DEF old
  <2> QED BY <2>1 DEF TotalsOf
<1>3. Totals(Append(ts, t)) =
        [vol |-> Add(old.vol, t.qty), amt |-> Add(old.amt, t.amount),
         buyVol |-> Add(old.buyVol, taken(t.qty)), buyAmt |-> Add(old.buyAmt, taken(t.amount))]
  BY TotalsOfOneMore
<1> HIDE DEF u, old, taken
<1> QED BY <1>1, <1>2, <1>3 DEF TotalsOf, u

(* The highest and the lowest of some numbers. *)
LEMMA Highest ==
    ASSUME NEW S \in SUBSET Int, NEW h \in S, \A x \in S : x <= h
    PROVE  Max(S) = h
<1>1. \A x \in S : h >= x
  OBVIOUS
<1>2. Max(S) \in S /\ \A x \in S : Max(S) >= x
  BY <1>1 DEF Max
<1>3. Max(S) >= h /\ h >= Max(S) /\ Max(S) \in Int /\ h \in Int
  BY <1>1, <1>2
<1> HIDE DEF Max
<1> QED BY <1>3

LEMMA Lowest ==
    ASSUME NEW S \in SUBSET Int, NEW l \in S, \A x \in S : l <= x
    PROVE  Min(S) = l
<1>2. Min(S) \in S /\ \A x \in S : Min(S) <= x
  BY DEF Min
<1>3. Min(S) <= l /\ l <= Min(S) /\ Min(S) \in Int /\ l \in Int
  BY <1>2
<1> QED BY <1>3

LEMMA FiguresFromTotals == CandleInv /\ TotalsRight => KlineRight
<1> SUFFICES ASSUME CandleInv, TotalsRight, trades # <<>> PROVE Agree(wide, Figures(trades))
  BY DEF KlineRight
<1> DEFINE n == Len(trades)
           prices == {trades[i].price : i \in DOMAIN trades}
           all == Totals(trades)
<1>1. /\ trades \in Seq(Trade) /\ n \in Nat /\ n # 0 /\ DOMAIN trades = 1..n
      /\ 1 \in DOMAIN trades /\ n \in DOMAIN trades
  BY DEF CandleInv, TypeOK
<1>2. /\ wide.open = trades[1].price /\ wide.close = trades[n].price /\ wide.count = n
      /\ \A x \in prices : wide.low <= x /\ x <= wide.high
      /\ wide.high \in prices /\ wide.low \in prices
  BY DEF CandleInv, FiguresSound, PricesRight
<1>3. prices \in SUBSET Int
  <2>1. \A i \in DOMAIN trades : trades[i] \in Trade
    BY <1>1
  <2> QED BY <2>1, Bounds DEF Trade, D
<1>4. Head(trades) = trades[1] /\ Last(trades) = trades[n]
  BY <1>1 DEF Last
<1>5. Max(prices) = wide.high /\ Min(prices) = wide.low
  <2> HIDE DEF prices
  <2> QED BY <1>2, <1>3, Highest, Lowest
<1>6. /\ all.vol = wide.vol /\ all.amt = wide.amt
      /\ all.buyVol = wide.buyVol /\ all.buyAmt = wide.buyAmt
  <2>1. all = TotalsOf(wide)
    BY DEF TotalsRight
  <2> HIDE DEF all
  <2> QED BY <2>1 DEF TotalsOf
<1>7. Figures(trades) =
        [open |-> Head(trades).price, high |-> Max(prices), low |-> Min(prices),
         close |-> Last(trades).price, vol |-> all.vol, amt |-> all.amt,
         buyVol |-> all.buyVol, buyAmt |-> all.buyAmt, count |-> n]
  BY DEF Figures, Totals, Qty, Products, Bought
<1> HIDE DEF prices, n, all
<1> QED BY <1>2, <1>4, <1>5, <1>6, <1>7 DEF Agree

(* However many trades come, and whatever their size, the live kline holds the
   figures of its trades. *)
THEOREM KlineAlwaysRight == Spec => []KlineRight
<1>1. Init => CandleInv /\ TotalsRight
  <2> SUFFICES ASSUME Init PROVE TotalsRight
    BY InitSound
  <2>1. trades = <<>> /\ wide = NewKline(0) /\ DOMAIN trades = {}
    BY DEF Init
  <2> QED BY <2>1, TotalsOfNothing DEF TotalsRight, TotalsOf, NewKline
<1>2. ASSUME CandleInv, TotalsRight, NEW tick \in Ticks, NEW later \in BOOLEAN,
             AddTrade(tick, later)
      PROVE  TotalsRight'
  <2> DEFINE t == NewTradeFromTick(tick)
             base == IF trades = <<>> THEN NewKline(t.price) ELSE wide
  <2>1. Exact(t) /\ t \in Trade /\ t.price \in D
    BY TradeExact DEF Exact, Trade
  <2>2. trades' = Append(trades, t) /\ wide' = Update(base, t)
    BY <1>2 DEF AddTrade
  <2>3. trades \in Seq(Trade) /\ wide \in Kline /\ \A i \in DOMAIN trades : Exact(trades[i])
    BY <1>2 DEF CandleInv, TypeOK, TotalsRight
  <2> HIDE DEF t
  <2>4. base \in Kline /\ TotalsOf(base) = Totals(trades)
    <3>1. CASE trades = <<>>
      <4>1. NewKline(t.price) \in Kline
        BY <2>1, NewKlineProperties
      <4>2. TotalsOf(NewKline(t.price)) = Totals(<<>>)
        BY TotalsOfNothing DEF TotalsOf, NewKline
      <4> QED BY <3>1, <4>1, <4>2
    <3>2. CASE trades # <<>>
      BY <1>2, <2>3, <3>2 DEF TotalsRight
    <3> QED BY <3>1, <3>2
  <2> HIDE DEF base
  <2>5. TotalsOf(wide') = Totals(trades')
    BY <2>1, <2>2, <2>3, <2>4, UpdateTotals
  <2>6. \A i \in DOMAIN trades' : Exact(trades'[i])
    <3> DEFINE n == Len(trades)
    <3>1. /\ n \in Nat /\ DOMAIN trades = 1..n /\ DOMAIN trades' = 1..(n + 1)
          /\ trades'[n + 1] = t /\ \A i \in 1..n : trades'[i] = trades[i]
          /\ \A i \in 1..(n + 1) : i \in 1..n \/ i = n + 1
      BY <2>1, <2>2, <2>3
    <3> HIDE DEF n
    <3> QED BY <2>1, <2>3, <3>1
  <2> QED BY <2>5, <2>6 DEF TotalsRight
<1>3. ASSUME CandleInv, TotalsRight, Save PROVE TotalsRight'
  <2>1. wide \in Kline /\ wide' = ComputeAvg(wide) /\ trades' = trades
    BY <1>3 DEF Save, CandleInv, TypeOK
  <2>2. TotalsOf(ComputeAvg(wide)) = TotalsOf(wide)
    BY <2>1 DEF ComputeAvg, TotalsOf, Kline
  <2> QED BY <1>3, <2>1, <2>2 DEF TotalsRight
<1>4. (CandleInv /\ TotalsRight) /\ [Next]_candle => (CandleInv /\ TotalsRight)'
  <2> SUFFICES ASSUME CandleInv, TotalsRight, [Next]_candle PROVE CandleInv' /\ TotalsRight'
    OBVIOUS
  <2>1. CASE UNCHANGED candle
    BY <2>1 DEF candle, CandleInv, TypeOK, FiguresSound, PricesRight, TotalsRight
  <2> QED BY <1>2, <1>3, <2>1, AddTradeSound, SaveSound DEF Next
<1> QED BY <1>1, <1>4, FiguresFromTotals, PTL DEF Spec

-----------------------------------------------------------------------------
(* Klines alike *)

(* The figures of two klines are the same, but for the close and the average. *)
Alike(k, l) ==
    /\ k.open = l.open /\ k.high = l.high /\ k.low = l.low /\ k.count = l.count
    /\ k.vol = l.vol /\ k.amt = l.amt /\ k.buyVol = l.buyVol /\ k.buyAmt = l.buyAmt

LEMMA UpdateFields ==
    ASSUME NEW k \in Kline, NEW t
    PROVE  LET taken(x) == IF t.buy THEN x ELSE 0
               u == Update(k, t)
           IN  /\ u.open = k.open /\ u.close = t.price /\ u.count = k.count + 1 /\ u.avg = k.avg
               /\ u.high = Higher(t.price, k.high) /\ u.low = Lower(t.price, k.low)
               /\ u.vol = Add(k.vol, t.qty) /\ u.amt = Add(k.amt, t.amount)
               /\ u.buyVol = Add(k.buyVol, taken(t.qty))
               /\ u.buyAmt = Add(k.buyAmt, taken(t.amount))
  BY DEF Update, Kline

LEMMA IncludeFields ==
    ASSUME NEW m \in Kline, NEW k
    PROVE  LET u == Include(m, k)
           IN  /\ u.open = m.open /\ u.close = m.close /\ u.count = m.count + k.count
               /\ u.avg = m.avg
               /\ u.high = Higher(k.high, m.high) /\ u.low = Lower(k.low, m.low)
               /\ u.vol = Add(m.vol, k.vol) /\ u.amt = Add(m.amt, k.amt)
               /\ u.buyVol = Add(m.buyVol, k.buyVol) /\ u.buyAmt = Add(m.buyAmt, k.buyAmt)
  BY DEF Include, Kline

LEMMA KlineFields ==
    ASSUME NEW k \in Kline
    PROVE  /\ k.open \in D /\ k.high \in D /\ k.low \in D /\ k.close \in D /\ k.avg \in D
           /\ k.vol \in Figure /\ k.amt \in Figure /\ k.buyVol \in Figure /\ k.buyAmt \in Figure
           /\ k.count \in Nat
  BY DEF Kline, Figure

LEMMA IncludeType ==
    ASSUME NEW m \in Kline, NEW k \in Kline
    PROVE  Include(m, k) \in Kline
<1> DEFINE u == Include(m, k)
<1>1. /\ u.vol \in Figure /\ u.amt \in Figure /\ u.buyVol \in Figure /\ u.buyAmt \in Figure
  <2>1. /\ u.vol = Add(m.vol, k.vol) /\ u.amt = Add(m.amt, k.amt)
        /\ u.buyVol = Add(m.buyVol, k.buyVol) /\ u.buyAmt = Add(m.buyAmt, k.buyAmt)
    BY IncludeFields
  <2>2. \A a \in Figure, b \in Figure : Add(a, b) \in Figure
    BY SumOfFigures
  <2> HIDE DEF u
  <2> QED BY <2>1, <2>2, KlineFields
<1>2. u.high \in D /\ u.low \in D /\ u.count \in Nat
  <2>1. \A a \in D, b \in D : Higher(a, b) \in D /\ Lower(a, b) \in D
    BY DEF Higher, Lower
  <2> QED BY <2>1, IncludeFields, KlineFields
<1>3. m.open \in D /\ m.close \in D /\ m.avg \in D
  BY KlineFields
<1>4. u = [open |-> m.open, high |-> u.high, low |-> u.low, close |-> m.close, vol |-> u.vol,
           amt |-> u.amt, buyVol |-> u.buyVol, buyAmt |-> u.buyAmt, count |-> u.count,
           avg |-> m.avg]
  <2>1. m = [open |-> m.open, high |-> m.high, low |-> m.low, close |-> m.close,
             vol |-> m.vol, amt |-> m.amt, buyVol |-> m.buyVol, buyAmt |-> m.buyAmt,
             count |-> m.count, avg |-> m.avg]
    BY DEF Kline
  <2>2. u = [m EXCEPT !.high = u.high, !.low = u.low, !.vol = u.vol, !.amt = u.amt,
                      !.count = u.count, !.buyVol = u.buyVol, !.buyAmt = u.buyAmt]
    BY IncludeFields DEF Include
  <2> HIDE DEF u
  <2> QED BY <2>1, <2>2
<1> HIDE DEF u
<1>5. u \in Kline
  BY <1>1, <1>2, <1>3, <1>4 DEF Kline, Figure
<1> QED BY <1>5 DEF u

(* Sums that stop at the largest number can be added in any grouping, and so can
   the highest and the lowest. *)
LEMMA AddGroups ==
    /\ \A a \in Figure, b \in Figure, c \in Figure : Add(a, Add(b, c)) = Add(Add(a, b), c)
    /\ \A a \in Figure : Add(0, a) = a
<1>1. MaxInt \in Nat /\ MinInt < 0 /\ MinInt \in Int /\ Figure \subseteq D /\ 0 \in Figure
  BY Bounds DEF Figure, D
<1>2. \A a \in Figure, b \in Figure :
         Add(a, b) = (IF a + b > MaxInt THEN MaxInt ELSE a + b) /\ Add(a, b) \in Figure
  <2> SUFFICES ASSUME NEW a \in Figure, NEW b \in Figure
               PROVE Add(a, b) = (IF a + b > MaxInt THEN MaxInt ELSE a + b) /\ Add(a, b) \in Figure
    OBVIOUS
  <2>1. Add(a, b) = Clamp(a + b)
    BY <1>1, AddSaturates
  <2> QED BY <1>1, <2>1 DEF Clamp, Figure
<1>3. ASSUME NEW a \in Figure, NEW b \in Figure, NEW c \in Figure
      PROVE  Add(a, Add(b, c)) = Add(Add(a, b), c)
  <2>1. a \in Nat /\ b \in Nat /\ c \in Nat /\ a <= MaxInt /\ b <= MaxInt /\ c <= MaxInt
    BY <1>1 DEF Figure
  <2>2. Add(b, c) \in Figure /\ Add(a, b) \in Figure
    BY <1>2
  <2>3. /\ Add(a, Add(b, c)) = IF a + Add(b, c) > MaxInt THEN MaxInt ELSE a + Add(b, c)
        /\ Add(Add(a, b), c) = IF Add(a, b) + c > MaxInt THEN MaxInt ELSE Add(a, b) + c
        /\ Add(b, c) = IF b + c > MaxInt THEN MaxInt ELSE b + c
        /\ Add(a, b) = IF a + b > MaxInt THEN MaxInt ELSE a + b
    BY <1>2, <2>2
  <2> QED BY <1>1, <2>1, <2>3
<1>4. ASSUME NEW a \in Figure PROVE Add(0, a) = a
  <2>1. a \in Nat /\ a <= MaxInt
    BY <1>1 DEF Figure
  <2> QED BY <1>1, <1>2, <2>1
<1> QED BY <1>3, <1>4

LEMMA ExtremesGroup ==
    ASSUME NEW a \in Int, NEW b \in Int, NEW c \in Int
    PROVE  /\ Higher(Higher(a, b), c) = Higher(a, Higher(b, c))
           /\ Lower(Lower(a, b), c) = Lower(a, Lower(b, c))
           /\ Higher(a, a) = a /\ Lower(a, a) = a
  BY DEF Higher, Lower

LEMMA AlikeSteps ==
    ASSUME NEW m \in Kline, NEW n \in Kline, Alike(m, n)
    PROVE  /\ \A t : Alike(Update(m, t), Update(n, t))
           /\ \A k, l : Alike(k, l) => Alike(Include(m, k), Include(n, l))
<1>1. ASSUME NEW t PROVE Alike(Update(m, t), Update(n, t))
  <2> DEFINE taken(x) == IF t.buy THEN x ELSE 0
             u == Update(m, t)
             w == Update(n, t)
  <2>1. /\ u.open = m.open /\ u.count = m.count + 1
        /\ u.high = Higher(t.price, m.high) /\ u.low = Lower(t.price, m.low)
        /\ u.vol = Add(m.vol, t.qty) /\ u.amt = Add(m.amt, t.amount)
        /\ u.buyVol = Add(m.buyVol, taken(t.qty)) /\ u.buyAmt = Add(m.buyAmt, taken(t.amount))
    BY UpdateFields
  <2>2. /\ w.open = n.open /\ w.count = n.count + 1
        /\ w.high = Higher(t.price, n.high) /\ w.low = Lower(t.price, n.low)
        /\ w.vol = Add(n.vol, t.qty) /\ w.amt = Add(n.amt, t.amount)
        /\ w.buyVol = Add(n.buyVol, taken(t.qty)) /\ w.buyAmt = Add(n.buyAmt, taken(t.amount))
    BY UpdateFields
  <2> HIDE DEF taken, u, w
  <2>3. Alike(u, w)
    BY <2>1, <2>2 DEF Alike
  <2> QED BY <2>3 DEF u, w
<1>2. ASSUME NEW k, NEW l, Alike(k, l) PROVE Alike(Include(m, k), Include(n, l))
  BY <1>2, IncludeFields DEF Alike
<1> QED BY <1>1, <1>2

(* Including a kline that took one trade more is including the kline and taking
   the trade, *)
LEMMA IncludeUpdate ==
    ASSUME NEW m \in Kline, NEW k \in Kline, NEW t, Exact(t)
    PROVE  Alike(Include(m, Update(k, t)), Update(Include(m, k), t))
<1> DEFINE taken(x) == IF t.buy THEN x ELSE 0
           u == Update(k, t)
           i == Include(m, k)
           v == Include(m, u)
           w == Update(i, t)
<1>1. i \in Kline
  BY IncludeType
<1>2. /\ t.qty \in Figure /\ t.amount \in Figure /\ t.price \in Int
      /\ taken(t.qty) \in Figure /\ taken(t.amount) \in Figure
  BY Bounds DEF Exact, Figure
<1>3. /\ u.count = k.count + 1
      /\ u.high = Higher(t.price, k.high) /\ u.low = Lower(t.price, k.low)
      /\ u.vol = Add(k.vol, t.qty) /\ u.amt = Add(k.amt, t.amount)
      /\ u.buyVol = Add(k.buyVol, taken(t.qty)) /\ u.buyAmt = Add(k.buyAmt, taken(t.amount))
  BY UpdateFields
<1>4. /\ i.open = m.open /\ i.count = m.count + k.count
      /\ i.high = Higher(k.high, m.high) /\ i.low = Lower(k.low, m.low)
      /\ i.vol = Add(m.vol, k.vol) /\ i.amt = Add(m.amt, k.amt)
      /\ i.buyVol = Add(m.buyVol, k.buyVol) /\ i.buyAmt = Add(m.buyAmt, k.buyAmt)
  BY IncludeFields
<1>5. /\ v.open = m.open /\ v.count = m.count + u.count
      /\ v.high = Higher(u.high, m.high) /\ v.low = Lower(u.low, m.low)
      /\ v.vol = Add(m.vol, u.vol) /\ v.amt = Add(m.amt, u.amt)
      /\ v.buyVol = Add(m.buyVol, u.buyVol) /\ v.buyAmt = Add(m.buyAmt, u.buyAmt)
  BY IncludeFields
<1>6. /\ w.open = i.open /\ w.count = i.count + 1
      /\ w.high = Higher(t.price, i.high) /\ w.low = Lower(t.price, i.low)
      /\ w.vol = Add(i.vol, t.qty) /\ w.amt = Add(i.amt, t.amount)
      /\ w.buyVol = Add(i.buyVol, taken(t.qty)) /\ w.buyAmt = Add(i.buyAmt, taken(t.amount))
  BY <1>1, UpdateFields
<1>7. /\ m.vol \in Figure /\ m.amt \in Figure /\ m.buyVol \in Figure /\ m.buyAmt \in Figure
      /\ k.vol \in Figure /\ k.amt \in Figure /\ k.buyVol \in Figure /\ k.buyAmt \in Figure
      /\ m.count \in Nat /\ k.count \in Nat
      /\ m.high \in Int /\ m.low \in Int /\ k.high \in Int /\ k.low \in Int
  BY KlineFields, Bounds DEF D
<1> HIDE DEF u, i, v, w, taken
<1>8. /\ v.vol = w.vol /\ v.amt = w.amt /\ v.buyVol = w.buyVol /\ v.buyAmt = w.buyAmt
  BY <1>2, <1>3, <1>4, <1>5, <1>6, <1>7, AddGroups
<1>9. v.high = w.high /\ v.low = w.low
  BY <1>2, <1>3, <1>4, <1>5, <1>6, <1>7, ExtremesGroup
<1>10. v.open = w.open /\ v.count = w.count
  BY <1>3, <1>4, <1>5, <1>6, <1>7
<1>11. Alike(v, w)
  BY <1>8, <1>9, <1>10 DEF Alike
<1> QED BY <1>11 DEF u, i, v, w

(* and including a new kline of one trade is taking the trade. *)
LEMMA IncludeNew ==
    ASSUME NEW m \in Kline, NEW t, Exact(t)
    PROVE  Alike(Include(m, Update(NewKline(t.price), t)), Update(m, t))
<1> DEFINE taken(x) == IF t.buy THEN x ELSE 0
           k == NewKline(t.price)
           u == Update(k, t)
           v == Include(m, u)
           w == Update(m, t)
<1>1. /\ t.qty \in Figure /\ t.amount \in Figure /\ t.price \in Int /\ t.price \in D
      /\ taken(t.qty) \in Figure /\ taken(t.amount) \in Figure
  BY Bounds DEF Exact, Figure, D
<1>2. k \in Kline
  BY <1>1, NewKlineProperties
<1>3. /\ k.high = t.price /\ k.low = t.price /\ k.count = 0
      /\ k.vol = 0 /\ k.amt = 0 /\ k.buyVol = 0 /\ k.buyAmt = 0
  BY DEF NewKline
<1>4. /\ u.count = k.count + 1
      /\ u.high = Higher(t.price, k.high) /\ u.low = Lower(t.price, k.low)
      /\ u.vol = Add(k.vol, t.qty) /\ u.amt = Add(k.amt, t.amount)
      /\ u.buyVol = Add(k.buyVol, taken(t.qty)) /\ u.buyAmt = Add(k.buyAmt, taken(t.amount))
  BY <1>2, UpdateFields
<1>5. /\ v.open = m.open /\ v.count = m.count + u.count
      /\ v.high = Higher(u.high, m.high) /\ v.low = Lower(u.low, m.low)
      /\ v.vol = Add(m.vol, u.vol) /\ v.amt = Add(m.amt, u.amt)
      /\ v.buyVol = Add(m.buyVol, u.buyVol) /\ v.buyAmt = Add(m.buyAmt, u.buyAmt)
  BY IncludeFields
<1>6. /\ w.open = m.open /\ w.count = m.count + 1
      /\ w.high = Higher(t.price, m.high) /\ w.low = Lower(t.price, m.low)
      /\ w.vol = Add(m.vol, t.qty) /\ w.amt = Add(m.amt, t.amount)
      /\ w.buyVol = Add(m.buyVol, taken(t.qty)) /\ w.buyAmt = Add(m.buyAmt, taken(t.amount))
  BY UpdateFields
<1>7. m.count \in Nat
  BY KlineFields
<1> HIDE DEF k, u, v, w, taken
<1>8. /\ v.vol = w.vol /\ v.amt = w.amt /\ v.buyVol = w.buyVol /\ v.buyAmt = w.buyAmt
  BY <1>1, <1>3, <1>4, <1>5, <1>6, AddGroups
<1>9. v.high = w.high /\ v.low = w.low
  BY <1>1, <1>3, <1>4, <1>5, <1>6, ExtremesGroup
<1>10. v.open = w.open /\ v.count = w.count
  BY <1>3, <1>4, <1>5, <1>6, <1>7
<1>11. Alike(v, w)
  BY <1>8, <1>9, <1>10 DEF Alike
<1> QED BY <1>11 DEF k, u, v, w

-----------------------------------------------------------------------------
(* Merging klines *)

(* g holds the klines that the loop of mergeOneMKlines makes of first and of the
   klines ks up to the n-th. *)
Merging(g, ks, first, n) ==
    g = [k \in 0..n |-> IF k = 0 THEN first ELSE Include(g[k - 1], ks[k])]

(* What the loop starts with, and the kline it leaves. *)
First(ks) ==
    [NewKline(Head(ks).open) EXCEPT !.high = Head(ks).high, !.low = Head(ks).low,
                                    !.close = Last(ks).close]
Joined(ks) ==
    LET merged[n \in 0..Len(ks)] == IF n = 0 THEN First(ks) ELSE Include(merged[n - 1], ks[n])
    IN  merged[Len(ks)]

LEMMA MergeOfJoined == \A ks : Merge(ks) = ComputeAvg(Joined(ks))
  BY DEF Merge, Joined, First

LEMMA MergingExists ==
    ASSUME NEW ks \in Seq(Kline), NEW first \in Kline, NEW n \in 0..Len(ks)
    PROVE  \E g \in [0..n -> Kline] : Merging(g, ks, first, n)
<1> DEFINE S == {m \in Nat : m <= Len(ks) /\ ~\E g \in [0..m -> Kline] : Merging(g, ks, first, m)}
<1>1. SUFFICES ASSUME S # {} PROVE FALSE
  <2>1. n \in Nat /\ n <= Len(ks)
    OBVIOUS
  <2> QED BY <1>1, <2>1
<1>2. PICK m \in S : \A l \in S : m <= l
  BY <1>1, LeastNatural
<1>3. m \in Nat /\ m <= Len(ks) /\ Len(ks) \in Nat
  OBVIOUS
<1>4. CASE m = 0
  <2> DEFINE g == [k \in 0..0 |-> first]
  <2>1. /\ g \in [0..m -> Kline]
        /\ g = [k \in 0..m |-> IF k = 0 THEN first ELSE Include(g[k - 1], ks[k])]
    BY <1>4
  <2> QED BY <2>1 DEF Merging
<1>5. CASE m # 0
  <2>1. m - 1 \in Nat /\ m - 1 <= Len(ks) /\ ~(m <= m - 1) /\ m \in 1..Len(ks) /\ m \in 0..m
    BY <1>3, <1>5
  <2>2. PICK g \in [0..(m - 1) -> Kline] : Merging(g, ks, first, m - 1)
    BY <1>2, <2>1
  <2> DEFINE h == [k \in 0..m |-> IF k = m THEN Include(g[m - 1], ks[m]) ELSE g[k]]
  <2>3. h \in [0..m -> Kline]
    <3>1. ks[m] \in Kline
      BY <2>1, ElementOfSeq
    <3>2. \A k \in 0..m : k # m => k \in 0..(m - 1)
      BY <1>3
    <3>3. m - 1 \in 0..(m - 1)
      BY <2>1
    <3>4. Include(g[m - 1], ks[m]) \in Kline
      BY <3>1, <3>3, IncludeType
    <3> QED BY <3>2, <3>4
  <2>4. ASSUME NEW k \in 0..m PROVE h[k] = IF k = 0 THEN first ELSE Include(h[k - 1], ks[k])
    <3>1. \A i \in 0..(m - 1) : g[i] = IF i = 0 THEN first ELSE Include(g[i - 1], ks[i])
      BY <2>2 DEF Merging
    <3>2. CASE k = m
      <4>1. k - 1 \in 0..m /\ k - 1 # m /\ k # 0
        BY <1>3, <1>5, <3>2
      <4> QED BY <3>2, <4>1
    <3>3. CASE k # m
      <4>1. k \in 0..(m - 1) /\ (k # 0 => k - 1 \in 0..m /\ k - 1 # m)
        BY <1>3, <3>3
      <4> QED BY <3>1, <3>3, <4>1
    <3> QED BY <3>2, <3>3
  <2>5. h = [k \in 0..m |-> h[k]]
    OBVIOUS
  <2> HIDE DEF h
  <2>6. Merging(h, ks, first, m)
    BY <2>4, <2>5 DEF Merging
  <2> QED BY <2>3, <2>6
<1> QED BY <1>4, <1>5

(* The loop makes the same of the same, *)
LEMMA MergingSame ==
    ASSUME NEW n \in Nat, NEW ks, NEW first, NEW g, NEW h,
           Merging(g, ks, first, n), Merging(h, ks, first, n)
    PROVE  g[n] = h[n]
<1> DEFINE S == {k \in Nat : k <= n /\ g[k] # h[k]}
<1>1. SUFFICES ASSUME S # {} PROVE FALSE
  BY <1>1
<1>2. PICK k \in S : \A i \in S : k <= i
  BY <1>1, LeastNatural
<1>3. /\ \A i \in 0..n : g[i] = IF i = 0 THEN first ELSE Include(g[i - 1], ks[i])
      /\ \A i \in 0..n : h[i] = IF i = 0 THEN first ELSE Include(h[i - 1], ks[i])
  BY DEF Merging
<1>4. k \in 0..n /\ k <= n
  OBVIOUS
<1>5. k # 0
  BY <1>3, <1>4
<1>6. k - 1 \in Nat /\ k - 1 <= n /\ ~(k <= k - 1)
  BY <1>4, <1>5
<1>7. g[k - 1] = h[k - 1]
  BY <1>2, <1>6
<1> QED BY <1>3, <1>4, <1>5, <1>7

(* and alike klines of alike ones, *)
LEMMA MergingAlike ==
    ASSUME NEW n \in Nat, NEW l \in Nat, n <= l, NEW ks, NEW js, NEW f, NEW e,
           NEW g \in [0..l -> Kline], NEW h \in [0..n -> Kline],
           Merging(g, ks, f, l), Merging(h, js, e, n),
           Alike(f, e), \A k \in 1..n : Alike(ks[k], js[k])
    PROVE  Alike(g[n], h[n])
<1> DEFINE S == {k \in Nat : k <= n /\ ~Alike(g[k], h[k])}
<1>1. SUFFICES ASSUME S # {} PROVE FALSE
  BY <1>1
<1>2. PICK k \in S : \A i \in S : k <= i
  BY <1>1, LeastNatural
<1>3. /\ \A i \in 0..l : g[i] = IF i = 0 THEN f ELSE Include(g[i - 1], ks[i])
      /\ \A i \in 0..n : h[i] = IF i = 0 THEN e ELSE Include(h[i - 1], js[i])
  BY DEF Merging
<1>4. k \in 0..n /\ k \in 0..l /\ k <= n
  OBVIOUS
<1>5. k # 0
  BY <1>3, <1>4
<1>6. /\ k - 1 \in Nat /\ k - 1 <= n /\ ~(k <= k - 1) /\ k \in 1..n
      /\ k - 1 \in 0..l /\ k - 1 \in 0..n
  BY <1>4, <1>5
<1>7. Alike(g[k - 1], h[k - 1]) /\ g[k - 1] \in Kline /\ h[k - 1] \in Kline
  BY <1>2, <1>6
<1>8. Alike(Include(g[k - 1], ks[k]), Include(h[k - 1], js[k]))
  BY <1>6, <1>7, AlikeSteps
<1> QED BY <1>3, <1>4, <1>5, <1>8

(* and leaves the close and the average alone. *)
LEMMA MergingKeeps ==
    ASSUME NEW n \in Nat, NEW ks, NEW f, NEW g \in [0..n -> Kline], Merging(g, ks, f, n)
    PROVE  g[n].close = f.close /\ g[n].avg = f.avg
<1> DEFINE S == {k \in Nat : k <= n /\ ~(g[k].close = f.close /\ g[k].avg = f.avg)}
<1>1. SUFFICES ASSUME S # {} PROVE FALSE
  BY <1>1
<1>2. PICK k \in S : \A i \in S : k <= i
  BY <1>1, LeastNatural
<1>3. \A i \in 0..n : g[i] = IF i = 0 THEN f ELSE Include(g[i - 1], ks[i])
  BY DEF Merging
<1>4. k \in 0..n /\ k <= n
  OBVIOUS
<1>5. k # 0
  BY <1>3, <1>4
<1>6. k - 1 \in Nat /\ k - 1 <= n /\ ~(k <= k - 1) /\ k - 1 \in 0..n
  BY <1>4, <1>5
<1>7. g[k - 1].close = f.close /\ g[k - 1].avg = f.avg /\ g[k - 1] \in Kline
  BY <1>2, <1>6
<1>8. g[k] = Include(g[k - 1], ks[k])
  BY <1>3, <1>4, <1>5
<1>9. g[k].close = f.close /\ g[k].avg = f.avg
  BY <1>7, <1>8, IncludeFields
<1> QED BY <1>9

LEMMA FirstProperties ==
    ASSUME NEW ks \in Seq(Kline), ks # <<>>
    PROVE  /\ First(ks) \in Kline
           /\ First(ks).close = ks[Len(ks)].close /\ First(ks).avg = 0
           /\ First(ks).open = ks[1].open /\ First(ks).high = ks[1].high
           /\ First(ks).low = ks[1].low /\ First(ks).count = 0
           /\ First(ks).vol = 0 /\ First(ks).amt = 0
           /\ First(ks).buyVol = 0 /\ First(ks).buyAmt = 0
<1>1. 1 \in 1..Len(ks) /\ Len(ks) \in 1..Len(ks)
  OBVIOUS
<1>2. ks[1] \in Kline /\ ks[Len(ks)] \in Kline /\ Head(ks) = ks[1] /\ Last(ks) = ks[Len(ks)]
  BY <1>1, ElementOfSeq DEF Last
<1>3. 0 \in D /\ 0 \in 0..MaxInt
  BY Bounds DEF D
<1>4. First(ks) = [open |-> ks[1].open, high |-> ks[1].high, low |-> ks[1].low,
                   close |-> ks[Len(ks)].close, vol |-> 0, amt |-> 0, buyVol |-> 0,
                   buyAmt |-> 0, count |-> 0, avg |-> 0]
  <2> DEFINE k == ks[1]
             c == ks[Len(ks)].close
  <2>1. NewKline(k.open) = [open |-> k.open, high |-> k.open, low |-> k.open,
                            close |-> k.open, vol |-> 0, amt |-> 0, buyVol |-> 0,
                            buyAmt |-> 0, count |-> 0, avg |-> 0]
    BY DEF NewKline
  <2> DEFINE b == NewKline(k.open)
             f == First(ks)
  <2>2. f = [b EXCEPT !.high = k.high, !.low = k.low, !.close = c]
    BY <1>2 DEF First
  <2>4. b = [open |-> k.open, high |-> k.open, low |-> k.open, close |-> k.open, vol |-> 0,
             amt |-> 0, buyVol |-> 0, buyAmt |-> 0, count |-> 0, avg |-> 0]
    BY <2>1
  <2> HIDE DEF k, c, b, f
  <2>3. First(ks) = [open |-> k.open, high |-> k.high, low |-> k.low, close |-> c, vol |-> 0,
                     amt |-> 0, buyVol |-> 0, buyAmt |-> 0, count |-> 0, avg |-> 0]
    BY <2>2, <2>4 DEF f
  <2> QED BY <2>3 DEF k, c
<1> QED BY <1>2, <1>3, <1>4, KlineFields DEF Kline

(* The loop, and what it leaves, in terms of the function it computes. *)
LEMMA JoinedIs ==
    ASSUME NEW ks \in Seq(Kline), NEW g, Merging(g, ks, First(ks), Len(ks))
    PROVE  Joined(ks) = g[Len(ks)]
<1> DEFINE n == Len(ks)
           first == First(ks)
           c == CHOOSE merged : merged =
                   [k \in 0..n |-> IF k = 0 THEN first ELSE Include(merged[k - 1], ks[k])]
<1>1. Merging(c, ks, first, n)
  BY DEF Merging
<1>2. Joined(ks) = c[n]
  BY DEF Joined
<1>3. n \in Nat
  OBVIOUS
<1> HIDE DEF c, n, first
<1>4. Merging(g, ks, first, n)
  BY DEF n, first
<1>5. c[n] = g[n]
  BY <1>1, <1>3, <1>4, MergingSame
<1> QED BY <1>2, <1>5 DEF n

LEMMA JoinedFunction ==
    ASSUME NEW ks \in Seq(Kline), ks # <<>>
    PROVE  \E g \in [0..Len(ks) -> Kline] :
              Merging(g, ks, First(ks), Len(ks)) /\ Joined(ks) = g[Len(ks)]
<1>1. Len(ks) \in 0..Len(ks) /\ First(ks) \in Kline
  BY FirstProperties
<1>2. PICK g \in [0..Len(ks) -> Kline] : Merging(g, ks, First(ks), Len(ks))
  BY <1>1, MergingExists
<1> QED BY <1>2, JoinedIs

LEMMA JoinedType ==
    ASSUME NEW ks \in Seq(Kline), ks # <<>>
    PROVE  /\ Joined(ks) \in Kline
           /\ Joined(ks).close = ks[Len(ks)].close /\ Joined(ks).avg = 0
<1> DEFINE n == Len(ks)
<1>1. PICK g \in [0..n -> Kline] : Merging(g, ks, First(ks), n) /\ Joined(ks) = g[n]
  BY JoinedFunction
<1>2. n \in Nat /\ n \in 0..n
  OBVIOUS
<1> HIDE DEF n
<1>3. g[n].close = First(ks).close /\ g[n].avg = First(ks).avg /\ g[n] \in Kline
  BY <1>1, <1>2, MergingKeeps
<1> QED BY <1>1, <1>3, FirstProperties DEF n

(* Alike klines are merged into alike ones, *)
LEMMA JoinedAlike ==
    ASSUME NEW ks \in Seq(Kline), NEW js \in Seq(Kline), ks # <<>>, Len(js) = Len(ks),
           \A i \in 1..Len(ks) : Alike(ks[i], js[i])
    PROVE  Alike(Joined(ks), Joined(js))
<1> DEFINE n == Len(ks)
<1>1. n \in Nat /\ n <= n /\ js # <<>> /\ 1 \in 1..n
  OBVIOUS
<1>2. PICK g \in [0..n -> Kline] : Merging(g, ks, First(ks), n) /\ Joined(ks) = g[n]
  BY JoinedFunction
<1>3. PICK h \in [0..n -> Kline] : Merging(h, js, First(js), n) /\ Joined(js) = h[n]
  BY <1>1, JoinedFunction
<1> DEFINE f == First(ks)
           e == First(js)
<1>4. Alike(f, e)
  BY <1>1, FirstProperties DEF Alike
<1>5. \A i \in 1..n : Alike(ks[i], js[i])
  OBVIOUS
<1>6. Merging(g, ks, f, n) /\ Merging(h, js, e, n)
  BY <1>2, <1>3
<1> HIDE DEF n, f, e
<1>7. Alike(g[n], h[n])
  BY <1>1, <1>4, <1>5, <1>6, MergingAlike
<1> QED BY <1>2, <1>3, <1>7

(* one kline into one alike, *)
LEMMA JoinedOne ==
    ASSUME NEW k \in Kline
    PROVE  Alike(Joined(<<k>>), k)
<1> DEFINE ks == <<k>>
           m == Include(First(ks), k)
<1>1. ks \in Seq(Kline) /\ ks # <<>> /\ Len(ks) = 1 /\ ks[1] = k
  OBVIOUS
<1> HIDE DEF ks
<1>2. PICK g \in [0..1 -> Kline] : Merging(g, ks, First(ks), 1) /\ Joined(ks) = g[1]
  BY <1>1, JoinedFunction
<1>3. 0 \in 0..1 /\ 1 \in 0..1 /\ 1 - 1 = 0 /\ 1 # 0
  OBVIOUS
<1>4. Joined(ks) = m
  BY <1>1, <1>2, <1>3 DEF Merging
<1>5. /\ First(ks) \in Kline
      /\ First(ks).open = k.open /\ First(ks).high = k.high
      /\ First(ks).low = k.low /\ First(ks).count = 0
      /\ First(ks).vol = 0 /\ First(ks).amt = 0
      /\ First(ks).buyVol = 0 /\ First(ks).buyAmt = 0
  BY <1>1, FirstProperties
<1>6. /\ m.open = k.open /\ m.count = 0 + k.count
      /\ m.high = Higher(k.high, k.high) /\ m.low = Lower(k.low, k.low)
      /\ m.vol = Add(0, k.vol) /\ m.amt = Add(0, k.amt)
      /\ m.buyVol = Add(0, k.buyVol) /\ m.buyAmt = Add(0, k.buyAmt)
  BY <1>5, IncludeFields
<1> HIDE DEF m
<1>7. Alike(m, k)
  <2>1. k.high \in Int /\ k.low \in Int /\ k.count \in Nat
    BY KlineFields, Bounds DEF D
  <2>2. Higher(k.high, k.high) = k.high /\ Lower(k.low, k.low) = k.low
    BY <2>1, ExtremesGroup
  <2> QED BY <1>6, <2>1, <2>2, KlineFields, AddGroups DEF Alike
<1> QED BY <1>4, <1>7 DEF ks

(* and one kline more is included in what the others are merged into. *)
LEMMA JoinedMore ==
    ASSUME NEW ks \in Seq(Kline), ks # <<>>, NEW k \in Kline
    PROVE  Alike(Joined(Append(ks, k)), Include(Joined(ks), k))
<1> DEFINE n == Len(ks)
           js == Append(ks, k)
           l == n + 1
<1>1. /\ n \in Nat /\ l \in Nat /\ n <= l /\ js \in Seq(Kline) /\ js # <<>> /\ Len(js) = l
      /\ js[l] = k /\ \A i \in 1..n : js[i] = ks[i]
      /\ 1 \in 1..n /\ l \in 0..l /\ l # 0 /\ l - 1 = n /\ n \in 0..n /\ n \in 0..l
  OBVIOUS
<1>2. PICK g \in [0..n -> Kline] : Merging(g, ks, First(ks), n) /\ Joined(ks) = g[n]
  BY JoinedFunction
<1> HIDE DEF js, l, n
<1>3. PICK h \in [0..l -> Kline] : Merging(h, js, First(js), l) /\ Joined(js) = h[l]
  BY <1>1, JoinedFunction
<1>4. Alike(First(js), First(ks))
  BY <1>1, FirstProperties DEF Alike
<1>5. \A i \in 1..n : Alike(js[i], ks[i])
  BY <1>1 DEF Alike
<1>6. Alike(h[n], g[n])
  BY <1>1, <1>2, <1>3, <1>4, <1>5, MergingAlike
<1>7. h[l] = Include(h[n], k)
  BY <1>1, <1>3 DEF Merging
<1>8. Alike(Include(h[n], k), Include(g[n], k))
  <2>1. h[n] \in Kline /\ g[n] \in Kline /\ Alike(k, k)
    BY <1>1 DEF Alike
  <2> QED BY <1>6, <2>1, AlikeSteps
<1> QED BY <1>2, <1>3, <1>7, <1>8 DEF js

-----------------------------------------------------------------------------
(* The narrow klines are merged into the wide one *)

(* The average of alike klines with the same close is the same kline. *)
LEMMA SameAverage ==
    ASSUME NEW k \in Kline, NEW l \in Kline, Alike(k, l), k.close = l.close,
           k.vol = 0 => k.avg = l.avg
    PROVE  ComputeAvg(k) = ComputeAvg(l)
<1>1. ASSUME NEW m \in Kline
      PROVE  m = [open |-> m.open, high |-> m.high, low |-> m.low, close |-> m.close,
                  vol |-> m.vol, amt |-> m.amt, buyVol |-> m.buyVol, buyAmt |-> m.buyAmt,
                  count |-> m.count, avg |-> m.avg]
  BY DEF Kline
<1>2. CASE k.vol > 0
  <2> DEFINE q == Quo(k.amt, k.vol)
             r == [open |-> k.open, high |-> k.high, low |-> k.low, close |-> k.close,
                   vol |-> k.vol, amt |-> k.amt, buyVol |-> k.buyVol, buyAmt |-> k.buyAmt,
                   count |-> k.count, avg |-> q]
  <2>1. ComputeAvg(k) = [k EXCEPT !.avg = q] /\ ComputeAvg(l) = [l EXCEPT !.avg = q]
    BY <1>2 DEF ComputeAvg, Alike
  <2> HIDE DEF q
  <2>2. ASSUME NEW m \in Kline, Alike(k, m), k.close = m.close PROVE [m EXCEPT !.avg = q] = r
    BY <1>1, <2>2 DEF Alike
  <2>3. Alike(k, k)
    BY DEF Alike
  <2> HIDE DEF r
  <2>4. [k EXCEPT !.avg = q] = r /\ [l EXCEPT !.avg = q] = r
    BY <2>2, <2>3
  <2> QED BY <2>1, <2>4
<1>3. CASE ~(k.vol > 0)
  <2>1. k.vol = 0 /\ l.vol = 0
    BY <1>3, KlineFields DEF Figure, Alike
  <2>2. k = l
    BY <1>1, <2>1 DEF Alike
  <2> QED BY <2>2
<1> QED BY <1>2, <1>3

(* The narrow klines are merged into a kline like the wide one, whose average is
   set with the first volume only. *)
MergeInv ==
    /\ trades = <<>> <=> narrow = <<>>
    /\ narrow # <<>> => /\ Alike(Joined(narrow), wide)
                        /\ narrow[Len(narrow)].close = wide.close
    /\ wide.vol = 0 => wide.avg = 0

LEMMA AgreesByInv == CandleInv /\ MergeInv => MergeAgrees
<1> SUFFICES ASSUME CandleInv, MergeInv, trades # <<>> PROVE Merge(narrow) = ComputeAvg(wide)
  BY DEF MergeAgrees
<1> DEFINE j == Joined(narrow)
<1>1. narrow \in Seq(Kline) /\ narrow # <<>> /\ wide \in Kline
  BY DEF CandleInv, TypeOK, MergeInv
<1>2. j \in Kline /\ j.close = wide.close /\ j.avg = 0
  BY <1>1, JoinedType DEF MergeInv
<1>3. Alike(j, wide) /\ (wide.vol = 0 => wide.avg = 0)
  BY <1>1 DEF MergeInv
<1>4. j.vol = 0 => j.avg = wide.avg
  BY <1>2, <1>3 DEF Alike
<1> HIDE DEF j
<1>5. ComputeAvg(j) = ComputeAvg(wide)
  BY <1>1, <1>2, <1>3, <1>4, SameAverage
<1> QED BY <1>5, MergeOfJoined DEF j

LEMMA AddTradeMerges ==
    ASSUME CandleInv, MergeInv, NEW tick \in Ticks, NEW later \in BOOLEAN, AddTrade(tick, later)
    PROVE  MergeInv'
<1> DEFINE t == NewTradeFromTick(tick)
           new == Update(NewKline(t.price), t)
           fresh == later \/ narrow = <<>>
           base == IF trades = <<>> THEN NewKline(t.price) ELSE wide
           n == Len(narrow)
<1>1. /\ trades' = Append(trades, t) /\ wide' = Update(base, t)
      /\ narrow' = IF fresh THEN Append(narrow, new)
                   ELSE [narrow EXCEPT ![n] = Update(narrow[n], t)]
  BY DEF AddTrade
<1>2. Exact(t) /\ t \in Trade /\ t.qty \in Figure /\ t.amount \in Figure /\ t.price \in D
  BY TradeExact DEF Exact, Trade
<1> HIDE DEF t
<1>3. /\ trades \in Seq(Trade) /\ wide \in Kline /\ Consistent(wide) /\ narrow \in Seq(Kline)
      /\ n \in Nat /\ \A i \in 1..n : narrow[i] \in Kline /\ Consistent(narrow[i])
  <2>1. /\ trades \in Seq(Trade) /\ wide \in Kline /\ Consistent(wide) /\ narrow \in Seq(Kline)
        /\ \A i \in DOMAIN narrow : Consistent(narrow[i])
    BY DEF CandleInv, TypeOK, FiguresSound
  <2> QED BY <2>1
<1>4. /\ NewKline(t.price) \in Kline /\ Consistent(NewKline(t.price))
      /\ NewKline(t.price).vol = 0 /\ NewKline(t.price).avg = 0
  BY <1>2, NewKlineProperties DEF NewKline
<1>5. /\ base \in Kline /\ Consistent(base) /\ (base.vol = 0 => base.avg = 0)
  BY <1>3, <1>4 DEF MergeInv
<1>6. new \in Kline /\ new.close = t.price
  BY <1>2, <1>4, UpdateProperties
<1>7. /\ wide' \in Kline /\ wide'.close = t.price /\ base.vol <= wide'.vol
      /\ wide'.avg = base.avg /\ base.vol \in Nat /\ wide'.vol \in Nat
  <2>1. wide' \in Kline /\ wide'.close = t.price /\ base.vol <= wide'.vol
    BY <1>1, <1>2, <1>5, UpdateProperties
  <2> HIDE DEF base
  <2>2. wide'.avg = base.avg
    BY <1>1, <1>5, UpdateFields
  <2> QED BY <1>5, <2>1, <2>2, KlineFields DEF Figure
<1>8. wide'.vol = 0 => wide'.avg = 0
  BY <1>5, <1>7
<1>9. trades' # <<>>
  BY <1>1, <1>2, <1>3
<1> HIDE DEF new, fresh
<1>10. CASE fresh /\ narrow = <<>>
  <2>1. narrow' = <<new>> /\ narrow' # <<>> /\ Len(narrow') = 1 /\ narrow'[1] = new
    BY <1>1, <1>10
  <2>2. wide' = new
    BY <1>1, <1>10 DEF MergeInv, new
  <2>3. Alike(Joined(<<new>>), new)
    BY <1>6, JoinedOne
  <2> QED BY <1>6, <1>7, <1>8, <1>9, <2>1, <2>2, <2>3 DEF MergeInv
<1>11. CASE fresh /\ narrow # <<>>
  <2>1. narrow' = Append(narrow, new) /\ base = wide
    BY <1>1, <1>11 DEF MergeInv
  <2>2. narrow' # <<>> /\ Len(narrow') = n + 1 /\ narrow'[n + 1] = new
    BY <1>3, <1>6, <2>1
  <2> DEFINE j == Joined(narrow)
  <2>3. j \in Kline /\ Alike(j, wide)
    BY <1>3, <1>11, JoinedType DEF MergeInv
  <2>4. Alike(Joined(narrow'), Include(j, new))
    BY <1>3, <1>6, <1>11, <2>1, JoinedMore
  <2> HIDE DEF j
  <2>5. Alike(Include(j, new), Update(j, t))
    BY <1>2, <2>3, IncludeNew DEF new
  <2>6. Alike(Update(j, t), wide')
    BY <1>1, <1>3, <2>1, <2>3, AlikeSteps
  <2>7. Alike(Joined(narrow'), wide')
    BY <2>4, <2>5, <2>6 DEF Alike
  <2> QED BY <1>6, <1>7, <1>8, <1>9, <2>2, <2>7 DEF MergeInv
<1>12. CASE ~fresh
  <2> DEFINE last == narrow[n]
             more == Update(last, t)
             front == SubSeq(narrow, 1, n - 1)
  <2>1. narrow # <<>> /\ base = wide
    BY <1>12 DEF fresh, MergeInv
  <2>2. n \in 1..n /\ n - 1 \in 0..n /\ n - 1 \in Nat
    BY <1>3, <2>1
  <2>3. narrow' = [narrow EXCEPT ![n] = more]
    BY <1>1, <1>12
  <2>4. last \in Kline /\ Consistent(last)
    BY <1>3, <2>2
  <2>5. more \in Kline /\ more.close = t.price
    BY <1>2, <2>4, UpdateProperties
  <2> HIDE DEF more, last
  <2>6. narrow' \in Seq(Kline) /\ Len(narrow') = n /\ narrow'[n] = more /\ narrow' # <<>>
        /\ \A i \in 1..(n - 1) : narrow'[i] = narrow[i]
    BY <1>3, <2>1, <2>2, <2>3, <2>5
  <2>7. front \in Seq(Kline) /\ Len(front) = n - 1 /\ \A i \in 1..(n - 1) : front[i] = narrow[i]
    <3> DEFINE m == n - 1
    <3>1. narrow \in Seq(Kline) /\ m \in Nat /\ m <= Len(narrow)
      BY <1>3, <2>2
    <3> HIDE DEF m
    <3>2. /\ SubSeq(narrow, 1, m) \in Seq(Kline) /\ Len(SubSeq(narrow, 1, m)) = m
          /\ \A i \in 1..m : SubSeq(narrow, 1, m)[i] = narrow[i]
      BY <3>1, PrefixIs
    <3> QED BY <3>2 DEF m
  <2> HIDE DEF front
  <2>8. ASSUME NEW s \in Seq(Kline), NEW k \in Kline, Len(s) = n, s[n] = k,
               \A i \in 1..(n - 1) : s[i] = narrow[i]
        PROVE  s = Append(front, k)
    <3> DEFINE a == Append(front, k)
    <3>1. a \in Seq(Kline) /\ Len(a) = n /\ a[n] = k /\ \A i \in 1..(n - 1) : a[i] = front[i]
      BY <2>2, <2>7
    <3> HIDE DEF a
    <3>2. ASSUME NEW i \in 1..n PROVE s[i] = a[i]
      <4>1. i = n \/ i \in 1..(n - 1)
        BY <2>2
      <4> QED BY <2>7, <2>8, <3>1, <4>1
    <3>3. s = a
      BY <2>8, <3>1, <3>2, SeqEqual
    <3> QED BY <3>3 DEF a
  <2>9. narrow = Append(front, last) /\ narrow' = Append(front, more)
    BY <1>3, <2>4, <2>5, <2>6, <2>8 DEF last
  <2>10. Alike(Joined(narrow'), Update(Joined(narrow), t))
    <3>1. CASE front = <<>>
      <4>1. narrow = <<last>> /\ narrow' = <<more>>
        BY <2>9, <3>1
      <4>2. Alike(Joined(narrow), last) /\ Alike(Joined(narrow'), more)
        BY <2>4, <2>5, <4>1, JoinedOne
      <4>3. Joined(narrow) \in Kline
        BY <1>3, <2>1, JoinedType
      <4>4. Alike(Update(Joined(narrow), t), more)
        BY <2>4, <4>2, <4>3, AlikeSteps DEF more
      <4> QED BY <4>2, <4>4 DEF Alike
    <3>2. CASE front # <<>>
      <4> DEFINE f == Joined(front)
      <4>1. f \in Kline
        BY <2>7, <3>2, JoinedType
      <4>2. Alike(Joined(narrow), Include(f, last)) /\ Alike(Joined(narrow'), Include(f, more))
        BY <2>4, <2>5, <2>7, <2>9, <3>2, JoinedMore
      <4> HIDE DEF f
      <4>3. Include(f, last) \in Kline /\ Joined(narrow) \in Kline
        BY <1>3, <2>1, <2>4, <4>1, IncludeType, JoinedType
      <4>4. Alike(Include(f, more), Update(Include(f, last), t))
        BY <1>2, <2>4, <4>1, IncludeUpdate DEF more
      <4>5. Alike(Update(Joined(narrow), t), Update(Include(f, last), t))
        BY <4>2, <4>3, AlikeSteps
      <4> QED BY <4>2, <4>4, <4>5 DEF Alike
    <3> QED BY <3>1, <3>2
  <2>11. Alike(Update(Joined(narrow), t), wide')
    <3>1. Joined(narrow) \in Kline /\ Alike(Joined(narrow), wide)
      BY <1>3, <2>1, JoinedType DEF MergeInv
    <3> QED BY <1>1, <1>3, <2>1, <3>1, AlikeSteps
  <2>12. Alike(Joined(narrow'), wide')
    BY <2>10, <2>11 DEF Alike
  <2> QED BY <1>7, <1>8, <1>9, <2>5, <2>6, <2>12 DEF MergeInv
<1> QED BY <1>10, <1>11, <1>12

LEMMA SaveMerges ==
    ASSUME CandleInv, MergeInv, Save
    PROVE  MergeInv'
<1> DEFINE n == Len(narrow)
<1>1. /\ trades' = trades /\ trades # <<>> /\ wide' = ComputeAvg(wide)
      /\ narrow' = [i \in DOMAIN narrow |-> ComputeAvg(narrow[i])]
  BY DEF Save
<1>2. /\ wide \in Kline /\ narrow \in Seq(Kline) /\ narrow # <<>>
      /\ n \in 1..n /\ DOMAIN narrow = 1..n /\ \A i \in 1..n : narrow[i] \in Kline
  BY <1>1 DEF CandleInv, TypeOK, MergeInv
<1>3. ASSUME NEW k \in Kline
      PROVE  /\ Alike(k, ComputeAvg(k)) /\ ComputeAvg(k).close = k.close
             /\ k.vol = 0 => ComputeAvg(k) = k
  <2>1. CASE k.vol > 0
    BY <2>1 DEF ComputeAvg, Alike, Kline
  <2>2. CASE ~(k.vol > 0)
    BY <2>2 DEF ComputeAvg, Alike
  <2>3. k.vol = 0 => ~(k.vol > 0)
    OBVIOUS
  <2> QED BY <2>1, <2>2, <2>3 DEF ComputeAvg
<1>4. narrow' \in Seq(Kline) /\ Len(narrow') = n /\ narrow' # <<>>
      /\ \A i \in 1..n : narrow'[i] = ComputeAvg(narrow[i])
  <2>1. narrow' \in Seq(Kline)
    BY SaveSound DEF CandleInv, TypeOK
  <2>2. DOMAIN narrow' = 1..n
    BY <1>1, <1>2
  <2>3. Len(narrow') = n
    BY <1>2, <2>1, <2>2, LenProperties
  <2> QED BY <1>1, <1>2, <2>1, <2>3
<1>5. Alike(Joined(narrow), Joined(narrow'))
  BY <1>2, <1>3, <1>4, JoinedAlike
<1>6. Alike(wide, wide') /\ wide'.close = wide.close /\ (wide.vol = 0 => wide' = wide)
  BY <1>1, <1>2, <1>3
<1>7. narrow'[n].close = narrow[n].close
  BY <1>2, <1>3, <1>4
<1> HIDE DEF n
<1>8. Alike(Joined(narrow'), wide')
  BY <1>2, <1>5, <1>6 DEF MergeInv, Alike
<1>9. wide'.vol = 0 => wide'.avg = 0
  BY <1>6 DEF MergeInv, Alike
<1>10. narrow'[Len(narrow')].close = wide'.close
  BY <1>2, <1>4, <1>6, <1>7 DEF MergeInv, n
<1> QED BY <1>1, <1>4, <1>8, <1>9, <1>10 DEF MergeInv

(* The kline the checker rebuilds from the narrow klines is the one the
   aggregator counts, averages computed, wherever the narrow windows end and
   however many trades they have. *)
THEOREM MergeAlwaysAgrees == Spec => []MergeAgrees
<1>1. Init => CandleInv /\ MergeInv
  <2> SUFFICES ASSUME Init PROVE MergeInv
    BY InitSound
  <2> QED BY DEF Init, MergeInv, NewKline
<1>2. (CandleInv /\ MergeInv) /\ [Next]_candle => (CandleInv /\ MergeInv)'
  <2> SUFFICES ASSUME CandleInv, MergeInv, [Next]_candle PROVE CandleInv' /\ MergeInv'
    OBVIOUS
  <2>1. CASE UNCHANGED candle
    BY <2>1 DEF candle, CandleInv, TypeOK, FiguresSound, PricesRight, MergeInv
  <2> QED BY <2>1, AddTradeSound, SaveSound, AddTradeMerges, SaveMerges DEF Next
<1> QED BY <1>1, <1>2, AgreesByInv, PTL DEF Spec

-----------------------------------------------------------------------------
(* Division *)

(* The multiple of w at or under t. *)
LEMMA DivBounds ==
    ASSUME NEW t \in Nat, NEW w \in Nat \ {0}
    PROVE  /\ t \div w \in Nat
           /\ (t \div w) * w <= t /\ t < (t \div w) * w + w
  OBVIOUS

LEMMA DivUnique ==
    ASSUME NEW t \in Int, NEW w \in Nat \ {0}, NEW q \in Int, q * w <= t, t < q * w + w
    PROVE  t \div w = q
  OBVIOUS

-----------------------------------------------------------------------------
(* The text of a number *)

(* g holds the numbers read digit by digit from c and the first digits of ds. *)
Reading(g, c, ds, n) == g = [k \in 0..n |-> IF k = 0 THEN c ELSE 10 * g[k - 1] + ds[k]]

LEMMA ReadingExists ==
    ASSUME NEW c \in Nat, NEW l \in Nat, NEW ds \in [1..l -> Nat], NEW n \in 0..l
    PROVE  \E g \in [0..n -> Nat] : Reading(g, c, ds, n)
<1> DEFINE S == {m \in Nat : m <= l /\ ~\E g \in [0..m -> Nat] : Reading(g, c, ds, m)}
<1>1. SUFFICES ASSUME S # {} PROVE FALSE
  <2>1. n \in Nat /\ n <= l
    OBVIOUS
  <2> QED BY <1>1, <2>1
<1>2. PICK m \in S : \A k \in S : m <= k
  BY <1>1, LeastNatural
<1>3. m \in Nat /\ m <= l
  OBVIOUS
<1>4. CASE m = 0
  <2> DEFINE g == [k \in 0..0 |-> c]
  <2>1. g \in [0..m -> Nat] /\ g = [k \in 0..m |-> IF k = 0 THEN c ELSE 10 * g[k - 1] + ds[k]]
    BY <1>4
  <2> QED BY <2>1 DEF Reading
<1>5. CASE m # 0
  <2>1. m - 1 \in Nat /\ m - 1 <= l /\ ~(m <= m - 1) /\ m \in 1..l /\ m \in 0..m
    BY <1>3, <1>5
  <2>2. PICK g \in [0..(m - 1) -> Nat] : Reading(g, c, ds, m - 1)
    BY <1>2, <2>1
  <2> DEFINE x == 10 * g[m - 1] + ds[m]
             h == [k \in 0..m |-> IF k = m THEN x ELSE g[k]]
  <2>3. h \in [0..m -> Nat]
    <3>1. x \in Nat
      <4>1. m - 1 \in 0..(m - 1) /\ ds[m] \in Nat
        BY <2>1
      <4> QED BY <2>2, <4>1
    <3>2. \A k \in 0..m : k # m => k \in 0..(m - 1)
      BY <1>3
    <3> HIDE DEF x
    <3> QED BY <3>1, <3>2
  <2>4. ASSUME NEW k \in 0..m PROVE h[k] = IF k = 0 THEN c ELSE 10 * h[k - 1] + ds[k]
    <3>1. \A i \in 0..(m - 1) : g[i] = IF i = 0 THEN c ELSE 10 * g[i - 1] + ds[i]
      BY <2>2 DEF Reading
    <3>2. CASE k = m
      <4>1. k - 1 \in 0..m /\ k - 1 # m /\ k # 0
        BY <1>3, <1>5, <3>2
      <4> QED BY <3>2, <4>1
    <3>3. CASE k # m
      <4>1. k \in 0..(m - 1) /\ (k # 0 => k - 1 \in 0..m /\ k - 1 # m)
        BY <1>3, <3>3
      <4> QED BY <3>1, <3>3, <4>1
    <3> QED BY <3>2, <3>3
  <2>5. h = [k \in 0..m |-> h[k]]
    OBVIOUS
  <2> HIDE DEF h
  <2>6. Reading(h, c, ds, m)
    BY <2>4, <2>5 DEF Reading
  <2> QED BY <2>3, <2>6
<1> QED BY <1>4, <1>5

(* The powers of ten are what their recursive definition says. *)
LEMMA TensProperties ==
    /\ Precision \in Nat \ {0} /\ Scale = Tens[Precision] /\ Tens[0] = 1
    /\ \A n \in 0..Precision : Tens[n] \in Nat \ {0}
    /\ \A n \in 1..Precision : Tens[n] = 10 * Tens[n - 1]
<1> DEFINE P == Precision
           ds == [i \in 1..P |-> 0]
<1>1. P \in Nat \ {0} /\ P \in 0..P /\ Scale = Tens[P]
  BY DecimalAssumption
<1> HIDE DEF P
<1>2. PICK g \in [0..P -> Nat] : Reading(g, 1, ds, P)
  <2>1. ds \in [1..P -> Nat]
    OBVIOUS
  <2> HIDE DEF ds
  <2> QED BY <1>1, <2>1, ReadingExists
<1>3. g = [n \in 0..P |-> IF n = 0 THEN 1 ELSE 10 * g[n - 1]]
  <2>1. g = [n \in 0..P |-> g[n]]
    OBVIOUS
  <2>2. ASSUME NEW n \in 0..P PROVE g[n] = IF n = 0 THEN 1 ELSE 10 * g[n - 1]
    <3>1. g[n] = IF n = 0 THEN 1 ELSE 10 * g[n - 1] + ds[n]
      BY <1>2 DEF Reading
    <3>2. n # 0 => n \in 1..P /\ n - 1 \in 0..P
      BY <1>1
    <3>3. n # 0 => g[n - 1] \in Nat /\ ds[n] = 0
      BY <3>2
    <3> QED BY <3>1, <3>3
  <2> QED BY <2>1, <2>2
<1>4. Tens = [n \in 0..P |-> IF n = 0 THEN 1 ELSE 10 * Tens[n - 1]]
  BY <1>3 DEF Tens, P
<1>5. /\ Tens[0] = 1 /\ \A n \in 1..P : Tens[n] = 10 * Tens[n - 1]
  <2>1. \A n \in 0..P : Tens[n] = IF n = 0 THEN 1 ELSE 10 * Tens[n - 1]
    BY <1>4
  <2>2. 0 \in 0..P /\ \A n \in 1..P : n \in 0..P /\ n # 0
    BY <1>1
  <2> QED BY <2>1, <2>2
<1>6. \A n \in 0..P : Tens[n] \in Nat \ {0}
  <2> DEFINE S == {n \in Nat : n <= P /\ Tens[n] \notin Nat \ {0}}
  <2>1. SUFFICES ASSUME S # {} PROVE FALSE
    BY <2>1
  <2>2. PICK n \in S : \A k \in S : n <= k
    BY <2>1, LeastNatural
  <2>3. n # 0
    BY <1>5
  <2>4. n - 1 \in Nat /\ n - 1 <= P /\ ~(n <= n - 1) /\ n \in 1..P
    BY <1>1, <2>3
  <2>5. Tens[n - 1] \in Nat \ {0}
    BY <2>2, <2>4
  <2> QED BY <1>5, <2>4, <2>5
<1> QED BY <1>1, <1>5, <1>6 DEF P

(* One digit more of a number. *)
LEMMA DigitMore ==
    ASSUME NEW v \in Nat, NEW m \in Nat \ {0}
    PROVE  v \div m \in Nat /\ 10 * (v \div (10 * m)) + ((v \div m) % 10) = v \div m
<1> DEFINE q == v \div m
           p == q \div 10
           w == 10 * m
<1>1. q \in Nat /\ q * m <= v /\ v < q * m + m
  BY DivBounds
<1> HIDE DEF q
<1>2. p \in Nat /\ 10 * p <= q /\ q <= 10 * p + 9 /\ q = 10 * p + (q % 10)
  BY <1>1
<1> HIDE DEF p
<1>3. p * w <= v
  <2>1. (10 * p) * m <= q * m
    BY <1>1, <1>2
  <2>2. p * w = (10 * p) * m
    BY <1>2
  <2> QED BY <1>1, <1>2, <2>1, <2>2
<1>4. v < p * w + w
  <2>1. (q + 1) * m <= (10 * p + 10) * m
    BY <1>1, <1>2
  <2>2. (q + 1) * m = q * m + m /\ (10 * p + 10) * m = p * w + w
    BY <1>1, <1>2
  <2> QED BY <1>1, <1>2, <2>1, <2>2
<1>5. w \in Nat \ {0}
  OBVIOUS
<1> HIDE DEF w
<1>6. v \div w = p
  BY <1>2, <1>3, <1>4, <1>5, DivUnique
<1>7. q \in Nat /\ 10 * (v \div w) + (q % 10) = q
  BY <1>1, <1>2, <1>6
<1> QED BY <1>7 DEF q, w

(* The digit i after the point of a text. *)
Digit(frac, i) == IF i <= Len(frac) THEN frac[i] ELSE 0

LEMMA FractionIs ==
    ASSUME NEW frac \in Seq(0..9), NEW v \in Nat, v < Scale,
           \A i \in 1..Precision : Digit(frac, i) = Pad(v)[i]
    PROVE  Fraction(frac) = v
<1> DEFINE P == Precision
           ds == [i \in 1..P |-> Digit(frac, i)]
           c == CHOOSE read : read = [n \in 0..P |->
                    IF n = 0 THEN 0
                    ELSE 10 * read[n - 1] + (IF n <= Len(frac) THEN frac[n] ELSE 0)]
<1>1. /\ P \in Nat \ {0} /\ P \in 0..P /\ Scale = Tens[P] /\ Tens[0] = 1
      /\ \A n \in 0..P : Tens[n] \in Nat \ {0}
      /\ \A n \in 1..P : Tens[n] = 10 * Tens[n - 1]
  BY TensProperties
<1>2. \A i \in 1..P : Digit(frac, i) = (v \div Tens[P - i]) % 10
  BY DEF Pad
<1>3. Fraction(frac) = c[P]
  BY DEF Fraction
<1> HIDE DEF P
<1>4. \A g : Reading(g, 0, ds, P) =>
          g = [n \in 0..P |-> IF n = 0 THEN 0
                              ELSE 10 * g[n - 1] + (IF n <= Len(frac) THEN frac[n] ELSE 0)]
  <2>1. \A n \in 0..P : n # 0 => ds[n] = IF n <= Len(frac) THEN frac[n] ELSE 0
    BY <1>1 DEF Digit
  <2> HIDE DEF ds
  <2> QED BY <2>1 DEF Reading
<1>5. PICK g \in [0..P -> Nat] : Reading(g, 0, ds, P)
  <2>1. ASSUME NEW i \in 1..P PROVE Digit(frac, i) \in Nat
    <3>1. i <= Len(frac) => frac[i] \in 0..9
      BY ElementOfSeq
    <3> QED BY <3>1 DEF Digit
  <2>2. ds \in [1..P -> Nat]
    BY <2>1
  <2> HIDE DEF ds
  <2> QED BY <1>1, <2>2, ReadingExists
<1>6. \A n \in 0..P : c[n] = IF n = 0 THEN 0
                             ELSE 10 * c[n - 1] + (IF n <= Len(frac) THEN frac[n] ELSE 0)
  <2>1. c = [n \in 0..P |-> IF n = 0 THEN 0
                 ELSE 10 * c[n - 1] + (IF n <= Len(frac) THEN frac[n] ELSE 0)]
    BY <1>4, <1>5
  <2> HIDE DEF c
  <2> QED BY <2>1
<1> HIDE DEF c
<1> DEFINE S == {n \in Nat : n <= P /\ c[n] # v \div Tens[P - n]}
<1>7. S = {}
  <2>1. SUFFICES ASSUME S # {} PROVE FALSE
    OBVIOUS
  <2>2. PICK n \in S : \A k \in S : n <= k
    BY <2>1, LeastNatural
  <2>3. n \in 0..P /\ P - n \in 0..P
    BY <1>1
  <2>4. CASE n = 0
    <3>1. v \div Tens[P] = 0
      <4>1. ASSUME NEW w \in Nat \ {0}, v < w PROVE v \div w = 0
        BY <4>1
      <4> QED BY <1>1, <4>1
    <3>2. c[0] = 0 /\ P - 0 = P
      BY <1>1, <1>6, <2>3, <2>4
    <3> QED BY <2>4, <3>1, <3>2
  <2>5. CASE n # 0
    <3> DEFINE m == Tens[P - n]
    <3>1. n - 1 \in Nat /\ n - 1 <= P /\ ~(n <= n - 1) /\ n \in 1..P /\ P - (n - 1) \in 1..P
          /\ (P - (n - 1)) - 1 = P - n
      BY <1>1, <2>3, <2>5
    <3>2. c[n - 1] = v \div Tens[P - (n - 1)]
      BY <2>2, <3>1
    <3>3. m \in Nat \ {0} /\ Tens[P - (n - 1)] = 10 * m
      BY <1>1, <2>3, <3>1
    <3>4. c[n] = 10 * c[n - 1] + ((v \div m) % 10)
      <4>1. c[n] = 10 * c[n - 1] + Digit(frac, n)
        BY <1>6, <2>3, <2>5 DEF Digit
      <4>2. Digit(frac, n) = (v \div m) % 10
        BY <1>2, <3>1
      <4> HIDE DEF m
      <4> QED BY <4>1, <4>2
    <3> HIDE DEF m
    <3>5. c[n] = v \div m
      <4>1. c[n - 1] = v \div (10 * m)
        BY <3>2, <3>3
      <4>2. 10 * (v \div (10 * m)) + ((v \div m) % 10) = v \div m
        BY <3>3, DigitMore
      <4> QED BY <3>4, <4>1, <4>2
    <3> QED BY <3>5 DEF m
  <2> QED BY <2>4, <2>5
<1>8. c[P] = v \div Tens[P - P]
  <2>1. P \in Nat /\ P <= P /\ P \notin S
    <3>1. P \in Nat /\ P <= P
      BY <1>1
    <3> HIDE DEF S
    <3> QED BY <1>7, <3>1
  <2> QED BY <2>1
<1>9. P - P = 0 /\ v \div 1 = v
  BY <1>1
<1> QED BY <1>1, <1>3, <1>8, <1>9

(* A text whose fraction has the digits of a number, zeros at the end aside, is
   read as the number. *)
LEMMA ReadsBack ==
    ASSUME NEW v \in D, v # MinInt, NEW frac \in Seq(0..9),
           \A i \in 1..Precision : Digit(frac, i) = Pad(Magnitude(v) % Scale)[i]
    PROVE  FromString([neg |-> v < 0, whole |-> Magnitude(v) \div Scale, frac |-> frac]) = v
<1> DEFINE a == Magnitude(v)
           q == a \div Scale
           r == a % Scale
           s == [neg |-> v < 0, whole |-> q, frac |-> frac]
<1>1. /\ MaxInt \in Nat /\ MinInt = -MaxInt - 1 /\ Scale \in Nat \ {0} /\ D = MinInt..MaxInt
  BY Bounds DEF D
<1>2. a \in 0..MaxInt /\ a \in Nat /\ v = IF v < 0 THEN -a ELSE a
  BY <1>1 DEF Magnitude
<1>3. Fraction(frac) = r
  <2>1. r \in Nat /\ r < Scale
    BY <1>1, <1>2
  <2> HIDE DEF r
  <2>2. \A i \in 1..Precision : Digit(frac, i) = Pad(r)[i]
    BY DEF r
  <2> QED BY <2>1, <2>2, FractionIs
<1> HIDE DEF a
<1>4. q \in Nat /\ q <= a /\ q * Scale + r = a
  <2>1. q \in Nat /\ q * Scale + r = a /\ r \in Nat
    BY <1>1, <1>2
  <2> HIDE DEF q, r
  <2>2. q <= q * Scale
    BY <1>1, <2>1
  <2> QED BY <1>1, <1>2, <2>1, <2>2
<1> HIDE DEF q, r
<1>5. Wrap(q) = q /\ Wrap(a) = a /\ Wrap(-a) = -a
  <2>1. q \in D /\ a \in D /\ -a \in D /\ q \in Int /\ a \in Int /\ -a \in Int
    BY <1>1, <1>2, <1>4
  <2> QED BY <2>1, WrapProperties
<1>6. s # Malformed
  <2>1. s.whole # Malformed.whole
    BY <1>4 DEF Malformed
  <2> HIDE DEF s
  <2> QED BY <2>1
<1>7. Wrap(Wrap(s.whole) * Scale + Fraction(s.frac)) = a
  BY <1>3, <1>4, <1>5
<1>8. s.neg <=> v < 0
  OBVIOUS
<1>9. FromString(s) = IF s.neg THEN Wrap(-a) ELSE a
  <2> HIDE DEF s
  <2> QED BY <1>6, <1>7 DEF FromString
<1>10. FromString(s) = v
  <2> HIDE DEF s
  <2> QED BY <1>2, <1>5, <1>8, <1>9
<1> QED BY <1>10 DEF q, a, s

(* The text of a number, and its fraction. *)
LEMMA StringProperties ==
    ASSUME NEW v \in D, v # MinInt
    PROVE  /\ String(v) = [neg |-> v < 0, whole |-> Magnitude(v) \div Scale,
                           frac |-> Pad(Magnitude(v) % Scale)]
           /\ String(v) # Malformed
           /\ Pad(Magnitude(v) % Scale) \in Seq(0..9)
           /\ Len(Pad(Magnitude(v) % Scale)) = Precision
<1> DEFINE r == Magnitude(v) % Scale
<1>1. /\ MaxInt \in Nat /\ MinInt = -MaxInt - 1 /\ Scale \in Nat \ {0} /\ D = MinInt..MaxInt
  BY Bounds DEF D
<1>2. Magnitude(v) \in Nat
  BY <1>1 DEF Magnitude
<1>3. r \in Nat /\ Magnitude(v) \div Scale \in Nat
  BY <1>1, <1>2
<1>4. String(v) = [neg |-> v < 0, whole |-> Magnitude(v) \div Scale, frac |-> Pad(r)]
  BY DEF String
<1>5. String(v) # Malformed
  <2>1. String(v).whole # Malformed.whole
    BY <1>3, <1>4 DEF Malformed
  <2> QED BY <2>1
<1> HIDE DEF r
<1>6. Pad(r) \in [1..Precision -> 0..9]
  <2>1. ASSUME NEW i \in 1..Precision PROVE (r \div Tens[Precision - i]) % 10 \in 0..9
    <3>1. Precision - i \in 0..Precision
      BY TensProperties
    <3>2. Tens[Precision - i] \in Nat \ {0}
      BY <3>1, TensProperties
    <3>3. r \div Tens[Precision - i] \in Nat
      BY <1>3, <3>2, DivBounds
    <3> QED BY <3>3
  <2> QED BY <2>1 DEF Pad
<1>7. Pad(r) \in Seq(0..9) /\ Len(Pad(r)) = Precision
  <2>1. Precision \in Nat
    BY TensProperties
  <2>2. Pad(r) \in Seq(0..9)
    BY <1>6, <2>1, SeqDef
  <2> QED BY <1>6, <2>1, <2>2, LenProperties
<1> QED BY <1>4, <1>5, <1>7 DEF r

(* A text is its three parts. *)
LEMMA TextParts ==
    ASSUME NEW neg, NEW whole, NEW old, NEW new
    PROVE  [[neg |-> neg, whole |-> whole, frac |-> old] EXCEPT !.frac = new] =
              [neg |-> neg, whole |-> whole, frac |-> new]
  OBVIOUS

(* What a column gives back, with zeros at the end, is read as the number, *)
LEMMA ColumnReadsBack ==
    ASSUME NEW v \in D, v # MinInt
    PROVE  FromString(Column(String(v))) = v
<1> DEFINE pad == Pad(Magnitude(v) % Scale)
           frac == pad \o <<0, 0>>
           q == Magnitude(v) \div Scale
<1>1. String(v) = [neg |-> v < 0, whole |-> q, frac |-> pad] /\ String(v) # Malformed
      /\ pad \in Seq(0..9) /\ Len(pad) = Precision
  BY StringProperties
<1> HIDE DEF q, pad
<1>2. Column(String(v)) = [neg |-> v < 0, whole |-> q, frac |-> frac]
  <2> DEFINE neg == v < 0
             s == [neg |-> neg, whole |-> q, frac |-> pad]
  <2>1. String(v) = s /\ String(v) # Malformed /\ s.frac = pad
    BY <1>1
  <2>2. [s EXCEPT !.frac = frac] = [neg |-> neg, whole |-> q, frac |-> frac]
    <3> HIDE DEF neg
    <3> QED BY TextParts
  <2> HIDE DEF s
  <2>3. Column(String(v)) = [s EXCEPT !.frac = frac]
    BY <2>1 DEF Column
  <2> QED BY <2>2, <2>3
<1>3. frac \in Seq(0..9) /\ \A i \in 1..Precision : Digit(frac, i) = pad[i]
  <2>1. <<0, 0>> \in Seq(0..9) /\ Len(<<0, 0>>) = 2 /\ Precision \in Nat
    BY TensProperties
  <2>2. frac \in Seq(0..9) /\ Len(frac) = Precision + 2
    BY <1>1, <2>1
  <2>3. \A i \in 1..Precision : frac[i] = pad[i] /\ i <= Precision + 2
    BY <1>1, <2>1
  <2> HIDE DEF frac
  <2> QED BY <2>2, <2>3 DEF Digit
<1> HIDE DEF frac
<1>4. FromString([neg |-> v < 0, whole |-> q, frac |-> frac]) = v
  BY <1>3, ReadsBack DEF pad, q
<1> QED BY <1>2, <1>4

(* and so is the text without the zeros at the end. *)
LEMMA TrimmedReadsBack ==
    ASSUME NEW v \in D, v # MinInt
    PROVE  FromString(Trimmed(v)) = v
<1> DEFINE pad == Pad(Magnitude(v) % Scale)
           q == Magnitude(v) \div Scale
           P == Precision
           keep == {n \in 0..P : \A i \in (n + 1)..P : pad[i] = 0}
           k == CHOOSE n \in keep : \A m \in keep : n <= m
           frac == SubSeq(pad, 1, k)
<1>1. String(v) = [neg |-> v < 0, whole |-> q, frac |-> pad] /\ String(v) # Malformed
      /\ pad \in Seq(0..9) /\ Len(pad) = P
  BY StringProperties
<1>2. P \in Nat
  BY TensProperties
<1> HIDE DEF q, pad, P
<1>3. Trimmed(v) = [neg |-> v < 0, whole |-> q, frac |-> frac]
  <2> DEFINE neg == v < 0
             s == [neg |-> neg, whole |-> q, frac |-> pad]
  <2>1. String(v) = s /\ s.frac = pad /\ Len(pad) = P
    BY <1>1
  <2>2. [s EXCEPT !.frac = frac] = [neg |-> neg, whole |-> q, frac |-> frac]
    <3> HIDE DEF neg, frac
    <3> QED BY TextParts
  <2> HIDE DEF s
  <2>3. Trimmed(v) = [s EXCEPT !.frac = frac]
    BY <2>1 DEF Trimmed
  <2> QED BY <2>2, <2>3
<1>4. k \in keep
  <2>1. keep \in SUBSET Nat /\ P \in keep
    BY <1>2
  <2> HIDE DEF keep
  <2>2. \E n \in keep : \A m \in keep : n <= m
    BY <2>1, LeastNatural
  <2> QED BY <2>2
<1>5. k \in 0..P /\ k \in Nat /\ k <= P /\ \A i \in 1..P : i > k => pad[i] = 0
  <2> HIDE DEF k
  <2>1. k \in 0..P /\ \A i \in (k + 1)..P : pad[i] = 0
    BY <1>4
  <2> QED BY <1>2, <2>1
<1> HIDE DEF keep, k
<1>6. frac \in Seq(0..9) /\ Len(frac) = k /\ \A i \in 1..k : frac[i] = pad[i]
  BY <1>1, <1>5, PrefixIs
<1> HIDE DEF frac
<1>7. \A i \in 1..P : Digit(frac, i) = pad[i]
  <2>1. \A i \in 1..P : i <= k => i \in 1..k
    BY <1>2, <1>5
  <2>2. \A i \in 1..P : ~(i <= k) => i > k
    BY <1>2, <1>5
  <2> QED BY <1>5, <1>6, <2>1, <2>2 DEF Digit
<1>8. FromString([neg |-> v < 0, whole |-> q, frac |-> frac]) = v
  BY <1>6, <1>7, ReadsBack DEF pad, q, P
<1> QED BY <1>3, <1>8

-----------------------------------------------------------------------------
(* The average of a kline *)

(* What keeps the average of a kline between its prices: its amount is at most
   its volume at the highest price and, but for what each trade's amount loses,
   at least its volume at the lowest, unless a total has stopped. *)
Weighed(k) ==
    /\ k.open \in Figure /\ k.high \in Figure /\ k.low \in Figure /\ k.close \in Figure
    /\ k.vol < MaxInt => k.amt * Scale <= k.high * k.vol
    /\ k.amt < MaxInt => k.low * k.vol <= k.amt * Scale + k.count * Scale
    /\ k.avg # MinInt

LEMMA ScaleBounds == Scale \in Nat /\ Scale >= 10 /\ MaxInt >= 10 /\ MaxInt \in Nat
<1>1. /\ Precision \in 1..Precision /\ Precision - 1 \in 0..Precision
      /\ Scale = 10 * Tens[Precision - 1]
  BY TensProperties
<1>2. Tens[Precision - 1] \in Nat \ {0}
  BY <1>1, TensProperties
<1>3. Scale <= MaxInt
  BY DecimalAssumption
<1> QED BY <1>1, <1>2, <1>3, Bounds

LEMMA NewWeighed ==
    ASSUME NEW price \in Figure
    PROVE  Weighed(NewKline(price))
<1>1. price \in Nat /\ price * 0 = 0 /\ 0 # MinInt /\ 0 * Scale = 0
  BY Bounds DEF Figure
<1>2. /\ NewKline(price).open = price /\ NewKline(price).high = price
      /\ NewKline(price).low = price /\ NewKline(price).close = price
      /\ NewKline(price).vol = 0 /\ NewKline(price).amt = 0
      /\ NewKline(price).count = 0 /\ NewKline(price).avg = 0
  BY DEF NewKline
<1> HIDE DEF NewKline
<1> QED BY <1>1, <1>2 DEF Weighed

(* A trade of a price between the two bounds keeps both. *)
LEMMA UpdateWeighed ==
    ASSUME NEW k \in Kline, Weighed(k), NEW t, Exact(t)
    PROVE  Weighed(Update(k, t))
<1> DEFINE u == Update(k, t)
<1>1. /\ k.open \in Nat /\ k.high \in Nat /\ k.low \in Nat
      /\ k.vol \in Nat /\ k.amt \in Nat /\ k.count \in Nat
      /\ k.vol \in Figure /\ k.amt \in Figure
      /\ t.price \in Nat /\ t.qty \in Nat /\ t.amount \in Nat
      /\ t.qty \in Figure /\ t.amount \in Figure /\ t.price \in Figure
      /\ t \in Trade
  BY Bounds DEF Kline, Exact, Figure, Weighed
<1>2. Scale \in Nat \ {0} /\ MaxInt \in Nat
  BY Bounds
<1>3. t.amount * Scale <= t.price * t.qty /\ t.price * t.qty < t.amount * Scale + Scale
  <2> DEFINE n == t.price * t.qty
  <2>1. n \in Nat
    BY <1>1
  <2>2. t.amount = n \div Scale
    BY DEF Exact, Product
  <2> HIDE DEF n
  <2>3. (n \div Scale) * Scale <= n /\ n < (n \div Scale) * Scale + Scale
    BY <1>2, <2>1, DivBounds
  <2> QED BY <2>2, <2>3 DEF n
<1>4. /\ u.vol = Add(k.vol, t.qty) /\ u.amt = Add(k.amt, t.amount) /\ u.count = k.count + 1
      /\ u.open = k.open /\ u.close = t.price /\ u.avg = k.avg
      /\ u.high = Higher(t.price, k.high) /\ u.low = Lower(t.price, k.low)
  BY DEF Update, Kline
<1>5. /\ u.vol = Clamp(k.vol + t.qty) /\ u.amt = Clamp(k.amt + t.amount)
  <2>1. Figure \subseteq D
    BY Bounds DEF Figure, D
  <2> HIDE DEF u
  <2> QED BY <1>1, <1>4, <2>1, AddSaturates
<1> HIDE DEF u
<1>6. /\ u.vol \in Nat /\ u.vol <= k.vol + t.qty
      /\ u.vol < MaxInt => u.vol = k.vol + t.qty /\ k.vol < MaxInt
      /\ u.amt \in Nat /\ u.amt <= k.amt + t.amount
      /\ u.amt < MaxInt => u.amt = k.amt + t.amount /\ k.amt < MaxInt
  BY <1>1, <1>2, <1>5, Bounds DEF Clamp
<1>7. /\ u.high \in Figure /\ k.high <= u.high /\ t.price <= u.high /\ u.high \in Nat
      /\ u.low \in Figure /\ u.low <= k.low /\ u.low <= t.price /\ u.low \in Nat
  <2>1. k.high \in Figure /\ k.low \in Figure
    BY DEF Weighed
  <2> QED BY <1>1, <1>4, <2>1 DEF Higher, Lower
<1>8. ASSUME u.vol < MaxInt PROVE u.amt * Scale <= u.high * u.vol
  <2>1. k.amt * Scale <= k.high * k.vol
    BY <1>6, <1>8 DEF Weighed
  <2>2. k.high * k.vol <= u.high * k.vol /\ t.price * t.qty <= u.high * t.qty
    BY <1>1, <1>7
  <2>3. u.high * u.vol = u.high * k.vol + u.high * t.qty
    BY <1>1, <1>6, <1>7, <1>8
  <2>4. u.amt * Scale <= k.amt * Scale + t.amount * Scale
    <3>1. u.amt * Scale <= (k.amt + t.amount) * Scale
      BY <1>1, <1>2, <1>6
    <3> QED BY <1>1, <1>2, <1>6, <3>1
  <2>5. \A a, b, c, d, e, f, g, h \in Int :
           a <= b + c /\ b <= d /\ d <= e /\ c <= f /\ f <= g /\ h = e + g => a <= h
    OBVIOUS
  <2>6. /\ u.amt * Scale \in Int /\ k.amt * Scale \in Int /\ t.amount * Scale \in Int
        /\ k.high * k.vol \in Int /\ u.high * k.vol \in Int /\ t.price * t.qty \in Int
        /\ u.high * t.qty \in Int /\ u.high * u.vol \in Int
    BY <1>1, <1>2, <1>6, <1>7
  <2> QED BY <1>3, <2>1, <2>2, <2>3, <2>4, <2>5, <2>6
<1>9. ASSUME u.amt < MaxInt PROVE u.low * u.vol <= u.amt * Scale + u.count * Scale
  <2>1. k.low * k.vol <= k.amt * Scale + k.count * Scale
    BY <1>6, <1>9 DEF Weighed
  <2>2. u.low * k.vol <= k.low * k.vol /\ u.low * t.qty <= t.price * t.qty
    BY <1>1, <1>7
  <2>3. u.low * u.vol <= u.low * k.vol + u.low * t.qty
    <3>1. u.low * u.vol <= u.low * (k.vol + t.qty)
      BY <1>1, <1>6, <1>7
    <3> QED BY <1>1, <1>6, <1>7, <3>1
  <2>4. /\ u.amt * Scale = k.amt * Scale + t.amount * Scale
        /\ u.count * Scale = k.count * Scale + Scale
    <3>1. \A a, b, c \in Nat : (a + b) * c = a * c + b * c
      OBVIOUS
    <3>2. u.amt = k.amt + t.amount /\ u.count = k.count + 1 /\ 1 * Scale = Scale
      BY <1>2, <1>4, <1>6, <1>9
    <3> QED BY <1>1, <1>2, <3>1, <3>2
  <2>5. \A a, b, c, d, e, f, g, h \in Int :
           a <= b + c /\ b <= d /\ d <= e + f /\ c <= g /\ g < h + Scale => a <= e + h + f + Scale
    BY <1>2
  <2>6. /\ u.low * u.vol \in Int /\ u.low * k.vol \in Int /\ u.low * t.qty \in Int
        /\ k.low * k.vol \in Int /\ k.amt * Scale \in Int /\ k.count * Scale \in Int
        /\ t.price * t.qty \in Int /\ t.amount * Scale \in Int
    BY <1>1, <1>2, <1>6, <1>7
  <2>7. u.low * u.vol <= k.amt * Scale + t.amount * Scale + k.count * Scale + Scale
    BY <1>3, <2>1, <2>2, <2>3, <2>5, <2>6
  <2> QED BY <1>2, <2>4, <2>6, <2>7
<1>10. u.open \in Figure /\ u.close \in Figure /\ u.avg # MinInt
  BY <1>1, <1>4 DEF Weighed
<1> QED BY <1>7, <1>8, <1>9, <1>10 DEF Weighed, u

(* The average is never the number that has no text; it is the quotient, rounded
   down, when its dividend fits the machine. *)
LEMMA QuoProperties ==
    ASSUME NEW k \in Kline, Weighed(k), k.vol > 0
    PROVE  /\ Quo(k.amt, k.vol) # MinInt
           /\ k.amt * Scale <= MaxInt => Quo(k.amt, k.vol) = (k.amt * Scale) \div k.vol
<1> DEFINE n == k.amt * Scale
           d == k.vol
           w == Wrap(n)
           q == Truncated(w, d)
<1>1. /\ MaxInt \in Nat /\ MaxInt >= 10 /\ Scale \in Nat \ {0} /\ MinInt = -MaxInt - 1
      /\ D = MinInt..MaxInt
  BY Bounds, ScaleBounds DEF D
<1>2. n \in Nat /\ d \in Nat \ {0} /\ Quo(k.amt, k.vol) = Wrap(q)
  BY <1>1 DEF Kline, Quo
<1>3. d = 1 => n <= MaxInt
  <2>1. d = 1 => n <= k.high
    <3>1. d < MaxInt => n <= k.high * d
      BY DEF Weighed
    <3>2. k.high \in Nat /\ k.high * 1 = k.high
      BY DEF Weighed, Figure
    <3> HIDE DEF n, d
    <3> QED BY <1>1, <3>1, <3>2
  <2>2. k.high \in Nat /\ k.high <= MaxInt
    BY DEF Weighed, Figure
  <2> HIDE DEF n, d
  <2> QED BY <1>1, <1>2, <2>1, <2>2
<1> HIDE DEF n, d
<1>4. w \in D /\ (n <= MaxInt => w = n)
  <2>1. n <= MaxInt => n \in D
    BY <1>1, <1>2
  <2> QED BY <1>2, <2>1, WrapProperties
<1> HIDE DEF w
<1>5. /\ w >= 0 => q = w \div d
      /\ w < 0 => q = -((-w) \div d)
  BY <1>1, <1>2, <1>4 DEF Truncated, Magnitude
<1>6. \A x \in Nat : x \div d \in Nat /\ x \div d <= x /\ (d > 1 => 2 * (x \div d) <= x)
  <2> SUFFICES ASSUME NEW x \in Nat
               PROVE  x \div d \in Nat /\ x \div d <= x /\ (d > 1 => 2 * (x \div d) <= x)
    OBVIOUS
  <2> DEFINE y == x \div d
  <2>1. y \in Nat /\ y * d <= x
    BY <1>2, DivBounds
  <2> HIDE DEF y
  <2>2. y * 1 <= y * d /\ (d > 1 => y * 2 <= y * d)
    BY <1>2, <2>1
  <2>3. y * d \in Int
    BY <1>2, <2>1
  <2> QED BY <2>1, <2>2, <2>3 DEF y
<1>7. n <= MaxInt => q = n \div d /\ q \in 0..MaxInt
  BY <1>1, <1>2, <1>4, <1>5, <1>6
<1>8. d > 1 => q \in (MinInt + 1)..MaxInt
  <2>1. CASE w >= 0
    <3> DEFINE y == w \div d
    <3>1. w \in Nat /\ w <= MaxInt
      BY <1>1, <1>4, <2>1
    <3>2. y \in Nat /\ y <= w
      BY <1>6, <3>1
    <3> HIDE DEF y
    <3>3. q = y
      BY <1>5, <2>1 DEF y
    <3> QED BY <1>1, <3>1, <3>2, <3>3
  <2>2. CASE w < 0
    <3>1. -w \in Nat /\ -w <= MaxInt + 1
      BY <1>1, <1>4, <2>2
    <3> DEFINE y == (-w) \div d
    <3>2. d > 1 => y \in Nat /\ 2 * y <= -w
      BY <1>6, <3>1
    <3> HIDE DEF y
    <3>3. q = -y
      BY <1>5, <2>2 DEF y
    <3> QED BY <1>1, <1>4, <3>1, <3>2, <3>3
  <2> QED BY <1>1, <1>4, <2>1, <2>2
<1> HIDE DEF q
<1>9. q \in (MinInt + 1)..MaxInt
  BY <1>1, <1>2, <1>3, <1>7, <1>8
<1>10. Wrap(q) = q /\ q # MinInt
  <2>1. q \in D /\ q \in Int /\ q # MinInt
    BY <1>1, <1>9
  <2> QED BY <2>1, WrapProperties
<1> QED BY <1>2, <1>7, <1>10 DEF n, d

LEMMA ComputeAvgWeighed ==
    ASSUME NEW k \in Kline, Weighed(k)
    PROVE  /\ Weighed(ComputeAvg(k))
           /\ k.vol > 0 => ComputeAvg(k).avg = Quo(k.amt, k.vol)
<1>1. CASE k.vol > 0
  <2> DEFINE q == Quo(k.amt, k.vol)
             c == ComputeAvg(k)
  <2>1. q # MinInt
    BY <1>1, QuoProperties
  <2>2. /\ c.open = k.open /\ c.high = k.high /\ c.low = k.low /\ c.close = k.close
        /\ c.vol = k.vol /\ c.amt = k.amt /\ c.count = k.count /\ c.avg = q
    BY <1>1 DEF ComputeAvg, Kline
  <2> HIDE DEF q, c
  <2> QED BY <2>1, <2>2 DEF Weighed, q, c
<1>2. CASE ~(k.vol > 0)
  BY <1>2 DEF ComputeAvg
<1> QED BY <1>1, <1>2

-----------------------------------------------------------------------------
(* The stored row *)

(* What is stored is read back as the kline it was. *)
LEMMA LoadedIs ==
    ASSUME NEW k \in Kline, Weighed(k)
    PROVE  Loaded(RowOf(k)) = k
<1> DEFINE row == RowOf(k)
<1>1. /\ DOMAIN k = Stored \cup {"count"} /\ "count" \notin Stored
      /\ k = [f \in DOMAIN k |-> k[f]]
  BY DEF Kline, Stored
<1>2. \A f \in Stored : k[f] \in D /\ k[f] # MinInt
  <2>1. Figure \subseteq D /\ MinInt \notin Figure
    BY Bounds DEF Figure, D
  <2>2. /\ k.open \in Figure /\ k.high \in Figure /\ k.low \in Figure /\ k.close \in Figure
        /\ k.vol \in Figure /\ k.amt \in Figure /\ k.buyVol \in Figure /\ k.buyAmt \in Figure
        /\ k.avg \in D /\ k.avg # MinInt
    BY DEF Kline, Weighed, Figure
  <2> QED BY <2>1, <2>2 DEF Stored
<1>3. DOMAIN row = DOMAIN k /\ row.count = k.count /\ \A f \in Stored : row[f] = String(k[f])
  BY <1>1 DEF RowOf, Stored
<1> HIDE DEF row
<1>4. ASSUME NEW f \in DOMAIN k
      PROVE  (IF f \in Stored THEN FromString(Column(row[f])) ELSE row[f]) = k[f]
  <2>1. CASE f \in Stored
    <3>1. FromString(Column(String(k[f]))) = k[f]
      BY <1>2, <2>1, ColumnReadsBack
    <3> QED BY <1>3, <2>1, <3>1
  <2>2. CASE f \notin Stored
    BY <1>1, <1>3, <2>2
  <2> QED BY <2>1, <2>2
<1>5. Loaded(row) = [f \in DOMAIN k |-> k[f]]
  BY <1>3, <1>4 DEF Loaded
<1> QED BY <1>1, <1>5 DEF row

(* The row is of a kline that had the figures of the trades handled then. *)
Kept(k) ==
    /\ k \in Kline /\ Weighed(k) /\ saved.row = RowOf(k)
    /\ k.vol > 0 => k.avg = Quo(k.amt, k.vol)
    /\ saved.after > 0 => Agree(k, Figures(SubSeq(trades, 1, saved.after)))

RowInv == Weighed(wide) /\ \E k \in Kline : Kept(k)

(* The first trades are the same after one more. *)
LEMMA FirstTrades ==
    ASSUME NEW ts \in Seq(Trade), NEW t \in Trade, NEW n \in 0..Len(ts)
    PROVE  SubSeq(Append(ts, t), 1, n) = SubSeq(ts, 1, n) /\ SubSeq(ts, 1, Len(ts)) = ts
<1> DEFINE us == Append(ts, t)
           l == Len(ts)
<1>1. l \in Nat /\ n \in Nat /\ n <= l /\ us \in Seq(Trade) /\ Len(us) = l + 1
      /\ \A i \in 1..l : us[i] = ts[i]
  OBVIOUS
<1> HIDE DEF us
<1>2. SubSeq(us, 1, n) = SubSeq(ts, 1, n)
  <2> DEFINE a == SubSeq(us, 1, n)
             b == SubSeq(ts, 1, n)
  <2>1. n <= Len(us) /\ n <= Len(ts) /\ \A i \in 1..n : i \in 1..l
    BY <1>1
  <2>2. /\ a \in Seq(Trade) /\ Len(a) = n /\ \A i \in 1..n : a[i] = us[i]
        /\ b \in Seq(Trade) /\ Len(b) = n /\ \A i \in 1..n : b[i] = ts[i]
    BY <1>1, <2>1, PrefixIs
  <2> HIDE DEF a, b
  <2>3. \A i \in 1..n : a[i] = b[i]
    BY <1>1, <2>1, <2>2
  <2> QED BY <2>2, <2>3, SeqEqual DEF a, b
<1>3. SubSeq(ts, 1, l) = ts
  <2> DEFINE a == SubSeq(ts, 1, l)
  <2>1. l <= Len(ts) /\ l \in Nat
    BY <1>1
  <2>2. a \in Seq(Trade) /\ Len(a) = Len(ts) /\ \A i \in 1..l : a[i] = ts[i]
    BY <2>1, PrefixIs
  <2> HIDE DEF a
  <2> QED BY <2>2, SeqEqual DEF a
<1> QED BY <1>2, <1>3 DEF us

LEMMA RowInvInit == Init => RowInv
<1> SUFFICES ASSUME Init PROVE RowInv
  OBVIOUS
<1> DEFINE k == NewKline(0)
<1>1. wide = k /\ saved = [row |-> RowOf(k), after |-> 0]
  BY DEF Init
<1>2. 0 \in Figure /\ 0 \in D
  BY Bounds DEF Figure, D
<1>3. k \in Kline /\ Weighed(k)
  BY <1>2, NewKlineProperties, NewWeighed
<1>4. k.vol = 0
  BY DEF NewKline
<1> HIDE DEF k
<1>5. Kept(k)
  BY <1>1, <1>3, <1>4 DEF Kept
<1> QED BY <1>1, <1>3, <1>5 DEF RowInv

LEMMA AddTradeKeeps ==
    ASSUME CandleInv, RowInv, NEW tick \in Ticks, NEW later \in BOOLEAN, AddTrade(tick, later)
    PROVE  RowInv'
<1> DEFINE t == NewTradeFromTick(tick)
           base == IF trades = <<>> THEN NewKline(t.price) ELSE wide
<1>1. trades' = Append(trades, t) /\ wide' = Update(base, t) /\ saved' = saved
  BY DEF AddTrade
<1>2. Exact(t) /\ t \in Trade /\ t.price \in Figure /\ t.price \in D
  BY TradeExact DEF Exact, Trade
<1> HIDE DEF t
<1>3. trades \in Seq(Trade) /\ wide \in Kline /\ Weighed(wide) /\ saved.after \in 0..Len(trades)
  BY DEF CandleInv, TypeOK, RowInv
<1>4. base \in Kline /\ Weighed(base)
  BY <1>2, <1>3, NewKlineProperties, NewWeighed
<1> HIDE DEF base
<1>5. Weighed(wide')
  BY <1>1, <1>2, <1>4, UpdateWeighed
<1>6. PICK k \in Kline : Kept(k)
  BY DEF RowInv
<1>7. SubSeq(trades', 1, saved.after) = SubSeq(trades, 1, saved.after)
  BY <1>1, <1>2, <1>3, FirstTrades
<1>8. Kept(k)'
  BY <1>1, <1>6, <1>7 DEF Kept
<1> QED BY <1>5, <1>8 DEF RowInv

LEMMA SaveKeeps ==
    ASSUME CandleInv, KlineRight, RowInv, Save
    PROVE  RowInv'
<1>1. /\ trades # <<>> /\ trades' = trades /\ wide' = ComputeAvg(wide)
      /\ saved' = [row |-> RowOf(wide'), after |-> Len(trades)]
  BY DEF Save
<1>2. trades \in Seq(Trade) /\ wide \in Kline /\ Consistent(wide) /\ Weighed(wide)
  BY DEF CandleInv, TypeOK, FiguresSound, RowInv
<1>3. /\ wide' \in Kline /\ Weighed(wide')
      /\ wide.vol > 0 => wide'.avg = Quo(wide.amt, wide.vol)
  BY <1>1, <1>2, ComputeAvgProperties, ComputeAvgWeighed
<1>4. \A f \in DOMAIN wide \ {"avg"} : wide'[f] = wide[f]
  BY <1>1, <1>2, ComputeAvgProperties
<1>5. wide'.vol = wide.vol /\ wide'.amt = wide.amt
  BY <1>2, <1>4 DEF Kline
<1> DEFINE figures == Figures(trades)
<1>6. Agree(wide', figures)
  <2>1. DOMAIN figures \subseteq DOMAIN wide \ {"avg"}
    BY <1>2 DEF Figures, Kline
  <2>2. Agree(wide, figures)
    BY <1>1 DEF KlineRight
  <2> HIDE DEF figures
  <2> QED BY <1>4, <2>1, <2>2 DEF Agree
<1>7. SubSeq(trades, 1, Len(trades)) = trades
  <2>1. PICK t \in Trade : TRUE
    BY <1>1, <1>2
  <2>2. 0 \in 0..Len(trades)
    BY <1>2
  <2> QED BY <1>2, <2>1, <2>2, FirstTrades
<1>8. /\ saved'.row = RowOf(wide') /\ saved'.after = Len(trades)
  BY <1>1
<1>9. Agree(wide', Figures(SubSeq(trades', 1, saved'.after)))
  BY <1>1, <1>6, <1>7, <1>8
<1> DEFINE k == wide'
<1>10. /\ k \in Kline /\ Weighed(k) /\ saved'.row = RowOf(k)
       /\ k.vol > 0 => k.avg = Quo(k.amt, k.vol)
       /\ Agree(k, Figures(SubSeq(trades', 1, saved'.after)))
  BY <1>3, <1>5, <1>8, <1>9
<1> HIDE DEF k
<1>11. \E l \in Kline : Kept(l)'
  BY <1>10 DEF Kept
<1> QED BY <1>3, <1>11 DEF RowInv

LEMMA RowsAreKept == Spec => []RowInv
<1>1. CandleInv /\ KlineRight /\ RowInv /\ [Next]_candle => RowInv'
  <2> SUFFICES ASSUME CandleInv, KlineRight, RowInv, [Next]_candle PROVE RowInv'
    OBVIOUS
  <2>1. CASE UNCHANGED candle
    BY <2>1 DEF candle, RowInv, Kept
  <2> QED BY <2>1, AddTradeKeeps, SaveKeeps DEF Next
<1> QED BY <1>1, RowInvInit, FiguresAreSound, KlineAlwaysRight, PTL DEF Spec, CandleInv

(* Every row is read back as the kline that was saved, which had the figures of
   the trades handled until then, and the trimmed text of every figure as the
   figure, for any number of digits. *)
THEOREM RowsReadBack == Spec => []RowReadsBack
<1>1. CandleInv /\ RowInv => RowReadsBack
  <2> SUFFICES ASSUME CandleInv, RowInv, saved.after > 0
               PROVE  /\ Agree(Loaded(saved.row), Figures(SubSeq(trades, 1, saved.after)))
                      /\ \A f \in Stored : FromString(Trimmed(wide[f])) = wide[f]
    BY DEF RowReadsBack
  <2>1. PICK k \in Kline : Kept(k)
    BY DEF RowInv
  <2>2. Loaded(saved.row) = k
    BY <2>1, LoadedIs DEF Kept
  <2>3. Agree(Loaded(saved.row), Figures(SubSeq(trades, 1, saved.after)))
    BY <2>1, <2>2 DEF Kept
  <2>4. \A f \in Stored : wide[f] \in D /\ wide[f] # MinInt
    <3>1. Figure \subseteq D /\ MinInt \notin Figure
      BY Bounds DEF Figure, D
    <3>2. wide \in Kline /\ Weighed(wide)
      BY DEF CandleInv, TypeOK, RowInv
    <3>3. /\ wide.open \in Figure /\ wide.high \in Figure /\ wide.low \in Figure
          /\ wide.close \in Figure /\ wide.vol \in Figure /\ wide.amt \in Figure
          /\ wide.buyVol \in Figure /\ wide.buyAmt \in Figure
          /\ wide.avg \in D /\ wide.avg # MinInt
      BY <3>2 DEF Kline, Weighed, Figure
    <3> QED BY <3>1, <3>3 DEF Stored
  <2> QED BY <2>3, <2>4, TrimmedReadsBack
<1> QED BY <1>1, RowsAreKept, FiguresAreSound, PTL DEF CandleInv

(* The stored average lies between the lowest and the highest price, but for what
   the divisions lose, unless its dividend or a total leaves the machine. *)
THEOREM AverageIsBetween == Spec => []AverageBetween
<1>1. RowInv => AverageBetween
  <2> SUFFICES ASSUME RowInv PROVE AverageBetween
    OBVIOUS
  <2>1. PICK k \in Kline : Kept(k)
    BY DEF RowInv
  <2>2. Loaded(saved.row) = k /\ Weighed(k) /\ (k.vol > 0 => k.avg = Quo(k.amt, k.vol))
    BY <2>1, LoadedIs DEF Kept
  <2>3. SUFFICES ASSUME k.vol > 0, k.vol < MaxInt, k.amt * Scale <= MaxInt
                 PROVE  k.avg <= k.high /\ k.low * k.vol < (k.avg + 1) * k.vol + k.count * Scale
    BY <2>2 DEF AverageBetween
  <2> DEFINE n == k.amt * Scale
             d == k.vol
             a == k.avg
             h == k.high
  <2>4. n \in Nat /\ d \in Nat \ {0} /\ h \in Nat /\ k.low \in Nat /\ k.count \in Nat
        /\ Scale \in Nat /\ k.low * d \in Int /\ k.count * Scale \in Int
    BY <2>2, <2>3, Bounds DEF Kline, Weighed, Figure
  <2>5. a = n \div d
    BY <2>2, <2>3, QuoProperties
  <2>6. n <= h * d
    BY <2>2, <2>3 DEF Weighed
  <2>7. k.low * d <= n + k.count * Scale
    <3>1. k.amt < MaxInt
      <4>1. k.amt \in Nat /\ k.amt * 10 <= k.amt * Scale
        BY ScaleBounds DEF Kline
      <4>2. k.amt * Scale \in Int
        BY <2>4
      <4> QED BY <2>3, <4>1, <4>2, ScaleBounds
    <3> QED BY <2>2, <3>1 DEF Weighed
  <2> HIDE DEF n, d, a, h
  <2>8. a \in Nat /\ a * d <= n /\ n < a * d + d
    BY <2>4, <2>5, DivBounds
  <2>9. a <= h
    <3>1. a > h => (h + 1) * d <= a * d
      BY <2>4, <2>8
    <3>2. (h + 1) * d = h * d + d /\ h * d \in Int /\ a * d \in Int
      BY <2>4, <2>8
    <3> QED BY <2>4, <2>6, <2>8, <3>1, <3>2
  <2>10. k.low * d < (a + 1) * d + k.count * Scale
    <3>1. (a + 1) * d = a * d + d /\ a * d \in Int
      BY <2>4, <2>8
    <3> QED BY <2>4, <2>7, <2>8, <3>1
  <2> QED BY <2>9, <2>10 DEF a, d, h
<1> QED BY <1>1, RowsAreKept, PTL

-----------------------------------------------------------------------------
(* Days *)

(* A time between the starts of two days is of a day between them. *)
LEMMA DayBetween ==
    ASSUME NEW t \in Nat, NEW w \in Nat \ {0}, NEW a \in Int, NEW b \in Int
    PROVE  a * w <= t /\ t < b * w <=> a <= t \div w /\ t \div w < b
<1> DEFINE d == t \div w
<1>1. d \in Nat /\ d * w <= t /\ t < (d + 1) * w
  BY DivBounds
<1> HIDE DEF d
<1>2. ASSUME NEW i \in Int, NEW j \in Int, i <= j PROVE i * w <= j * w
  BY <1>2
<1>3. a <= d => a * w <= t
  BY <1>1, <1>2
<1>4. d < b => t < b * w
  <2>1. d < b => (d + 1) * w <= b * w
    BY <1>1, <1>2
  <2> QED BY <1>1, <2>1
<1>5. a * w <= t => a <= d
  <2>1. d < a => (d + 1) * w <= a * w
    BY <1>1, <1>2
  <2> QED BY <1>1, <2>1
<1>6. t < b * w => d < b
  <2>1. b <= d => b * w <= d * w
    BY <1>1, <1>2
  <2> QED BY <1>1, <2>1
<1>7. a * w <= t /\ t < b * w <=> a <= d /\ d < b
  BY <1>3, <1>4, <1>5, <1>6
<1> QED BY <1>7 DEF d

(* The start of a day is of that day. *)
LEMMA DayOfStart ==
    ASSUME NEW d \in Int, NEW w \in Nat \ {0}
    PROVE  (d * w) \div w = d
  BY DivUnique

-----------------------------------------------------------------------------
(* The calendar *)

LEMMA YearsAscend ==
    ASSUME NEW y \in Nat, NEW z \in Nat, 1970 <= y, y <= z
    PROVE  YearStart(z) \in Int /\ YearStart(z) >= YearStart(y) + 365 * (z - y)
  BY DEF YearStart

LEMMA FirstYear == YearStart(1970) = 0
  BY DEF YearStart

LEMMA YearLong ==
    ASSUME NEW y \in Nat, 1970 <= y
    PROVE  YearStart(y) \in Nat /\ YearStart(y + 1) - YearStart(y) \in {365, 366}
  BY DEF YearStart

(* A day is of one year only. *)
LEMMA YearUnique ==
    ASSUME NEW d \in Int, NEW y \in Nat, NEW z \in Nat, 1970 <= y, 1970 <= z,
           YearStart(y) <= d, d < YearStart(y + 1),
           YearStart(z) <= d, d < YearStart(z + 1)
    PROVE  y = z
<1>1. ASSUME NEW a \in Nat, NEW b \in Nat, 1970 <= a, a < b
      PROVE  YearStart(a + 1) <= YearStart(b)
  BY <1>1, YearsAscend, YearLong
<1>2. ~(y < z)
  BY <1>1, YearLong
<1>3. ~(z < y)
  BY <1>1, YearLong
<1> QED BY <1>2, <1>3

(* Every day before the last year is of a year that the search finds. *)
LEMMA YearExists ==
    ASSUME NEW d \in Nat, d < 365 * (LastYear - 1970)
    PROVE  \E y \in 1970..(LastYear - 1) : YearStart(y) <= d /\ d < YearStart(y + 1)
<1> USE IntervalsAssumption
<1> DEFINE S == {y \in Nat : 1970 <= y /\ d < YearStart(y + 1)}
<1>0. LastYear \in Nat /\ LastYear - 1 \in Nat /\ 1970 <= LastYear - 1
  OBVIOUS
<1>1. S \in SUBSET Nat /\ LastYear - 1 \in S
  <2>1. YearStart(LastYear) >= YearStart(1970) + 365 * (LastYear - 1970)
    BY <1>0, YearsAscend
  <2> QED BY <1>0, <2>1, FirstYear, YearsAscend
<1>2. PICK y \in S : \A z \in S : y <= z
  <2> HIDE DEF S
  <2> QED BY <1>1, LeastNatural
<1>3. y \in 1970..(LastYear - 1) /\ d < YearStart(y + 1)
  BY <1>0, <1>1, <1>2
<1>4. YearStart(y) <= d
  <2>1. CASE y = 1970
    BY <2>1, FirstYear
  <2>2. CASE y # 1970
    <3>1. y - 1 \in Nat /\ 1970 <= y - 1 /\ y - 1 \notin S /\ (y - 1) + 1 = y
      BY <1>2, <1>3, <2>2
    <3>2. ~(d < YearStart(y))
      BY <3>1
    <3> QED BY <3>1, <3>2, YearLong
  <2> QED BY <2>1, <2>2
<1> QED BY <1>3, <1>4

(* The search finds the year of a day. *)
LEMMA YearOfProperties ==
    ASSUME NEW d \in Nat, NEW y \in 1970..LastYear, YearStart(y) <= d, d < YearStart(y + 1)
    PROVE  YearOf(d) = y
<1> USE IntervalsAssumption
<1>1. /\ YearOf(d) \in 1970..LastYear
      /\ YearStart(YearOf(d)) <= d /\ d < YearStart(YearOf(d) + 1)
  BY DEF YearOf
<1> HIDE DEF YearOf
<1> QED BY <1>1, YearUnique

(* The starts of the months of a year. *)
LEMMA MonthStarts ==
    ASSUME NEW y \in Nat, 1970 <= y
    PROVE  /\ MonthStart(y, 1) = YearStart(y)
           /\ MonthStart(y, 13) = YearStart(y + 1)
           /\ \A m \in 1..13 : MonthStart(y, m) \in Nat
           /\ \A m \in 1..12 : MonthStart(y, m) < MonthStart(y, m + 1)
<1> DEFINE s == YearStart(y)
           leap == IF Leap(y) THEN 1 ELSE 0
<1>1. s \in Nat /\ YearStart(y + 1) = s + 365 + leap /\ leap \in {0, 1}
  BY YearLong DEF Leap
<1>2. /\ MonthStart(y, 1) = s /\ MonthStart(y, 2) = s + 31
      /\ MonthStart(y, 3) = s + 59 + leap /\ MonthStart(y, 4) = s + 90 + leap
      /\ MonthStart(y, 5) = s + 120 + leap /\ MonthStart(y, 6) = s + 151 + leap
      /\ MonthStart(y, 7) = s + 181 + leap /\ MonthStart(y, 8) = s + 212 + leap
      /\ MonthStart(y, 9) = s + 243 + leap /\ MonthStart(y, 10) = s + 273 + leap
      /\ MonthStart(y, 11) = s + 304 + leap /\ MonthStart(y, 12) = s + 334 + leap
  BY <1>1 DEF MonthStart, DaysBefore
<1>3. MonthStart(y, 13) = s + 365 + leap
  BY <1>1 DEF MonthStart
<1> HIDE DEF s, leap
<1>4. /\ \A m \in 1..13 : MonthStart(y, m) \in Nat
      /\ \A m \in 1..12 : MonthStart(y, m) < MonthStart(y, m + 1)
  <2>1. 1..13 = {1, 2, 3, 4, 5, 6, 7, 8, 9, 10, 11, 12, 13}
        /\ 1..12 = {1, 2, 3, 4, 5, 6, 7, 8, 9, 10, 11, 12}
    OBVIOUS
  <2> QED BY <1>1, <1>2, <1>3, <2>1
<1> QED BY <1>1, <1>2, <1>3, <1>4 DEF s

(* Every day of a year is of a month of it, and of one only. *)
LEMMA MonthExists ==
    ASSUME NEW y \in Nat, 1970 <= y, NEW d \in Nat,
           YearStart(y) <= d, d < YearStart(y + 1)
    PROVE  \E m \in 1..12 : MonthStart(y, m) <= d /\ d < MonthStart(y, m + 1)
<1> DEFINE S == {m \in Nat : m \in 1..12 /\ d < MonthStart(y, m + 1)}
<1>1. S \in SUBSET Nat /\ 12 \in S
  BY MonthStarts
<1>2. PICK m \in S : \A n \in S : m <= n
  <2> HIDE DEF S
  <2> QED BY <1>1, LeastNatural
<1>3. m \in 1..12 /\ d < MonthStart(y, m + 1)
  BY <1>2
<1>4. MonthStart(y, m) <= d
  <2>1. CASE m = 1
    BY <2>1, MonthStarts
  <2>2. CASE m # 1
    <3>1. m - 1 \in 1..12 /\ m - 1 \notin S /\ (m - 1) + 1 = m
      BY <1>2, <1>3, <2>2
    <3>2. ~(d < MonthStart(y, m))
      BY <3>1
    <3> QED BY <1>3, <3>2, MonthStarts
  <2> QED BY <2>1, <2>2
<1> QED BY <1>3, <1>4

LEMMA MonthsAscend ==
    ASSUME NEW y \in Nat, 1970 <= y, NEW m \in 1..13, NEW n \in 1..13, m <= n
    PROVE  MonthStart(y, m) <= MonthStart(y, n)
<1> DEFINE start == [i \in 1..13 |-> MonthStart(y, i)]
<1>1. \A i \in 1..13 : start[i] \in Nat
  BY MonthStarts
<1>2. \A i \in 1..12 : start[i] < start[i + 1]
  BY MonthStarts
<1>3. start[m] <= start[n]
  <2> HIDE DEF start
  <2>1. /\ start[1] < start[2] /\ start[2] < start[3] /\ start[3] < start[4]
        /\ start[4] < start[5] /\ start[5] < start[6] /\ start[6] < start[7]
        /\ start[7] < start[8] /\ start[8] < start[9] /\ start[9] < start[10]
        /\ start[10] < start[11] /\ start[11] < start[12] /\ start[12] < start[13]
    BY <1>2
  <2>2. 1..13 = {1, 2, 3, 4, 5, 6, 7, 8, 9, 10, 11, 12, 13}
    OBVIOUS
  <2> QED BY <1>1, <2>1, <2>2
<1> QED BY <1>3

(* The search finds the month of a day. *)
LEMMA MonthOfProperties ==
    ASSUME NEW y \in 1970..LastYear, NEW m \in 1..12, NEW d \in Nat,
           MonthStart(y, m) <= d, d < MonthStart(y, m + 1)
    PROVE  YearOf(d) = y /\ MonthOf(d) = m
<1> USE IntervalsAssumption
<1>0. y \in Nat /\ m \in 1..13 /\ m + 1 \in 1..13 /\ 1 \in 1..13 /\ 13 \in 1..13
  OBVIOUS
<1>1. \A i \in 1..13 : MonthStart(y, i) \in Nat
  BY <1>0, MonthStarts
<1>2. YearOf(d) = y
  <2>1. YearStart(y) <= MonthStart(y, m) /\ MonthStart(y, m + 1) <= YearStart(y + 1)
    <3>1. MonthStart(y, 1) <= MonthStart(y, m) /\ MonthStart(y, m + 1) <= MonthStart(y, 13)
      BY <1>0, MonthsAscend
    <3> QED BY <1>0, <3>1, MonthStarts
  <2>2. YearStart(y) <= d /\ d < YearStart(y + 1)
    BY <1>0, <1>1, <2>1, YearLong
  <2> QED BY <2>2, YearOfProperties
<1>3. /\ MonthOf(d) \in 1..12
      /\ MonthStart(y, MonthOf(d)) <= d /\ d < MonthStart(y, MonthOf(d) + 1)
  BY <1>2 DEF MonthOf
<1> HIDE DEF MonthOf
<1>4. ASSUME NEW i \in 1..12, NEW j \in 1..12, i < j,
             MonthStart(y, j) <= d, d < MonthStart(y, i + 1)
      PROVE  FALSE
  <2>1. MonthStart(y, i + 1) <= MonthStart(y, j)
    BY <1>0, <1>4, MonthsAscend
  <2>2. MonthStart(y, i + 1) \in Nat /\ MonthStart(y, j) \in Nat
    BY <1>1, <1>4
  <2> QED BY <1>4, <2>1, <2>2
<1>5. ~(MonthOf(d) < m) /\ ~(m < MonthOf(d))
  BY <1>3, <1>4
<1> QED BY <1>2, <1>3, <1>5

-----------------------------------------------------------------------------
(* Windows *)

(* A window [start, end) of an interval: the times in it, and no other, are
   aligned to its start; its close and length agree with its end. *)
IsWindow(name, start, end) ==
    /\ start \in Int /\ end \in Nat /\ start < end
    /\ \A u \in Nat : start <= u /\ u < end => Align(name, u) = start
    /\ CloseTime(name, start) = end - 1 /\ Length(name, start) = end - start
    /\ Align(name, end) = end

(* The intervals are of three kinds, which the code tells apart by name. *)
LEMMA Kinds ==
    /\ \A name \in DOMAIN Widths :
          /\ name \notin {Week, Month, Year}
          /\ Widths[name] \in Nat \ {0}
          /\ Width(name) = Widths[name]
          /\ \A t : Align(name, t) = AlignN(t, Widths[name])
    /\ Width(Week) = 7 * Day /\ Width(Month) = 0 /\ Width(Year) = 0
    /\ \A t : /\ Align(Week, t) = AlignWeek(t)
             /\ Align(Month, t) = AlignMonth(t)
             /\ Align(Year, t) = AlignYear(t)
<1> USE IntervalsAssumption DEF Week, Month, Year
<1>1. Week \notin DOMAIN Widths /\ Month \notin DOMAIN Widths /\ Year \notin DOMAIN Widths
  OBVIOUS
<1>2. ASSUME NEW name \in DOMAIN Widths
      PROVE  /\ name \notin {Week, Month, Year}
             /\ Widths[name] \in Nat \ {0}
             /\ Width(name) = Widths[name]
             /\ \A t : Align(name, t) = AlignN(t, Widths[name])
  <2>1. name \notin {Week, Month, Year} /\ Widths[name] \in Nat \ {0}
    BY <1>1
  <2> QED BY <2>1 DEF Width, Align
<1>3. Width(Week) = 7 * Day /\ Width(Month) = 0 /\ Width(Year) = 0
  BY <1>1 DEF Width
<1>4. ASSUME NEW t
      PROVE  /\ Align(Week, t) = AlignWeek(t)
             /\ Align(Month, t) = AlignMonth(t)
             /\ Align(Year, t) = AlignYear(t)
  BY <1>1 DEF Align
<1> QED BY <1>2, <1>3, <1>4

(* The close time and length of a window of fixed width. *)
LEMMA CloseOfWidth ==
    ASSUME NEW name, NEW start, Width(name) > 0
    PROVE  CloseTime(name, start) = start + Width(name) - 1 /\ Length(name, start) = Width(name)
<1>1. name # Month
  BY Kinds
<1> QED BY <1>1 DEF CloseTime, Length

(* Intervals of a fixed width. *)
LEMMA FixedWindow ==
    ASSUME NEW name \in DOMAIN Widths, NEW t \in Nat
    PROVE  \E end : IsWindow(name, Align(name, t), end) /\ Align(name, t) <= t /\ t < end
<1> DEFINE w == Widths[name]
           q == t \div w
           start == q * w
           end == start + w
<1>1. w \in Nat \ {0} /\ Width(name) = w /\ \A u : Align(name, u) = AlignN(u, w)
  BY Kinds
<1>2. Align(name, t) = start /\ q \in Nat /\ start \in Nat /\ start <= t /\ t < end
  <2>1. q \in Nat /\ q * w <= t /\ t < q * w + w
    BY <1>1, DivBounds
  <2>2. q * w \in Nat
    BY <1>1, <2>1
  <2> QED BY <1>1, <2>1, <2>2 DEF AlignN
<1> HIDE DEF w, q
<1>3. ASSUME NEW u \in Nat, start <= u, u < end PROVE Align(name, u) = start
  <2>1. u \div w = q
    BY <1>1, <1>2, <1>3, DivUnique
  <2> QED BY <1>1, <2>1 DEF AlignN
<1>4. Align(name, end) = end
  <2>1. (q + 1) * w = end /\ q + 1 \in Int
    BY <1>1, <1>2
  <2>2. ((q + 1) * w) \div w = q + 1
    BY <1>1, <2>1, DayOfStart
  <2> QED BY <1>1, <2>1, <2>2 DEF AlignN
<1>5. CloseTime(name, start) = end - 1 /\ Length(name, start) = end - start
  <2>1. CloseTime(name, start) = start + Width(name) - 1 /\ Length(name, start) = Width(name)
    BY <1>1, CloseOfWidth
  <2> QED BY <1>1, <1>2, <2>1
<1> QED BY <1>1, <1>2, <1>3, <1>4, <1>5 DEF IsWindow

(* The Monday a time is aligned to. *)
Monday(t) ==
    LET d == t \div Day IN d - ((IF Weekday(d) = 0 THEN 7 ELSE Weekday(d)) - 1)

LEMMA MondayProperties ==
    ASSUME NEW t \in Nat
    PROVE  /\ Monday(t) \in Int /\ Weekday(Monday(t)) = 1
           /\ Monday(t) <= t \div Day /\ t \div Day < Monday(t) + 7
           /\ AlignWeek(t) = Monday(t) * Day
<1> USE IntervalsAssumption
<1> DEFINE d == t \div Day
           weekday == IF Weekday(d) = 0 THEN 7 ELSE Weekday(d)
<1>1. d \in Nat
  BY DivBounds
<1>2. AlignWeek(t) = Monday(t) * Day /\ Monday(t) = d - (weekday - 1)
  BY DEF AlignWeek, Monday
<1> HIDE DEF d
<1>3. Weekday(d) \in 0..6 /\ weekday \in 1..7
  BY <1>1 DEF Weekday
<1>4. Weekday(d - (weekday - 1)) = 1
  BY <1>1 DEF Weekday
<1>5. Monday(t) \in Int /\ Weekday(Monday(t)) = 1 /\ Monday(t) <= d /\ d < Monday(t) + 7
  BY <1>1, <1>2, <1>3, <1>4
<1> QED BY <1>2, <1>5 DEF d

LEMMA MondaysApart ==
    ASSUME NEW a \in Int, NEW b \in Int, NEW d \in Int,
           Weekday(a) = 1, Weekday(b) = 1, a <= d, d < a + 7, b <= d, d < b + 7
    PROVE  a = b
  BY DEF Weekday

(* The times of the seven days from a Monday on are aligned to it. *)
LEMMA SameMonday ==
    ASSUME NEW u \in Nat, NEW m \in Int, Weekday(m) = 1, m * Day <= u, u < (m + 7) * Day
    PROVE  Monday(u) = m
<1>1. \E e \in Int : /\ m <= e /\ e < m + 7
                     /\ Monday(u) \in Int /\ Weekday(Monday(u)) = 1
                     /\ Monday(u) <= e /\ e < Monday(u) + 7
  <2>1. m * Day <= u /\ u < (m + 7) * Day <=> m <= u \div Day /\ u \div Day < m + 7
    BY IntervalsAssumption, DayBetween
  <2>2. u \div Day \in Int
    BY IntervalsAssumption
  <2> QED BY <2>1, <2>2, MondayProperties
<1> QED BY <1>1, MondaysApart

(* Weeks. *)
LEMMA WeekWindow ==
    ASSUME NEW t \in Nat
    PROVE  \E end : IsWindow(Week, Align(Week, t), end) /\ Align(Week, t) <= t /\ t < end
<1> USE IntervalsAssumption
<1> DEFINE d == t \div Day
           monday == Monday(t)
           start == monday * Day
           end == (monday + 7) * Day
<1>1. d \in Nat /\ monday \in Int /\ Weekday(monday) = 1 /\ monday <= d /\ d < monday + 7
  <2>1. d \in Nat
    BY DivBounds
  <2>2. monday \in Int /\ Weekday(monday) = 1 /\ monday <= d /\ d < monday + 7
    BY MondayProperties
  <2> QED BY <2>1, <2>2
<1>2. Align(Week, t) = start
  BY MondayProperties, Kinds
<1> HIDE DEF monday
<1>3. start <= t /\ t < end
  <2>1. monday * Day <= t /\ t < (monday + 7) * Day <=> monday <= d /\ d < monday + 7
    BY <1>1, DayBetween
  <2> QED BY <1>1, <2>1
<1>4. start \in Int /\ end \in Nat /\ end = start + 7 * Day /\ start < end
  BY <1>1
<1> HIDE DEF start, end
<1>5. ASSUME NEW u \in Nat, start <= u, u < end PROVE Align(Week, u) = start
  <2>1. Monday(u) = monday
    BY <1>1, <1>5, SameMonday DEF start, end
  <2> QED BY <2>1, MondayProperties, Kinds DEF start
<1>6. Align(Week, end) = end
  <2>1. end \div Day = monday + 7 /\ monday + 7 \in Nat
    BY <1>1, DayOfStart DEF end
  <2>2. Weekday(monday + 7) = 1
    BY <1>1 DEF Weekday
  <2>3. /\ Monday(end) \in Int /\ Weekday(Monday(end)) = 1
        /\ Monday(end) <= monday + 7 /\ monday + 7 < Monday(end) + 7
    BY <1>4, <2>1, MondayProperties
  <2>4. Monday(end) = monday + 7
    BY <1>1, <2>1, <2>2, <2>3, MondaysApart
  <2> QED BY <1>4, <2>4, MondayProperties, Kinds DEF end
<1>7. CloseTime(Week, start) = end - 1 /\ Length(Week, start) = end - start
  <2>1. Width(Week) = 7 * Day /\ 7 * Day > 0
    BY Kinds
  <2>2. CloseTime(Week, start) = start + 7 * Day - 1 /\ Length(Week, start) = 7 * Day
    BY <2>1, CloseOfWidth
  <2> QED BY <1>4, <2>2
<1> QED BY <1>2, <1>3, <1>4, <1>5, <1>6, <1>7 DEF IsWindow

(* A day of the horizon is before the last year. *)
LEMMA DayOfHorizon ==
    ASSUME NEW t \in 0..Horizon
    PROVE  t \div Day \in Nat /\ t \div Day < 365 * (LastYear - 1970)
<1> USE IntervalsAssumption
<1> DEFINE last == 365 * (LastYear - 1970)
<1>1. last \in Int /\ last * Day = 365 * Day * (LastYear - 1970)
  OBVIOUS
<1> HIDE DEF last
<1>2. t \in Nat /\ t < last * Day /\ 0 * Day <= t
  BY <1>1
<1>3. 0 <= t \div Day /\ t \div Day < last
  BY <1>1, <1>2, DayBetween
<1>4. t \div Day \in Nat
  BY <1>2, DivBounds
<1> QED BY <1>3, <1>4 DEF last

(* Months. *)
LEMMA MonthWindow ==
    ASSUME NEW t \in 0..Horizon
    PROVE  \E end : IsWindow(Month, Align(Month, t), end) /\ Align(Month, t) <= t /\ t < end
<1> DEFINE d == t \div Day
<1>1. d \in Nat /\ d < 365 * (LastYear - 1970)
  BY DayOfHorizon
<1> USE IntervalsAssumption
<1>2. PICK y \in 1970..(LastYear - 1) : YearStart(y) <= d /\ d < YearStart(y + 1)
  BY <1>1, YearExists
<1>3. PICK m \in 1..12 : MonthStart(y, m) <= d /\ d < MonthStart(y, m + 1)
  BY <1>1, <1>2, MonthExists
<1> DEFINE first == MonthStart(y, m)
           next == MonthStart(y, m + 1)
           start == first * Day
           end == next * Day
<1>4. y \in 1970..LastYear /\ y + 1 \in 1970..LastYear /\ y \in Nat
  BY <1>2
<1>5. first \in Nat /\ next \in Nat /\ first < next
  BY <1>3, <1>4, MonthStarts
<1>6. ASSUME NEW e \in Nat, first <= e, e < next
      PROVE  YearOf(e) = y /\ MonthOf(e) = m
  BY <1>3, <1>4, <1>6, MonthOfProperties
<1>7. ASSUME NEW u \in Nat, start <= u, u < end PROVE Align(Month, u) = start
  <2>1. u \div Day \in Nat
    BY DivBounds
  <2>2. first <= u \div Day /\ u \div Day < next
    BY <1>5, <1>7, DayBetween
  <2>3. YearOf(u \div Day) = y /\ MonthOf(u \div Day) = m
    BY <1>6, <2>1, <2>2
  <2> QED BY <2>3, Kinds DEF AlignMonth
<1>8. start <= t /\ t < end
  BY <1>1, <1>3, <1>5, DayBetween
<1>9. NextMonth(start) = end
  <2>1. start \div Day = first
    BY <1>5, DayOfStart
  <2>2. YearOf(first) = y /\ MonthOf(first) = m
    BY <1>5, <1>6
  <2> QED BY <2>1, <2>2 DEF NextMonth
<1>10. Align(Month, end) = end
  <2>1. end \div Day = next
    BY <1>5, DayOfStart
  <2>2. MonthStart(YearOf(next), MonthOf(next)) = next
    <3>1. CASE m = 12
      <4>1. next = MonthStart(y + 1, 1) /\ MonthStart(y + 1, 1) < MonthStart(y + 1, 2)
        BY <1>4, <3>1, MonthStarts
      <4>2. YearOf(next) = y + 1 /\ MonthOf(next) = 1
        BY <1>4, <1>5, <4>1, MonthOfProperties
      <4> QED BY <4>1, <4>2
    <3>2. CASE m # 12
      <4>1. m + 1 \in 1..12 /\ MonthStart(y, m + 1) < MonthStart(y, (m + 1) + 1)
        BY <1>3, <1>4, <3>2, MonthStarts
      <4>2. YearOf(next) = y /\ MonthOf(next) = m + 1
        BY <1>4, <1>5, <4>1, MonthOfProperties
      <4> QED BY <4>2
    <3> QED BY <3>1, <3>2
  <2> QED BY <2>1, <2>2, Kinds DEF AlignMonth
<1>11. start \in Int /\ end \in Nat /\ start < end
  BY <1>5
<1>12. Align(Month, t) = start
  BY <1>7, <1>8
<1>13. CloseTime(Month, start) = end - 1 /\ Length(Month, start) = end - start
  <2>1. ~(Width(Month) > 0)
    BY Kinds
  <2> QED BY <1>9, <2>1 DEF CloseTime, Length
<1> HIDE DEF start, end
<1> QED BY <1>7, <1>8, <1>10, <1>11, <1>12, <1>13 DEF IsWindow

(* Years. *)
LEMMA YearWindow ==
    ASSUME NEW t \in 0..Horizon
    PROVE  \E end : IsWindow(Year, Align(Year, t), end) /\ Align(Year, t) <= t /\ t < end
<1> DEFINE d == t \div Day
<1>1. d \in Nat /\ d < 365 * (LastYear - 1970)
  BY DayOfHorizon
<1> USE IntervalsAssumption
<1>2. PICK y \in 1970..(LastYear - 1) : YearStart(y) <= d /\ d < YearStart(y + 1)
  BY <1>1, YearExists
<1> DEFINE first == YearStart(y)
           next == YearStart(y + 1)
           start == first * Day
           end == next * Day
<1>3. y \in 1970..LastYear /\ y + 1 \in 1970..LastYear /\ y \in Nat
  BY <1>2
<1>4. first \in Nat /\ next \in Nat /\ first < next /\ next < YearStart((y + 1) + 1)
  BY <1>3, YearLong
<1>5. ASSUME NEW u \in Nat, start <= u, u < end PROVE Align(Year, u) = start
  <2>1. u \div Day \in Nat
    BY DivBounds
  <2>2. first <= u \div Day /\ u \div Day < next
    <3>1. first * Day <= u /\ u < next * Day
             <=> first <= u \div Day /\ u \div Day < next
      BY <1>4, DayBetween
    <3> QED BY <1>5, <3>1
  <2>3. YearOf(u \div Day) = y
    BY <1>3, <2>1, <2>2, YearOfProperties
  <2> QED BY <2>3, Kinds DEF AlignYear
<1>6. start <= t /\ t < end
  BY <1>1, <1>2, <1>4, DayBetween
<1>7. NextYear(start) = end
  <2>1. start \div Day = first
    BY <1>4, DayOfStart
  <2>2. YearOf(first) = y
    BY <1>3, <1>4, YearOfProperties
  <2> QED BY <2>1, <2>2 DEF NextYear
<1>8. Align(Year, end) = end
  <2>1. end \div Day = next
    BY <1>4, DayOfStart
  <2>2. YearOf(next) = y + 1
    BY <1>3, <1>4, YearOfProperties
  <2> QED BY <2>1, <2>2, Kinds DEF AlignYear
<1>9. start \in Int /\ end \in Nat /\ start < end
  BY <1>4
<1>10. Align(Year, t) = start
  BY <1>5, <1>6
<1>11. CloseTime(Year, start) = end - 1 /\ Length(Year, start) = end - start
  <2>1. ~(Width(Year) > 0) /\ Year # Month
    BY Kinds DEF Year, Month
  <2> QED BY <1>7, <2>1 DEF CloseTime, Length
<1> HIDE DEF start, end
<1> QED BY <1>5, <1>6, <1>8, <1>9, <1>10, <1>11 DEF IsWindow

(* The window of a time, of any interval. *)
LEMMA WindowExists ==
    ASSUME NEW name \in Names, NEW t \in 0..Horizon
    PROVE  \E end : IsWindow(name, Align(name, t), end) /\ Align(name, t) <= t /\ t < end
<1>1. t \in Nat
  BY IntervalsAssumption
<1> QED BY <1>1, FixedWindow, WeekWindow, MonthWindow, YearWindow DEF Names

LEMMA ClockRange == ClockSpec => [](now \in 0..Horizon)
<1>1. ClockInit => now \in 0..Horizon
  BY IntervalsAssumption DEF ClockInit
<1>2. now \in 0..Horizon /\ [Tick]_now => (now \in 0..Horizon)'
  BY IntervalsAssumption DEF Tick
<1> QED BY <1>1, <1>2, PTL DEF ClockSpec

(* At every time the windows of every interval tile time: below a day, for
   weeks, and for months and years of the calendar, leap years included. *)
THEOREM WindowsAlwaysTile == ClockSpec => []WindowsTile
<1>1. now \in 0..Horizon => WindowsTile
  <2> SUFFICES ASSUME now \in 0..Horizon, NEW name \in Names
               PROVE  LET start == Align(name, now)
                          close == CloseTime(name, start)
                      IN  /\ start <= now /\ now <= close
                          /\ start >= 0 => Align(name, start) = start
                          /\ Align(name, close + 1) = close + 1
                          /\ Length(name, start) = close + 1 - start
    BY DEF WindowsTile
  <2>1. PICK end : IsWindow(name, Align(name, now), end) /\ Align(name, now) <= now /\ now < end
    BY WindowExists
  <2>2. now \in Int
    BY IntervalsAssumption
  <2> DEFINE start == Align(name, now)
  <2>3. /\ start \in Int /\ end \in Nat /\ start < end
        /\ start >= 0 => Align(name, start) = start
        /\ CloseTime(name, start) = end - 1 /\ Length(name, start) = end - start
        /\ Align(name, end) = end
    BY <2>1 DEF IsWindow
  <2>4. (end - 1) + 1 = end
    BY <2>3
  <2> QED BY <2>1, <2>2, <2>3, <2>4
<1> QED BY <1>1, ClockRange, PTL

(* A window is left exactly when the clock passes its close time. *)
THEOREM WindowsAlwaysTurn == ClockSpec => WindowsTurn
<1>1. now \in 0..Horizon /\ [Tick]_now =>
        [\A name \in Names :
            LET start == Align(name, now)
            IN  Align(name, now') # start <=> now' > CloseTime(name, start)]_now
  <2> SUFFICES ASSUME now \in 0..Horizon, Tick, NEW name \in Names
               PROVE  Align(name, now') # Align(name, now)
                         <=> now' > CloseTime(name, Align(name, now))
    OBVIOUS
  <2>1. PICK end : IsWindow(name, Align(name, now), end) /\ Align(name, now) <= now /\ now < end
    BY WindowExists
  <2>2. now \in Nat /\ now' = now + 1
    BY IntervalsAssumption DEF Tick
  <2> DEFINE start == Align(name, now)
  <2>3. /\ start \in Int /\ end \in Nat /\ CloseTime(name, start) = end - 1
        /\ \A u \in Nat : start <= u /\ u < end => Align(name, u) = start
        /\ Align(name, end) = end
    BY <2>1 DEF IsWindow
  <2>4. CASE now' < end
    BY <2>1, <2>2, <2>3, <2>4
  <2>5. CASE now' = end
    BY <2>1, <2>2, <2>3, <2>5
  <2> QED BY <2>1, <2>2, <2>3, <2>4, <2>5
<1> QED BY <1>1, ClockRange, PTL DEF ClockSpec, WindowsTurn
===============================================================================
