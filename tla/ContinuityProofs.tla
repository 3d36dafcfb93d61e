--------------------------- MODULE ContinuityProofs ---------------------------
(***************************************************************************)
(* Proofs about the continuity checker beside checkpoints, queries and     *)
(* expiries, for any number of trades, any ratio of the intervals, any     *)
(* size of the cache and any window looked back: type correctness, that    *)
(* nothing is filed under another window, and that windows passed have     *)
(* rows.                                                                   *)
(***************************************************************************)
EXTENDS Continuity, FiniteSetTheorems, WellFoundedInduction, TLAPS

-----------------------------------------------------------------------------
(* Times and windows *)

LEMMA WidthType ==
    /\ Width("narrow") = 1 /\ Width("wide") = Ratio
    /\ \A iv \in Intervals : Width(iv) \in Nat \ {0}
  BY ContinuityAssumption DEF Width, Intervals

(* What division does. *)
LEMMA Division ==
    ASSUME NEW n \in Nat, NEW d \in Nat \ {0}
    PROVE  /\ n \div d \in Nat
           /\ d * (n \div d) <= n /\ n < d * ((n \div d) + 1)
  OBVIOUS

LEMMA DivisionUnique ==
    ASSUME NEW n \in Nat, NEW d \in Nat \ {0}, NEW q \in Nat,
           d * q <= n, n < d * (q + 1)
    PROVE  n \div d = q
<1> DEFINE r == n \div d
<1>1. r \in Nat /\ d * r <= n /\ n < d * (r + 1)
  BY Division
<1> HIDE DEF r
<1>2. ASSUME r < q PROVE FALSE
  <2>1. d * (r + 1) <= d * q
    BY <1>1, <1>2
  <2> QED BY <1>1, <2>1
<1>3. ASSUME q < r PROVE FALSE
  <2>1. d * (q + 1) <= d * r
    BY <1>1, <1>3
  <2> QED BY <1>1, <2>1
<1>4. r = q
  BY <1>1, <1>2, <1>3
<1> QED BY <1>4 DEF r

LEMMA DivisionMonotone ==
    ASSUME NEW a \in Nat, NEW b \in Nat, NEW d \in Nat \ {0}, a <= b
    PROVE  a \div d <= b \div d
<1> DEFINE q == a \div d
           r == b \div d
<1>1. /\ q \in Nat /\ r \in Nat
      /\ d * q <= a /\ b < d * (r + 1)
  BY Division
<1> HIDE DEF q, r
<1>2. ASSUME q > r PROVE FALSE
  <2>1. d * (r + 1) <= d * q
    BY <1>1, <1>2
  <2> QED BY <1>1, <2>1
<1>3. q <= r
  BY <1>1, <1>2
<1> QED BY <1>3 DEF q, r

(* Trades fall into windows of the table. *)
LEMMA WindowOfTrade ==
    ASSUME NEW t \in Trades, NEW iv \in Intervals
    PROVE  /\ WindowOf(t, iv) \in Windows(iv) /\ WindowOf(t, iv) \in Nat
           /\ TradeTime[t] \in Nat /\ Horizon \in Nat
           /\ Windows(iv) \subseteq Nat
<1>1. /\ NumTrades \in Trades /\ t <= NumTrades
      /\ TradeTime[t] \in Nat /\ Horizon \in Nat /\ TradeTime[t] <= Horizon
  BY ContinuityAssumption DEF Trades, Horizon
<1>2. /\ WindowOf(t, iv) \in Nat /\ Horizon \div Width(iv) \in Nat
      /\ WindowOf(t, iv) <= Horizon \div Width(iv)
  BY <1>1, WidthType, Division, DivisionMonotone DEF WindowOf
<1> QED BY <1>1, <1>2 DEF Windows

LEMMA HorizonType == Horizon \in Nat
  BY ContinuityAssumption DEF Trades, Horizon

LEMMA WindowType ==
    ASSUME NEW iv \in Intervals, NEW w \in Windows(iv)
    PROVE  w \in Nat /\ w <= Horizon \div Width(iv) /\ Horizon \div Width(iv) \in Nat
<1>1. Horizon \div Width(iv) \in Nat
  BY HorizonType, WidthType, Division
<1> QED BY <1>1 DEF Windows

(* The narrow windows of a wide one. *)
LEMMA NarrowOfWide ==
    ASSUME NEW n \in Nat, NEW w \in Nat
    PROVE  (Ratio * w <= n /\ n < NarrowEnd(w)) <=> n \div Ratio = w
  BY ContinuityAssumption, Division, DivisionUnique DEF NarrowEnd

LEMMA NarrowWindow ==
    ASSUME NEW t \in Trades
    PROVE  WindowOf(t, "narrow") = TradeTime[t] /\ WindowOf(t, "wide") = TradeTime[t] \div Ratio
<1>1. TradeTime[t] \in Nat
  BY ContinuityAssumption
<1>2. TradeTime[t] \div 1 = TradeTime[t]
  BY <1>1
<1> QED BY <1>2, WidthType DEF WindowOf

-----------------------------------------------------------------------------
(* Sets of klines *)

(* No two klines of one window. *)
Unique(ks) == \A x, y \in ks : x.w = y.w => x = y

(* A set of natural numbers that is not empty has a least element, and one that is
   bounded a greatest. *)
LEMMA LeastWindow ==
    ASSUME NEW S \in SUBSET Nat, S # {}
    PROVE  \E n \in S : \A m \in S : n <= m
<1>1. PICK n \in S : \A m \in S : ~(<<m, n>> \in OpToRel(<, Nat))
  BY NatLessThanWellFounded, WFMin
<1>2. \A m \in S : ~(m < n)
  BY <1>1 DEF OpToRel
<1> QED BY <1>2

LEMMA LatestProperties ==
    ASSUME NEW iv \in Intervals, NEW ws \in SUBSET Windows(iv), ws # {}
    PROVE  Latest(ws) \in ws /\ \A x \in ws : x <= Latest(ws)
<1> DEFINE b == Horizon \div Width(iv)
           S == {b - w : w \in ws}
<1>1. b \in Nat /\ \A w \in ws : w \in Nat /\ w <= b
  BY WindowType
<1> HIDE DEF b
<1>2. S \in SUBSET Nat /\ S # {}
  BY <1>1
<1>3. PICK d \in S : \A e \in S : d <= e
  BY <1>2, LeastWindow
<1>4. PICK w \in ws : d = b - w
  BY <1>3
<1>5. \A x \in ws : x <= w
  <2>1. ASSUME NEW x \in ws PROVE x <= w
    <3>1. b - x \in S
      OBVIOUS
    <3>2. b - w <= b - x
      BY <1>3, <1>4, <3>1
    <3> QED BY <1>1, <3>2
  <2> QED BY <2>1
<1> QED BY <1>5 DEF Latest

(* Klines of different windows are not more than the windows there are. *)
LEMMA KlinesFinite ==
    ASSUME NEW ks, Unique(ks), NEW a \in Nat, NEW b \in Int, \A k \in ks : k.w \in a..b
    PROVE  /\ IsFiniteSet(ks) /\ Cardinality(ks) \in Nat
           /\ Cardinality(ks) <= IF a > b THEN 0 ELSE b - a + 1
<1> DEFINE W == {k.w : k \in ks}
           f == [w \in W |-> CHOOSE k \in ks : k.w = w]
<1>1. IsFiniteSet(a..b) /\ Cardinality(a..b) = IF a > b THEN 0 ELSE b - a + 1
  BY FS_Interval
<1>2. IsFiniteSet(W) /\ Cardinality(W) <= Cardinality(a..b)
  <2>1. W \in SUBSET (a..b)
    OBVIOUS
  <2> QED BY <1>1, <2>1, FS_Subset
<1>3. f \in Surjection(W, ks)
  <2>1. \A w \in W : f[w] \in ks /\ f[w].w = w
    OBVIOUS
  <2>2. ASSUME NEW k \in ks PROVE f[k.w] = k
    <3>1. k.w \in W
      OBVIOUS
    <3> QED BY <2>1, <3>1 DEF Unique
  <2>3. \A k \in ks : k.w \in W /\ f[k.w] = k
    BY <2>2
  <2>4. f \in [W -> ks]
    BY <2>1
  <2> HIDE DEF f
  <2> QED BY <2>3, <2>4 DEF Surjection
<1>4. IsFiniteSet(ks) /\ Cardinality(ks) <= Cardinality(W)
  BY <1>2, <1>3, FS_Surjection
<1>5. Cardinality(ks) \in Nat /\ Cardinality(W) \in Nat
  BY <1>2, <1>4, FS_CardinalityType
<1> QED BY <1>1, <1>2, <1>4, <1>5

(* A put keeps klines of different windows, not more than there is room for. *)
LEMMA PutProperties ==
    ASSUME NEW c, NEW ks, Unique(c), Unique(ks), NEW b \in Nat,
           \A k \in c \cup ks : k.w \in 0..b
    PROVE  /\ Put(c, ks) \subseteq c \cup ks /\ Unique(Put(c, ks))
           /\ Cardinality(Put(c, ks)) <= MaxItems
<1> DEFINE all == {k \in c : \A x \in ks : x.w # k.w} \cup ks
           P == Put(c, ks)
           After(m) == {x \in all : x.w > m.w}
<1>1. P \subseteq all /\ all \subseteq c \cup ks /\ \A k \in P : Cardinality(After(k)) < MaxItems
  BY DEF Put
<1>2. Unique(all)
  BY DEF Unique
<1>3. Unique(P)
  BY <1>1, <1>2 DEF Unique
<1>4. Cardinality(P) <= MaxItems
  <2>1. IsFiniteSet(P) /\ Cardinality(P) \in Nat /\ IsFiniteSet(all)
    <3>1. (\A k \in P : k.w \in 0..b) /\ \A k \in all : k.w \in 0..b
      BY <1>1
    <3> QED BY <1>2, <1>3, <3>1, KlinesFinite
  <2>2. CASE P = {}
    <3>1. Cardinality(P) = 0
      BY <2>2, FS_EmptySet
    <3> QED BY <3>1, ContinuityAssumption
  <2>3. CASE P # {}
    <3> DEFINE W == {k.w : k \in P}
    <3>1. W \in SUBSET Nat /\ W # {}
      BY <1>1, <2>3
    <3>2. PICK n \in W : \A m \in W : n <= m
      BY <3>1, LeastWindow
    <3>3. PICK m \in P : m.w = n
      OBVIOUS
    <3>4. P \ {m} \subseteq After(m)
      <4>1. ASSUME NEW x \in P, x # m PROVE x.w > m.w
        <5>1. x.w \in W /\ x.w # m.w
          BY <1>3, <4>1 DEF Unique
        <5>2. x.w \in Nat /\ m.w \in Nat /\ m.w <= x.w
          BY <3>1, <3>2, <3>3, <5>1
        <5> QED BY <5>1, <5>2
      <4> QED BY <1>1, <4>1
    <3>5. /\ IsFiniteSet(After(m)) /\ Cardinality(After(m)) \in Nat
          /\ Cardinality(P \ {m}) <= Cardinality(After(m))
      <4>1. After(m) \in SUBSET all
        OBVIOUS
      <4>2. IsFiniteSet(After(m))
        BY <2>1, <4>1, FS_Subset
      <4> QED BY <3>4, <4>2, FS_Subset, FS_CardinalityType
    <3>6. Cardinality(P \ {m}) = Cardinality(P) - 1
      BY <2>1, FS_RemoveElement
    <3>7. Cardinality(After(m)) < MaxItems
      BY <1>1
    <3> HIDE DEF P, After
    <3> QED BY <2>1, <3>5, <3>6, <3>7, ContinuityAssumption
  <2> QED BY <2>2, <2>3
<1> QED BY <1>1, <1>3, <1>4

(* The first klines of a range are of that range, and some when there are any. *)
LEMMA FirstOfRange ==
    ASSUME NEW ks, NEW from, NEW to, NEW limit
    PROVE  /\ FirstOf(ks, from, to, limit) \subseteq ks
           /\ \A k \in FirstOf(ks, from, to, limit) : from <= k.w /\ k.w < to
  BY DEF FirstOf

LEMMA FirstOfSome ==
    ASSUME NEW ks, NEW from, NEW to, NEW limit \in Nat \ {0},
           \A k \in ks : k.w \in Nat, \E k \in ks : from <= k.w /\ k.w < to
    PROVE  FirstOf(ks, from, to, limit) # {}
<1> DEFINE range == {k \in ks : from <= k.w /\ k.w < to}
           W == {k.w : k \in range}
<1>1. W \in SUBSET Nat /\ W # {}
  OBVIOUS
<1>2. PICK n \in W : \A m \in W : n <= m
  BY <1>1, LeastWindow
<1>3. PICK k \in range : k.w = n
  OBVIOUS
<1>4. {x \in range : x.w < k.w} = {}
  <2>1. ASSUME NEW x \in range, x.w < k.w PROVE FALSE
    <3>1. x.w \in W /\ x.w \in Nat /\ n \in Nat
      BY <1>1
    <3> QED BY <1>2, <1>3, <2>1, <3>1
  <2> QED BY <2>1
<1>5. Cardinality({x \in range : x.w < k.w}) = 0
  BY ONLY <1>4, FS_EmptySet
<1>6. k \in FirstOf(ks, from, to, limit)
  BY <1>5 DEF FirstOf
<1> QED BY <1>6

-----------------------------------------------------------------------------
(* The invariant *)

(* A kline of the cache, or on the way there, counts trades of its window that were
   handled, some at least, and the table has a row of the window. *)
Holds(iv, k) ==
    /\ k \in Cached /\ k.w \in Windows(iv)
    /\ TradesOf(iv, k) # {} /\ TradesOf(iv, k) \subseteq Content(iv, k.w)
    /\ rows[iv][k.w] # {}

(* Trades are handled one after the other. *)
HandledInv ==
    /\ handled \subseteq Trades /\ Last \in Nat /\ handled = 1..Last
    /\ dirty \in BOOLEAN /\ now \in 0..Horizon

(* A kline of an entry counts something. *)
Counting(k) == k \in Intervals \X Nat /\ Content(k[1], k[2]) # {}

(* Rows count trades of their window; what is to be saved or cached counts something,
   and what is to be cached is in the table. *)
RowsInv ==
    /\ rows = [iv \in Intervals |-> rows[iv]]
    /\ \A iv \in Intervals :
          /\ rows[iv] \in [Windows(iv) -> SUBSET Trades]
          /\ \A w \in Windows(iv) : rows[iv][w] \subseteq Content(iv, w)
    /\ \A k \in done \cup UNION (batch \cup warming) : Counting(k)
    /\ \A e \in warming : \A k \in e : rows[k[1]][k[2]] # {}

CacheInv ==
    /\ cache \in [Intervals -> SUBSET Cached] /\ asked \in [Intervals -> SUBSET Cached]
    /\ \A iv \in Intervals :
          /\ Unique(cache[iv]) /\ Unique(asked[iv]) /\ Cardinality(cache[iv]) <= MaxItems
          /\ \A k \in cache[iv] \cup asked[iv] : Holds(iv, k)

CheckerType ==
    /\ at \in 0..now
    /\ cpc \in {"idle", "wide", "next", "narrow", "save", "warm"}
    /\ cpc \in {"save", "warm"} => merged # {} /\ missing # {}
    /\ missing \subseteq Windows("wide")
    /\ merged \subseteq Trades
    /\ due \subseteq Windows("wide")

(* What the checker has read it has read from the table, and of narrow klines those
   of the window it is about to merge. *)
Fetching == IF cpc = "wide" THEN "wide" ELSE "narrow"

FetchInv ==
    /\ cpc \notin {"wide", "narrow"} => fetched = {}
    /\ Unique(fetched) /\ \A k \in fetched : Holds(Fetching, k) /\ ~k.live
    /\ cpc = "narrow" =>
          /\ missing # {} /\ fetched # {}
          /\ \A k \in fetched : k.w \div Ratio = Latest(missing)

(* What it has merged is of that window. *)
MergeInv ==
    /\ cpc \in {"save", "warm"} => merged \subseteq Content("wide", Latest(missing))
    /\ cpc = "warm" => rows["wide"][Latest(missing)] # {}

(* The windows due have narrow rows, and once the wide klines are read, those no
   longer missing have a row. *)
DueInv ==
    /\ \A w \in due : \E n \in Windows("narrow") : n \div Ratio = w /\ rows["narrow"][n] # {}
    /\ cpc # "idle" => due \subseteq Scanned(at)
    /\ cpc \notin {"idle", "wide"} => \A w \in due \ missing : rows["wide"][w] # {}

CheckerInv == CheckerType /\ FetchInv /\ MergeInv /\ DueInv

CheckInv == HandledInv /\ RowsInv /\ CacheInv /\ CheckerInv

LEMMA CheckType == CheckInv => TypeOK
<1> SUFFICES ASSUME CheckInv PROVE TypeOK
  OBVIOUS
<1>1. fetched \subseteq Cached
  BY DEF CheckInv, CheckerInv, FetchInv, Holds
<1>2. \A iv \in Intervals : \A x, y \in cache[iv] : x.w = y.w => x = y
  BY DEF CheckInv, CacheInv, Unique
<1>3. \A k \in done \cup UNION (batch \cup warming) : Content(k[1], k[2]) # {}
  BY DEF CheckInv, RowsInv, Counting
<1> QED BY <1>1, <1>2, <1>3
        DEF CheckInv, HandledInv, RowsInv, CacheInv, CheckerInv, CheckerType, TypeOK

(* Trades handled stay handled, and no row is emptied. *)
Grows ==
    /\ handled \subseteq handled'
    /\ \A iv \in Intervals : \A w \in Windows(iv) : rows[iv][w] # {} => rows'[iv][w] # {}

LEMMA ContentGrows ==
    ASSUME handled \subseteq handled'
    PROVE  \A iv, w : Content(iv, w) \subseteq Content(iv, w)'
  BY DEF Content

LEMMA HoldsKept ==
    ASSUME Grows, NEW iv \in Intervals, NEW k, Holds(iv, k)
    PROVE  Holds(iv, k)'
<1>1. Content(iv, k.w) \subseteq Content(iv, k.w)'
  BY ContentGrows DEF Grows
<1>2. TradesOf(iv, k)' # {} /\ TradesOf(iv, k)' \subseteq Content(iv, k.w)'
  <2>1. CASE k.live
    BY <1>1, <2>1 DEF Holds, TradesOf
  <2>2. CASE ~k.live
    BY <1>1, <2>2 DEF Holds, TradesOf
  <2> QED BY <2>1, <2>2
<1> QED BY <1>2 DEF Holds, Grows

LEMMA RowsKept ==
    ASSUME RowsInv, handled \subseteq handled', UNCHANGED <<rows, done, batch, warming>>
    PROVE  RowsInv'
<1>1. ASSUME NEW k \in done \cup UNION (batch \cup warming) PROVE Counting(k)'
  BY ContentGrows DEF RowsInv, Counting
<1>2. ASSUME NEW iv \in Intervals, NEW w \in Windows(iv) PROVE rows[iv][w] \subseteq Content(iv, w)'
  BY ContentGrows DEF RowsInv
<1> QED BY <1>1, <1>2 DEF RowsInv

LEMMA CacheKept ==
    ASSUME CacheInv, Grows, UNCHANGED <<cache, asked>>
    PROVE  CacheInv'
<1>1. ASSUME NEW iv \in Intervals, NEW k \in cache'[iv] \cup asked'[iv] PROVE Holds(iv, k)'
  BY <1>1, HoldsKept DEF CacheInv
<1> QED BY <1>1 DEF CacheInv, Unique

LEMMA CheckerKept ==
    ASSUME CheckerInv, Grows, now \in Nat, now' \in Nat, now <= now',
           UNCHANGED <<cpc, at, missing, fetched, merged, due>>
    PROVE  CheckerInv'
<1>0. "narrow" \in Intervals /\ "wide" \in Intervals
  BY DEF Intervals
<1>1. CheckerType'
  BY DEF CheckerInv, CheckerType
<1>2. FetchInv'
  <2>1. ASSUME NEW k \in fetched PROVE Holds(Fetching, k)'
    <3>1. Fetching \in Intervals /\ Fetching' = Fetching /\ Holds(Fetching, k)
      BY <1>0 DEF Fetching, CheckerInv, FetchInv
    <3>2. CASE Fetching = "wide"
      BY <1>0, <3>1, <3>2, HoldsKept
    <3>3. CASE Fetching = "narrow"
      BY <1>0, <3>1, <3>3, HoldsKept
    <3> QED BY <3>1, <3>2, <3>3 DEF Intervals
  <2> QED BY <2>1 DEF CheckerInv, FetchInv, Unique
<1>3. MergeInv'
  <2>1. \A w : Content("wide", w) \subseteq Content("wide", w)'
    BY ContentGrows DEF Grows
  <2>2. cpc = "warm" => Latest(missing) \in Windows("wide")
    BY <1>0, LatestProperties DEF CheckerInv, CheckerType
  <2> QED BY <1>0, <2>1, <2>2 DEF CheckerInv, MergeInv, Grows
<1>4. DueInv'
  BY <1>0 DEF CheckerInv, CheckerType, DueInv, Grows
<1> QED BY <1>1, <1>2, <1>3, <1>4 DEF CheckerInv

-----------------------------------------------------------------------------
(* The aggregator, the API and the clock *)

(* What Open holds counts the last trade. *)
LEMMA OpenCounts ==
    ASSUME HandledInv, NEW k \in Open
    PROVE  Counting(k)
<1>1. handled # {} /\ k \in {<<iv, WindowOf(Last, iv)>> : iv \in Intervals}
  BY DEF Open
<1>2. PICK iv \in Intervals : k = <<iv, WindowOf(Last, iv)>>
  BY <1>1
<1>3. Last \in handled
  BY <1>1 DEF HandledInv
<1>4. WindowOf(Last, iv) \in Nat
  BY <1>3, WindowOfTrade DEF HandledInv
<1>5. Content(iv, WindowOf(Last, iv)) # {}
  BY <1>3 DEF Content
<1> QED BY <1>2, <1>4, <1>5 DEF Counting

LEMMA TickKeeps ==
    ASSUME CheckInv, Tick
    PROVE  CheckInv'
<1>1. /\ now \in Nat /\ now' \in 0..Horizon /\ now <= now' /\ now' \in Nat
      /\ UNCHANGED <<handled, dirty, done, batch, warming, rows, cache, asked,
                     cpc, at, missing, fetched, merged, due>>
  BY HorizonType DEF Tick, CheckInv, HandledInv, aggregator, checker
<1>2. Grows
  BY <1>1 DEF Grows
<1>3. HandledInv'
  BY <1>1 DEF CheckInv, HandledInv, Last
<1> QED BY <1>1, <1>2, <1>3, RowsKept, CacheKept, CheckerKept DEF CheckInv, Grows

(* Steps of the aggregator that keep the rows. *)
LEMMA SameTime ==
    ASSUME CheckInv, Grows, HandledInv', RowsInv',
           UNCHANGED <<now, cache, asked, cpc, at, missing, fetched, merged, due>>
    PROVE  CheckInv'
<1>1. now \in Nat
  BY HorizonType DEF CheckInv, HandledInv
<1> QED BY <1>1, CacheKept, CheckerKept DEF CheckInv

LEMMA HandleKeeps ==
    ASSUME CheckInv, HandleTrade
    PROVE  CheckInv'
<1> DEFINE t == Last + 1
<1>1. /\ t \in Trades /\ handled' = handled \cup {t} /\ dirty' = TRUE
      /\ done' \subseteq done \cup Open
      /\ UNCHANGED <<now, batch, warming, rows, cache, asked,
                     cpc, at, missing, fetched, merged, due>>
  BY DEF HandleTrade, checker
<1>2. Grows
  BY <1>1 DEF Grows
<1>3. HandledInv'
  <2>1. Last \in Nat /\ handled = 1..Last /\ handled \subseteq Trades
    BY DEF CheckInv, HandledInv
  <2>2. handled' = 1..t /\ t \in Nat
    BY <1>1, <2>1
  <2>3. Last' = t
    <3>1. Cardinality(1..t) = t
      BY <2>2, FS_Interval
    <3> QED BY <2>2, <3>1 DEF Last
  <2> QED BY <1>1, <2>1, <2>2, <2>3 DEF CheckInv, HandledInv
<1>4. RowsInv'
  <2>1. ASSUME NEW k \in done' \cup UNION (batch' \cup warming')
        PROVE  Counting(k)'
    <3>1. Counting(k)
      BY <1>1, <2>1, OpenCounts DEF CheckInv, RowsInv
    <3> QED BY <1>2, <3>1, ContentGrows DEF Grows, Counting
  <2>2. ASSUME NEW iv \in Intervals, NEW w \in Windows(iv)
        PROVE  rows[iv][w] \subseteq Content(iv, w)'
    BY <1>2, ContentGrows DEF Grows, CheckInv, RowsInv
  <2> QED BY <1>1, <2>1, <2>2 DEF CheckInv, RowsInv
<1> QED BY <1>1, <1>2, <1>3, <1>4, SameTime

LEMMA CollectKeeps ==
    ASSUME CheckInv, Collect
    PROVE  CheckInv'
<1>1. /\ done' = {} /\ batch' = {done, Open} \ {{}}
      /\ UNCHANGED <<handled, dirty, now, warming, rows, cache, asked,
                     cpc, at, missing, fetched, merged, due>>
  BY DEF Collect, checker
<1>2. Grows /\ HandledInv'
  BY <1>1 DEF Grows, CheckInv, HandledInv, Last
<1>3. RowsInv'
  <2>1. ASSUME NEW k \in done' \cup UNION (batch' \cup warming')
        PROVE  Counting(k)
    <3>1. k \in done \/ k \in Open \/ k \in UNION warming
      BY <1>1, <2>1
    <3> QED BY <3>1, OpenCounts DEF CheckInv, RowsInv
  <2>2. \A k : Counting(k) => Counting(k)'
    BY <1>1 DEF Counting, Content
  <2> QED BY <1>1, <2>1, <2>2 DEF CheckInv, RowsInv, Content
<1> QED BY <1>1, <1>2, <1>3, SameTime

(* A save writes what the klines count. *)
LEMMA SaveKeeps ==
    ASSUME CheckInv, NEW e \in batch, SaveEntry(e)
    PROVE  CheckInv'
<1>1. /\ batch' = batch \ {e} /\ warming' = warming \cup {e}
      /\ rows' = [iv \in Intervals |-> [w \in Windows(iv) |->
                    IF <<iv, w>> \in e THEN Content(iv, w) ELSE rows[iv][w]]]
      /\ UNCHANGED <<handled, dirty, now, done, cache, asked,
                     cpc, at, missing, fetched, merged, due>>
  BY DEF SaveEntry, checker
<1>2. ASSUME NEW iv \in Intervals, NEW w \in Windows(iv)
      PROVE  /\ rows'[iv][w] = IF <<iv, w>> \in e THEN Content(iv, w) ELSE rows[iv][w]
             /\ rows'[iv][w] \subseteq Content(iv, w) /\ rows'[iv][w] \in SUBSET Trades
             /\ rows[iv][w] # {} => rows'[iv][w] # {}
             /\ <<iv, w>> \in e => rows'[iv][w] # {}
  <2>1. rows'[iv][w] = IF <<iv, w>> \in e THEN Content(iv, w) ELSE rows[iv][w]
    BY <1>1
  <2>2. ASSUME <<iv, w>> \in e PROVE Content(iv, w) # {}
    <3>1. <<iv, w>> \in UNION (batch \cup warming) /\ <<iv, w>>[1] = iv /\ <<iv, w>>[2] = w
      BY <2>2
    <3> QED BY <3>1 DEF CheckInv, RowsInv, Counting
  <2>3. Content(iv, w) \subseteq Trades
    BY DEF CheckInv, HandledInv, Content
  <2> QED BY <2>1, <2>2, <2>3 DEF CheckInv, RowsInv
<1>3. Grows /\ HandledInv'
  BY <1>1, <1>2 DEF Grows, CheckInv, HandledInv, Last
<1>4. RowsInv'
  <2>1. \A iv, w : Content(iv, w)' = Content(iv, w)
    BY <1>1 DEF Content
  <2>2. ASSUME NEW iv \in Intervals
        PROVE  /\ rows'[iv] \in [Windows(iv) -> SUBSET Trades]
               /\ \A w \in Windows(iv) : rows'[iv][w] \subseteq Content(iv, w)
    <3>1. rows'[iv] = [w \in Windows(iv) |->
                         IF <<iv, w>> \in e THEN Content(iv, w) ELSE rows[iv][w]]
      BY <1>1
    <3>2. DOMAIN rows'[iv] = Windows(iv) /\ rows'[iv] = [w \in Windows(iv) |-> rows'[iv][w]]
      BY <3>1
    <3> QED BY <1>2, <3>2
  <2>3. ASSUME NEW f \in warming', NEW k \in f
        PROVE  rows'[k[1]][k[2]] # {}
    <3>1. k \in Intervals \X Nat /\ Content(k[1], k[2]) # {}
      BY <1>1, <2>3 DEF CheckInv, RowsInv, Counting
    <3>2. k[2] \in Windows(k[1])
      <4>1. PICK t \in handled : WindowOf(t, k[1]) = k[2]
        BY <3>1 DEF Content
      <4> QED BY <3>1, <4>1, WindowOfTrade DEF CheckInv, HandledInv
    <3>3. CASE f \in warming
      BY <1>2, <3>1, <3>2, <3>3 DEF CheckInv, RowsInv
    <3>4. CASE f = e
      <4>1. k = <<k[1], k[2]>>
        BY <3>1
      <4>2. k[1] \in Intervals /\ <<k[1], k[2]>> \in e
        BY <3>1, <3>4, <4>1
      <4> QED BY <1>2, <3>2, <4>2
    <3> QED BY <1>1, <3>3, <3>4
  <2>4. ASSUME NEW k \in done' \cup UNION (batch' \cup warming')
        PROVE  Counting(k)
    <3>1. k \in done \cup UNION (batch \cup warming)
      BY <1>1, <2>4
    <3> QED BY <3>1 DEF CheckInv, RowsInv
  <2>5. rows' = [iv \in Intervals |-> rows'[iv]]
    BY <1>1
  <2> QED BY <2>1, <2>2, <2>3, <2>4, <2>5 DEF RowsInv, Counting
<1> QED BY <1>1, <1>3, <1>4, SameTime

LEMMA FailEntryKeeps ==
    ASSUME CheckInv, NEW e \in batch, FailEntry(e)
    PROVE  CheckInv'
<1>1. /\ batch' \subseteq batch
      /\ UNCHANGED <<handled, dirty, now, done, warming, rows, cache, asked,
                     cpc, at, missing, fetched, merged, due>>
  BY DEF FailEntry, checker
<1>2. Grows /\ HandledInv'
  BY <1>1 DEF Grows, CheckInv, HandledInv, Last
<1>3. RowsInv'
  <2>1. \A iv, w : Content(iv, w)' = Content(iv, w)
    BY <1>1 DEF Content
  <2>2. \A k \in done' \cup UNION (batch' \cup warming') : Counting(k)
    BY <1>1 DEF CheckInv, RowsInv
  <2> QED BY <1>1, <2>1, <2>2 DEF CheckInv, RowsInv, Counting
<1> QED BY <1>1, <1>2, <1>3, SameTime

(* Putting klines that hold into the cache keeps it. *)
LEMMA PutKeeps ==
    ASSUME CacheInv, NEW iv \in Intervals, NEW ks, Unique(ks), \A k \in ks : Holds(iv, k)
    PROVE  /\ Put(cache[iv], ks) \subseteq Cached /\ Unique(Put(cache[iv], ks))
           /\ Cardinality(Put(cache[iv], ks)) <= MaxItems
           /\ \A k \in Put(cache[iv], ks) : Holds(iv, k)
<1> DEFINE b == Horizon \div Width(iv)
<1>1. \A k \in cache[iv] \cup ks : Holds(iv, k)
  BY DEF CacheInv
<1>2. b \in Nat /\ \A k \in cache[iv] \cup ks : k.w \in 0..b
  <2>1. b \in Nat
    BY HorizonType, WidthType, Division
  <2> QED BY <1>1, <2>1 DEF Holds, Windows
<1>3. Unique(cache[iv])
  BY DEF CacheInv
<1>4. /\ Put(cache[iv], ks) \subseteq cache[iv] \cup ks /\ Unique(Put(cache[iv], ks))
      /\ Cardinality(Put(cache[iv], ks)) <= MaxItems
  <2> HIDE DEF b
  <2> QED BY <1>2, <1>3, PutProperties
<1>5. \A k \in Put(cache[iv], ks) : Holds(iv, k)
  BY <1>1, <1>4
<1> QED BY <1>4, <1>5 DEF Holds

(* The rows of the table hold. *)
LEMMA StoredHolds ==
    ASSUME HandledInv, RowsInv, NEW iv \in Intervals
    PROVE  /\ Unique(Stored(iv))
           /\ \A k \in Stored(iv) : /\ Holds(iv, k) /\ ~k.live
                                   /\ k = Snapshot(k.w, rows[iv][k.w])
           /\ \A w \in Windows(iv) : rows[iv][w] # {} => Snapshot(w, rows[iv][w]) \in Stored(iv)
<1>1. \A w \in Windows(iv), ts \in SUBSET Trades :
         /\ Snapshot(w, ts) \in Cached
         /\ Snapshot(w, ts).w = w /\ ~Snapshot(w, ts).live /\ Snapshot(w, ts).trades = ts
  BY WindowType DEF Snapshot, Cached
<1>2. ASSUME NEW k \in Stored(iv)
      PROVE  Holds(iv, k) /\ ~k.live /\ k = Snapshot(k.w, rows[iv][k.w])
  <2>1. PICK w \in Windows(iv) : rows[iv][w] # {} /\ k = Snapshot(w, rows[iv][w])
    BY DEF Stored
  <2>2. rows[iv][w] \in SUBSET Trades /\ rows[iv][w] \subseteq Content(iv, w)
    BY DEF RowsInv
  <2>3. /\ k \in Cached /\ k.w = w /\ ~k.live /\ k.trades = rows[iv][w]
    BY <1>1, <2>1, <2>2
  <2> QED BY <2>1, <2>2, <2>3 DEF Holds, TradesOf
<1>3. Unique(Stored(iv))
  BY <1>2 DEF Unique
<1> QED BY <1>2, <1>3 DEF Stored

(* Steps that change neither trades nor rows. *)
LEMMA SameTable ==
    ASSUME CheckInv, UNCHANGED <<handled, now, done, batch, rows>>,
           dirty' \in BOOLEAN, warming' \subseteq warming
    PROVE  Grows /\ HandledInv' /\ RowsInv'
<1>1. Grows /\ HandledInv'
  BY DEF Grows, CheckInv, HandledInv, Last
<1>2. \A iv, w : Content(iv, w)' = Content(iv, w)
  BY DEF Content
<1>3. \A k \in done \cup UNION (batch \cup warming') : Counting(k)
  BY DEF CheckInv, RowsInv
<1>4. RowsInv'
  BY <1>2, <1>3 DEF CheckInv, RowsInv, Counting
<1> QED BY <1>1, <1>4

(* Steps that change the cache and what is read for it only. *)
LEMMA SameChecker ==
    ASSUME CheckInv, CacheInv', warming' \subseteq warming,
           UNCHANGED <<handled, dirty, now, done, batch, rows,
                       cpc, at, missing, fetched, merged, due>>
    PROVE  CheckInv'
<1>1. dirty' \in BOOLEAN /\ now \in Nat
  BY HorizonType DEF CheckInv, HandledInv
<1>2. Grows /\ HandledInv' /\ RowsInv'
  BY <1>1, SameTable
<1> QED BY <1>1, <1>2, CheckerKept DEF CheckInv

LEMMA HoldsStill ==
    ASSUME UNCHANGED <<handled, rows>>, NEW iv, NEW k
    PROVE  Holds(iv, k)' <=> Holds(iv, k)
  BY DEF Holds, TradesOf, Content

LEMMA WarmEntryKeeps ==
    ASSUME CheckInv, NEW e \in warming, WarmEntry(e)
    PROVE  CheckInv'
<1> DEFINE Ks(iv) == {LiveKline(k[2]) : k \in {k \in e : k[1] = iv}}
<1>1. /\ warming' \subseteq warming
      /\ cache' = [iv \in Intervals |-> Put(cache[iv], Ks(iv))]
      /\ UNCHANGED <<handled, dirty, now, done, batch, rows, asked,
                     cpc, at, missing, fetched, merged, due>>
  BY DEF WarmEntry, checker
<1>2. ASSUME NEW iv \in Intervals
      PROVE  Unique(Ks(iv)) /\ \A k \in Ks(iv) : Holds(iv, k)
  <2>1. \A w \in Nat : /\ LiveKline(w) \in Cached /\ LiveKline(w).w = w /\ LiveKline(w).live
    BY DEF LiveKline, Cached
  <2>2. ASSUME NEW k \in Ks(iv) PROVE Holds(iv, k) /\ k = LiveKline(k.w)
    <3>1. PICK l \in e : l[1] = iv /\ k = LiveKline(l[2])
      OBVIOUS
    <3>2. l \in Intervals \X Nat /\ Content(iv, l[2]) # {} /\ rows[iv][l[2]] # {}
      <4>1. l \in UNION (batch \cup warming)
        OBVIOUS
      <4> QED BY <3>1, <4>1 DEF CheckInv, RowsInv, Counting
    <3>3. k \in Cached /\ k.w = l[2] /\ k.live
      BY <2>1, <3>1, <3>2
    <3>4. l[2] \in Windows(iv)
      <4>1. PICK t \in handled : WindowOf(t, iv) = l[2]
        BY <3>2 DEF Content
      <4> QED BY <4>1, WindowOfTrade DEF CheckInv, HandledInv
    <3> QED BY <3>1, <3>2, <3>3, <3>4 DEF Holds, TradesOf
  <2>3. Unique(Ks(iv))
    <3> HIDE DEF Ks
    <3> QED BY <2>2 DEF Unique
  <2> QED BY <2>2, <2>3
<1>3. CacheInv'
  <2>1. ASSUME NEW iv \in Intervals
        PROVE  /\ cache'[iv] \subseteq Cached /\ Unique(cache'[iv])
               /\ Cardinality(cache'[iv]) <= MaxItems
               /\ \A k \in cache'[iv] : Holds(iv, k)
    <3>1. cache'[iv] = Put(cache[iv], Ks(iv))
      BY <1>1
    <3> HIDE DEF Ks
    <3> QED BY <1>2, <3>1, PutKeeps DEF CheckInv
  <2>2. cache' \in [Intervals -> SUBSET Cached]
    <3>1. cache' = [iv \in Intervals |-> cache'[iv]]
      BY <1>1
    <3> QED BY <2>1, <3>1
  <2>3. \A iv \in Intervals : \A k \in asked[iv] : Holds(iv, k)
    BY DEF CheckInv, CacheInv
  <2> QED BY <1>1, <2>1, <2>2, <2>3, HoldsStill DEF CheckInv, CacheInv, Unique
<1> QED BY <1>1, <1>3, SameChecker

LEMMA AskKeeps ==
    ASSUME CheckInv, NEW r \in Ranges, AskTable(r)
    PROVE  CheckInv'
<1> DEFINE ks == FirstOf(Stored(r.iv), r.from, r.to, r.limit)
<1>1. /\ asked' = [asked EXCEPT ![r.iv] = ks]
      /\ UNCHANGED <<handled, dirty, now, done, batch, warming, rows, cache,
                     cpc, at, missing, fetched, merged, due>>
  BY DEF AskTable, aggregator, checker
<1>2. r.iv \in Intervals
  BY ContinuityAssumption
<1>3. Unique(ks) /\ \A k \in ks : Holds(r.iv, k) /\ k \in Cached
  <2>1. ks \subseteq Stored(r.iv)
    BY FirstOfRange
  <2>2. Unique(Stored(r.iv)) /\ \A k \in Stored(r.iv) : Holds(r.iv, k)
    BY <1>2, StoredHolds DEF CheckInv
  <2> QED BY <2>1, <2>2 DEF Unique, Holds
<1> HIDE DEF ks
<1>4. ASSUME NEW iv \in Intervals
      PROVE  Unique(asked'[iv]) /\ \A k \in asked'[iv] : Holds(iv, k)
  BY <1>1, <1>2, <1>3 DEF CheckInv, CacheInv
<1>5. asked' \in [Intervals -> SUBSET Cached]
  BY <1>1, <1>2, <1>3 DEF CheckInv, CacheInv
<1>6. CacheInv'
  BY <1>1, <1>4, <1>5, HoldsStill DEF CheckInv, CacheInv, Unique
<1> QED BY <1>1, <1>6, SameChecker

(* Klines that hold are put into the cache. *)
LEMMA CacheWarmed ==
    ASSUME CacheInv, UNCHANGED <<handled, rows>>, NEW iv \in Intervals, NEW ks,
           Unique(ks), \A k \in ks : Holds(iv, k),
           cache' = [cache EXCEPT ![iv] = Put(@, ks)],
           \/ asked' = asked
           \/ asked' = [asked EXCEPT ![iv] = {}]
    PROVE  CacheInv'
<1>1. /\ Put(cache[iv], ks) \subseteq Cached /\ Unique(Put(cache[iv], ks))
      /\ Cardinality(Put(cache[iv], ks)) <= MaxItems
      /\ \A k \in Put(cache[iv], ks) : Holds(iv, k)
  BY PutKeeps
<1>2. ASSUME NEW jv \in Intervals
      PROVE  /\ Unique(cache'[jv]) /\ Unique(asked'[jv]) /\ Cardinality(cache'[jv]) <= MaxItems
             /\ \A k \in cache'[jv] \cup asked'[jv] : Holds(jv, k)
  <2>1. /\ cache'[jv] = IF jv = iv THEN Put(cache[iv], ks) ELSE cache[jv]
        /\ asked'[jv] = asked[jv] \/ asked'[jv] = {}
    BY DEF CacheInv
  <2>2. Unique({})
    BY DEF Unique
  <2> QED BY <1>1, <2>1, <2>2 DEF CacheInv
<1>3. cache' \in [Intervals -> SUBSET Cached] /\ asked' \in [Intervals -> SUBSET Cached]
  BY <1>1 DEF CacheInv
<1> QED BY <1>2, <1>3, HoldsStill DEF CacheInv, Unique

LEMMA WarmAskedKeeps ==
    ASSUME CheckInv, NEW iv \in Intervals, WarmAsked(iv)
    PROVE  CheckInv'
<1>1. /\ cache' = [cache EXCEPT ![iv] = Put(@, asked[iv])]
      /\ asked' = [asked EXCEPT ![iv] = {}]
      /\ UNCHANGED <<handled, dirty, now, done, batch, warming, rows,
                     cpc, at, missing, fetched, merged, due>>
  BY DEF WarmAsked, aggregator, checker
<1>2. Unique(asked[iv]) /\ \A k \in asked[iv] : Holds(iv, k)
  BY DEF CheckInv, CacheInv
<1>3. CacheInv'
  BY <1>1, <1>2, CacheWarmed DEF CheckInv
<1> QED BY <1>1, <1>3, SameChecker

LEMMA ExpireKeeps ==
    ASSUME CheckInv, NEW iv \in Intervals, Expire(iv)
    PROVE  CheckInv'
<1>1. /\ cache' = [cache EXCEPT ![iv] = {}]
      /\ UNCHANGED <<handled, dirty, now, done, batch, warming, rows, asked,
                     cpc, at, missing, fetched, merged, due>>
  BY DEF Expire, aggregator, checker
<1>2. ASSUME NEW jv \in Intervals
      PROVE  /\ Unique(cache'[jv]) /\ Cardinality(cache'[jv]) <= MaxItems
             /\ \A k \in cache'[jv] : Holds(jv, k)
  <2>1. cache'[jv] = IF jv = iv THEN {} ELSE cache[jv]
    BY <1>1 DEF CheckInv, CacheInv
  <2>2. Unique({}) /\ Cardinality({}) <= MaxItems
    BY FS_EmptySet, ContinuityAssumption DEF Unique
  <2> QED BY <2>1, <2>2 DEF CheckInv, CacheInv
<1>3. cache' \in [Intervals -> SUBSET Cached]
  BY <1>1 DEF CheckInv, CacheInv
<1>4. CacheInv'
  BY <1>1, <1>2, <1>3, HoldsStill DEF CheckInv, CacheInv, Unique
<1> QED BY <1>1, <1>4, SameChecker

-----------------------------------------------------------------------------
(* The checker *)

LEMMA IntervalNames == "narrow" \in Intervals /\ "wide" \in Intervals
  BY DEF Intervals

(* What is merged of narrow klines of a window counts trades of that window. *)
LEMMA MergedWithin ==
    ASSUME HandledInv, NEW ks, ks # {}, NEW w \in Nat,
           \A k \in ks : Holds("narrow", k) /\ k.w \div Ratio = w
    PROVE  MergedOf(ks) # {} /\ MergedOf(ks) \subseteq Content("wide", w)
<1>1. ASSUME NEW k \in ks, NEW t \in TradesOf("narrow", k) PROVE t \in Content("wide", w)
  <2>1. t \in handled /\ WindowOf(t, "narrow") = k.w /\ k.w \div Ratio = w
    BY <1>1 DEF Holds, Content
  <2>2. TradeTime[t] = k.w /\ WindowOf(t, "wide") = w
    BY <2>1, NarrowWindow DEF HandledInv
  <2> QED BY <2>1, <2>2 DEF Content
<1>2. MergedOf(ks) # {}
  <2>1. PICK k \in ks : TradesOf("narrow", k) # {}
    BY DEF Holds
  <2> QED BY <2>1 DEF MergedOf
<1> QED BY <1>1, <1>2 DEF MergedOf

(* The narrow klines of a query of the checker. *)
LEMMA NarrowQuery ==
    ASSUME NEW ks, NEW w \in Nat, \A k \in ks : Holds("narrow", k)
    PROVE  \A k \in FirstOf(ks, Ratio * w, NarrowEnd(w), 1000) :
              k \in ks /\ Holds("narrow", k) /\ k.w \div Ratio = w
<1>1. ASSUME NEW k \in FirstOf(ks, Ratio * w, NarrowEnd(w), 1000)
      PROVE  k \in ks /\ Holds("narrow", k) /\ k.w \div Ratio = w
  <2>1. k \in ks /\ Ratio * w <= k.w /\ k.w < NarrowEnd(w)
    BY FirstOfRange
  <2>2. k.w \in Nat /\ Holds("narrow", k)
    BY <2>1, IntervalNames, WindowType DEF Holds
  <2> QED BY <2>1, <2>2, NarrowOfWide
<1> QED BY <1>1

LEMMA ScannedWindows ==
    \A t : Scanned(t) \subseteq Windows("wide")
  BY DEF Scanned

(* What a check leaves out has a row. *)
LEMMA NotMissing ==
    ASSUME NEW t, NEW ks, \A k \in ks : Holds("wide", k),
           NEW w \in Scanned(t), w \notin Missing(t, ks)
    PROVE  rows["wide"][w] # {}
  BY DEF Missing, Holds

LEMMA BeginKeeps ==
    ASSUME CheckInv, BeginCheck
    PROVE  CheckInv'
<1> DEFINE hit == FirstOf(cache["wide"], 0, now + 1, 2 * CheckWindow)
           found == FirstOf(Stored("wide"), 0, now + 1, 2 * CheckWindow)
<1>1. /\ cpc = "idle" /\ dirty' = FALSE /\ at' = now
      /\ due' = {w \in Scanned(now) :
                    \E n \in Windows("narrow") : n \div Ratio = w /\ rows["narrow"][n] # {}}
      /\ UNCHANGED <<handled, done, batch, warming, rows, cache, now, merged, asked>>
      /\ \/ cpc' = "next" /\ missing' = Missing(now, hit) /\ UNCHANGED fetched
         \/ cpc' = "wide" /\ fetched' = found /\ UNCHANGED missing
  BY DEF BeginCheck
<1>2. Grows /\ HandledInv' /\ RowsInv' /\ CacheInv'
  BY <1>1, SameTable, CacheKept DEF CheckInv
<1>3. \A k \in hit : Holds("wide", k)
  <2>1. hit \subseteq cache["wide"]
    BY FirstOfRange
  <2> QED BY <2>1, IntervalNames DEF CheckInv, CacheInv
<1>4. Unique(found) /\ \A k \in found : Holds("wide", k) /\ ~k.live
  <2>1. found \subseteq Stored("wide")
    BY FirstOfRange
  <2>2. Unique(Stored("wide")) /\ \A k \in Stored("wide") : Holds("wide", k) /\ ~k.live
    BY IntervalNames, StoredHolds DEF CheckInv
  <2> QED BY <2>1, <2>2 DEF Unique
<1>5. now \in Nat
  BY HorizonType DEF CheckInv, HandledInv
<1>6. due' \subseteq Scanned(now) /\ due' \subseteq Windows("wide")
  BY <1>1, ScannedWindows
<1> HIDE DEF hit, found
<1>7. CASE cpc' = "next" /\ missing' = Missing(now, hit) /\ UNCHANGED fetched
  <2>1. CheckerType'
    BY <1>1, <1>5, <1>6, <1>7, ScannedWindows DEF CheckInv, CheckerInv, CheckerType, Missing
  <2>2. FetchInv'
    BY <1>1, <1>7 DEF CheckInv, CheckerInv, FetchInv, Unique
  <2>3. \A w \in due' \ missing' : rows["wide"][w] # {}
    BY <1>3, <1>6, <1>7, NotMissing
  <2>4. DueInv'
    BY <1>1, <1>6, <1>7, <2>3 DEF DueInv, Scanned
  <2>5. MergeInv'
    BY <1>1, <1>7 DEF MergeInv, CheckInv, CheckerInv, CheckerType
  <2> QED BY <1>2, <2>1, <2>2, <2>4, <2>5 DEF CheckInv, CheckerInv
<1>8. CASE cpc' = "wide" /\ fetched' = found /\ UNCHANGED missing
  <2>1. CheckerType'
    BY <1>1, <1>5, <1>6, <1>8 DEF CheckInv, CheckerInv, CheckerType
  <2>2. FetchInv'
    <3>1. \A k \in found : Holds("wide", k)'
      BY <1>1, <1>4, HoldsStill
    <3> QED BY <1>4, <1>8, <3>1 DEF FetchInv, Unique, Fetching
  <2>3. DueInv'
    BY <1>1, <1>6, <1>8 DEF DueInv, Scanned
  <2>4. MergeInv'
    BY <1>1, <1>8 DEF MergeInv, CheckInv, CheckerInv, CheckerType
  <2> QED BY <1>2, <2>1, <2>2, <2>3, <2>4 DEF CheckInv, CheckerInv
<1> QED BY <1>1, <1>7, <1>8

LEMMA WarmWideKeeps ==
    ASSUME CheckInv, WarmWide
    PROVE  CheckInv'
<1>1. /\ cpc = "wide" /\ cpc' = "next" /\ missing' = Missing(at, fetched) /\ fetched' = {}
      /\ cache' = [cache EXCEPT !["wide"] = Put(@, fetched)]
      /\ UNCHANGED <<handled, dirty, done, batch, warming, rows, now, at, merged, due, asked>>
  BY DEF WarmWide, aggregator
<1>2. Unique(fetched) /\ \A k \in fetched : Holds("wide", k)
  BY <1>1 DEF CheckInv, CheckerInv, FetchInv, Fetching
<1>3. Grows /\ HandledInv' /\ RowsInv'
  BY <1>1, SameTable DEF CheckInv, HandledInv
<1>4. CacheInv'
  BY <1>1, <1>2, IntervalNames, CacheWarmed DEF CheckInv
<1>5. CheckerType'
  BY <1>1, ScannedWindows DEF CheckInv, CheckerInv, CheckerType, Missing
<1>6. FetchInv' /\ MergeInv'
  BY <1>1 DEF FetchInv, Unique, MergeInv, CheckInv, CheckerInv, CheckerType
<1>7. DueInv'
  <2>1. \A w \in due \ missing' : rows["wide"][w] # {}
    BY <1>1, <1>2, NotMissing DEF CheckInv, CheckerInv, DueInv
  <2> QED BY <1>1, <2>1 DEF CheckInv, CheckerInv, DueInv, Scanned
<1> QED BY <1>3, <1>4, <1>5, <1>6, <1>7 DEF CheckInv, CheckerInv

LEMMA QueryKeeps ==
    ASSUME CheckInv, QueryNarrow
    PROVE  CheckInv'
<1> DEFINE w == Latest(missing)
           hit == FirstOf(cache["narrow"], Ratio * w, NarrowEnd(w), 1000)
           found == FirstOf(Stored("narrow"), Ratio * w, NarrowEnd(w), 1000)
<1>1. /\ cpc = "next" /\ missing # {}
      /\ UNCHANGED <<handled, dirty, done, batch, warming, rows, now, cache, at, due, asked>>
      /\ \/ /\ hit # {} /\ cpc' = "save" /\ merged' = MergedOf(hit)
            /\ UNCHANGED <<missing, fetched>>
         \/ /\ found # {} /\ cpc' = "narrow" /\ fetched' = found
            /\ UNCHANGED <<missing, merged>>
         \/ /\ found = {} /\ missing' = missing \ {w}
            /\ UNCHANGED <<cpc, fetched, merged>>
  <2>1. Left(missing) = missing \ {w}
    BY DEF Left
  <2> QED BY <2>1 DEF QueryNarrow, aggregator
<1>2. w \in missing /\ w \in Windows("wide") /\ w \in Nat
  <2>1. missing \subseteq Windows("wide")
    BY DEF CheckInv, CheckerInv, CheckerType
  <2> QED BY <1>1, <2>1, IntervalNames, LatestProperties, WindowType
<1>3. Grows /\ HandledInv' /\ RowsInv' /\ CacheInv'
  BY <1>1, SameTable, CacheKept DEF CheckInv, HandledInv
<1>4. /\ Unique(Stored("narrow"))
      /\ \A k \in Stored("narrow") : /\ Holds("narrow", k) /\ ~k.live
                                     /\ k = Snapshot(k.w, rows["narrow"][k.w])
      /\ \A n \in Windows("narrow") :
            rows["narrow"][n] # {} => Snapshot(n, rows["narrow"][n]) \in Stored("narrow")
  BY IntervalNames, StoredHolds DEF CheckInv
<1>5. /\ \A k \in hit : Holds("narrow", k) /\ k.w \div Ratio = w
      /\ \A k \in found : k \in Stored("narrow") /\ Holds("narrow", k) /\ k.w \div Ratio = w
  <2>1. \A k \in cache["narrow"] : Holds("narrow", k)
    BY IntervalNames DEF CheckInv, CacheInv
  <2> QED BY <1>2, <1>4, <2>1, NarrowQuery
<1>6. \A n : Snapshot(n, rows["narrow"][n]).w = n
             /\ Snapshot(n, rows["narrow"][n]).trades = rows["narrow"][n]
  BY DEF Snapshot
<1>7. fetched = {} /\ \A x, iv : Content(iv, x)' = Content(iv, x)
  BY <1>1 DEF CheckInv, CheckerInv, FetchInv, CheckerType, Content
<1> HIDE DEF hit
<1>8. CASE /\ hit # {} /\ cpc' = "save" /\ merged' = MergedOf(hit)
           /\ UNCHANGED <<missing, fetched>>
  <2>1. merged' # {} /\ merged' \subseteq Content("wide", w)
    BY <1>2, <1>5, <1>8, MergedWithin DEF CheckInv
  <2>2. Content("wide", w) \subseteq Trades
    BY DEF Content, CheckInv, HandledInv
  <2>3. CheckerType'
    <3>1. CheckerType /\ missing # {} /\ merged' \subseteq Trades
      BY <1>1, <2>1, <2>2 DEF CheckInv, CheckerInv
    <3>2. /\ cpc' = "save" /\ merged' # {}
          /\ UNCHANGED <<at, now, missing, due>>
      BY <1>1, <1>8, <2>1
    <3> QED BY <3>1, <3>2 DEF CheckerType
  <2>4. FetchInv'
    BY <1>7, <1>8 DEF FetchInv, Unique
  <2>5. MergeInv'
    <3>1. Latest(missing') = w /\ Content("wide", w)' = Content("wide", w)
      BY <1>7, <1>8
    <3> QED BY <1>7, <1>8, <2>1, <3>1 DEF MergeInv
  <2>6. DueInv'
    BY <1>1, <1>8 DEF CheckInv, CheckerInv, DueInv, Scanned
  <2> QED BY <1>3, <2>3, <2>4, <2>5, <2>6 DEF CheckInv, CheckerInv
<1>9. CASE /\ found # {} /\ cpc' = "narrow" /\ fetched' = found
           /\ UNCHANGED <<missing, merged>>
  <2> HIDE DEF found
  <2>2. CheckerType'
    BY <1>1, <1>9 DEF CheckInv, CheckerInv, CheckerType
  <2>3. Unique(found)
    <3>1. found \subseteq Stored("narrow")
      BY <1>5
    <3> QED BY <1>4, <3>1 DEF Unique
  <2>4. FetchInv'
    <3>1. \A k \in found : Holds("narrow", k)' /\ ~k.live
      BY <1>1, <1>4, <1>5, HoldsStill
    <3>2. Latest(missing') = w
      BY <1>9
    <3> QED BY <1>1, <1>5, <1>9, <2>3, <3>1, <3>2 DEF FetchInv, Unique, Fetching
  <2>6. MergeInv'
    BY <1>9 DEF MergeInv
  <2>7. DueInv'
    BY <1>1, <1>9 DEF CheckInv, CheckerInv, DueInv, Scanned
  <2> QED BY <1>3, <2>2, <2>4, <2>6, <2>7 DEF CheckInv, CheckerInv
<1>10. CASE /\ found = {} /\ missing' = missing \ {w}
            /\ UNCHANGED <<cpc, fetched, merged>>
  <2>1. ASSUME w \in due PROVE FALSE
    <3>1. PICK n \in Windows("narrow") : n \div Ratio = w /\ rows["narrow"][n] # {}
      BY <2>1 DEF CheckInv, CheckerInv, DueInv
    <3> DEFINE k == Snapshot(n, rows["narrow"][n])
    <3>2. k \in Stored("narrow") /\ k.w = n /\ n \in Nat
      BY <1>4, <1>6, <3>1, IntervalNames, WindowType
    <3>3. Ratio * w <= k.w /\ k.w < NarrowEnd(w)
      BY <1>2, <3>1, <3>2, NarrowOfWide
    <3>4. \A x \in Stored("narrow") : x.w \in Nat
      BY <1>4, IntervalNames, WindowType DEF Holds
    <3> HIDE DEF k
    <3>5. found # {}
      BY <3>2, <3>3, <3>4, FirstOfSome
    <3> QED BY <1>10, <3>5
  <2> HIDE DEF found
  <2>2. CheckerType'
    BY <1>1, <1>10 DEF CheckInv, CheckerInv, CheckerType
  <2>3. FetchInv' /\ MergeInv'
    BY <1>1, <1>7, <1>10 DEF FetchInv, Unique, MergeInv
  <2>4. DueInv'
    BY <1>1, <1>10, <2>1 DEF CheckInv, CheckerInv, DueInv, Scanned
  <2> QED BY <1>3, <2>2, <2>3, <2>4 DEF CheckInv, CheckerInv
<1> HIDE DEF w, found
<1> QED BY <1>1, <1>8, <1>9, <1>10

LEMMA WarmNarrowKeeps ==
    ASSUME CheckInv, WarmNarrow
    PROVE  CheckInv'
<1> DEFINE w == Latest(missing)
<1>1. /\ cpc = "narrow" /\ cpc' = "save" /\ fetched' = {} /\ merged' = MergedOf(fetched)
      /\ cache' = [cache EXCEPT !["narrow"] = Put(@, fetched)]
      /\ UNCHANGED <<handled, dirty, done, batch, warming, rows, now, at, missing,
                     due, asked>>
  BY DEF WarmNarrow, aggregator
<1>2. /\ Unique(fetched) /\ fetched # {} /\ missing # {}
      /\ \A k \in fetched : Holds("narrow", k) /\ ~k.live /\ k.w \div Ratio = w
  BY <1>1 DEF CheckInv, CheckerInv, FetchInv, Fetching
<1>3. w \in Nat
  <2>1. missing \subseteq Windows("wide")
    BY DEF CheckInv, CheckerInv, CheckerType
  <2> QED BY <1>2, <2>1, IntervalNames, LatestProperties, WindowType
<1>4. Grows /\ HandledInv' /\ RowsInv'
  BY <1>1, SameTable DEF CheckInv, HandledInv
<1>5. CacheInv'
  BY <1>1, <1>2, IntervalNames, CacheWarmed DEF CheckInv
<1>6. merged' # {} /\ merged' \subseteq Content("wide", w) /\ Content("wide", w)' = Content("wide", w)
  <2> HIDE DEF w
  <2>1. MergedOf(fetched) # {} /\ MergedOf(fetched) \subseteq Content("wide", w)
    BY <1>2, <1>3, MergedWithin DEF CheckInv
  <2>2. \A x : Content("wide", x)' = Content("wide", x)
    BY <1>1 DEF Content
  <2>3. w' = w
    BY <1>1 DEF w
  <2> QED BY <1>1, <2>1, <2>2, <2>3
<1>7. CheckerType'
  <2>1. Content("wide", w) \subseteq Trades
    BY DEF Content, CheckInv, HandledInv
  <2> QED BY <1>1, <1>2, <1>6, <2>1 DEF CheckInv, CheckerInv, CheckerType
<1>8. FetchInv' /\ MergeInv'
  BY <1>1, <1>6 DEF FetchInv, Unique, MergeInv
<1>9. DueInv'
  BY <1>1 DEF CheckInv, CheckerInv, DueInv, Scanned
<1> QED BY <1>4, <1>5, <1>7, <1>8, <1>9 DEF CheckInv, CheckerInv

LEMMA SaveMergedKeeps ==
    ASSUME CheckInv, SaveMerged
    PROVE  CheckInv'
<1> DEFINE w == Latest(missing)
<1>1. /\ cpc = "save" /\ cpc' = "warm"
      /\ rows' = [rows EXCEPT !["wide"][w] = merged]
      /\ UNCHANGED <<handled, dirty, done, batch, warming, cache, now, at, missing, fetched,
                     merged, due, asked>>
  BY DEF SaveMerged, aggregator
<1>2. /\ w \in Windows("wide") /\ merged # {} /\ merged \subseteq Content("wide", w)
      /\ merged \subseteq Trades
  <2>1. missing # {} /\ missing \subseteq Windows("wide")
    BY <1>1 DEF CheckInv, CheckerInv, CheckerType
  <2>2. w \in Windows("wide")
    BY <2>1, IntervalNames, LatestProperties
  <2> QED BY <1>1, <2>2 DEF CheckInv, CheckerInv, CheckerType, MergeInv
<1> HIDE DEF w
<1>3. ASSUME NEW iv \in Intervals, NEW x \in Windows(iv)
      PROVE  rows'[iv][x] = IF iv = "wide" /\ x = w THEN merged ELSE rows[iv][x]
  BY <1>1, <1>2, IntervalNames DEF CheckInv, RowsInv
<1>4. Grows /\ HandledInv'
  BY <1>1, <1>2, <1>3 DEF Grows, CheckInv, HandledInv, Last
<1>5. \A iv, x : Content(iv, x)' = Content(iv, x)
  BY <1>1 DEF Content
<1>6. RowsInv'
  <2>1. rows' = [iv \in Intervals |-> rows'[iv]]
    BY <1>1 DEF CheckInv, RowsInv
  <2>2. ASSUME NEW iv \in Intervals
        PROVE  /\ rows'[iv] \in [Windows(iv) -> SUBSET Trades]
               /\ \A x \in Windows(iv) : rows'[iv][x] \subseteq Content(iv, x)
    <3>1. rows'[iv] = IF iv = "wide" THEN [rows["wide"] EXCEPT ![w] = merged] ELSE rows[iv]
      BY <1>1, IntervalNames DEF CheckInv, RowsInv
    <3>2. \A x \in Windows(iv) : rows'[iv][x] \subseteq Content(iv, x)
      BY <1>2, <1>3 DEF CheckInv, RowsInv
    <3>3. rows'[iv] \in [Windows(iv) -> SUBSET Trades]
      BY <1>2, <3>1 DEF CheckInv, RowsInv
    <3> QED BY <3>2, <3>3
  <2>3. ASSUME NEW e \in warming', NEW k \in e
        PROVE  rows'[k[1]][k[2]] # {}
    <3>1. Counting(k)
      BY <1>1, <2>3 DEF CheckInv, RowsInv
    <3>2. k[1] \in Intervals /\ k[2] \in Windows(k[1])
      <4>1. k[1] \in Intervals
        BY <3>1 DEF Counting
      <4>2. PICK t \in handled : WindowOf(t, k[1]) = k[2]
        BY <3>1 DEF Counting, Content
      <4> QED BY <4>1, <4>2, WindowOfTrade DEF CheckInv, HandledInv
    <3>3. rows[k[1]][k[2]] # {}
      BY <1>1, <2>3 DEF CheckInv, RowsInv
    <3>4. rows'[k[1]][k[2]] \in {merged, rows[k[1]][k[2]]}
      BY <1>3, <3>2
    <3> QED BY <1>2, <3>3, <3>4
  <2>4. ASSUME NEW k \in done' \cup UNION (batch' \cup warming')
        PROVE  Counting(k)'
    BY <1>1, <1>5, <2>4 DEF CheckInv, RowsInv, Counting
  <2> QED BY <1>5, <2>1, <2>2, <2>3, <2>4 DEF RowsInv
<1>7. CacheInv'
  BY <1>1, <1>4, CacheKept DEF CheckInv
<1>8. CheckerType'
  BY <1>1, <1>2 DEF CheckInv, CheckerInv, CheckerType
<1>9. FetchInv'
  BY <1>1 DEF CheckInv, CheckerInv, FetchInv, Unique
<1>10. MergeInv'
  BY <1>1, <1>2, <1>3, <1>5, IntervalNames DEF MergeInv, w
<1>11. DueInv'
  <2>1. \A x \in due : \E n \in Windows("narrow") : n \div Ratio = x /\ rows'["narrow"][n] # {}
    BY <1>3, IntervalNames DEF CheckInv, CheckerInv, DueInv
  <2>2. \A x \in due \ missing : rows'["wide"][x] # {}
    BY <1>1, <1>2, <1>3, IntervalNames DEF CheckInv, CheckerInv, CheckerType, DueInv
  <2> QED BY <1>1, <2>1, <2>2 DEF CheckInv, CheckerInv, DueInv, Scanned
<1> QED BY <1>4, <1>6, <1>7, <1>8, <1>9, <1>10, <1>11 DEF CheckInv, CheckerInv

LEMMA WarmMergedKeeps ==
    ASSUME CheckInv, WarmMerged
    PROVE  CheckInv'
<1> DEFINE w == Latest(missing)
           ks == {Snapshot(w, merged)}
<1>1. /\ cpc = "warm" /\ cpc' = "next" /\ missing' = missing \ {w} /\ merged' = {}
      /\ cache' = [cache EXCEPT !["wide"] = Put(@, ks)]
      /\ UNCHANGED <<handled, dirty, done, batch, warming, rows, now, at, fetched, due, asked>>
  BY DEF WarmMerged, aggregator
<1>2. /\ w \in Windows("wide") /\ merged # {} /\ merged \subseteq Content("wide", w)
      /\ merged \subseteq Trades /\ rows["wide"][w] # {}
  <2>1. missing # {} /\ missing \subseteq Windows("wide")
    BY <1>1 DEF CheckInv, CheckerInv, CheckerType
  <2>2. w \in Windows("wide")
    BY <2>1, IntervalNames, LatestProperties
  <2> QED BY <1>1, <2>2 DEF CheckInv, CheckerInv, CheckerType, MergeInv
<1>3. Unique(ks) /\ \A k \in ks : Holds("wide", k)
  <2> HIDE DEF w
  <2>1. /\ Snapshot(w, merged) \in Cached /\ Snapshot(w, merged).w = w
        /\ TradesOf("wide", Snapshot(w, merged)) = merged
    BY <1>2, IntervalNames, WindowType DEF Snapshot, Cached, TradesOf
  <2> QED BY <1>2, <2>1 DEF Unique, Holds
<1>4. Grows /\ HandledInv' /\ RowsInv'
  BY <1>1, SameTable DEF CheckInv, HandledInv
<1>5. CacheInv'
  <2> HIDE DEF ks
  <2> QED BY <1>1, <1>3, IntervalNames, CacheWarmed DEF CheckInv
<1>6. CheckerType'
  BY <1>1 DEF CheckInv, CheckerInv, CheckerType
<1>7. FetchInv' /\ MergeInv'
  BY <1>1 DEF CheckInv, CheckerInv, FetchInv, MergeInv, Unique
<1>8. DueInv'
  <2>1. \A x \in due \ missing' : rows["wide"][x] # {}
    BY <1>1, <1>2 DEF CheckInv, CheckerInv, DueInv
  <2> QED BY <1>1, <2>1 DEF CheckInv, CheckerInv, DueInv, Scanned
<1> QED BY <1>4, <1>5, <1>6, <1>7, <1>8 DEF CheckInv, CheckerInv

LEMMA ReturnKeeps ==
    ASSUME CheckInv, Return
    PROVE  CheckInv'
<1>1. /\ cpc' = "idle" /\ at' = 0 /\ missing' = {} /\ fetched' = {} /\ merged' = {}
      /\ due' = {}
      /\ UNCHANGED <<handled, dirty, done, batch, warming, rows, cache, now, asked>>
  BY DEF Return, aggregator
<1>2. Grows /\ HandledInv' /\ RowsInv'
  BY <1>1, SameTable DEF CheckInv, HandledInv
<1>3. CacheInv'
  BY <1>1, <1>2, CacheKept DEF CheckInv
<1>4. CheckerType'
  <2>1. now' \in Nat /\ 0 \in 0..now'
    BY <1>1, HorizonType DEF CheckInv, HandledInv
  <2> QED BY <1>1, <2>1 DEF CheckerType
<1>5. FetchInv' /\ MergeInv' /\ DueInv'
  BY <1>1 DEF FetchInv, MergeInv, DueInv, Unique
<1> QED BY <1>2, <1>3, <1>4, <1>5 DEF CheckInv, CheckerInv

-----------------------------------------------------------------------------
(* The specification *)

LEMMA InitCheck == Init => CheckInv
<1> SUFFICES ASSUME Init PROVE CheckInv
  OBVIOUS
<1>1. HandledInv
  <2>1. handled = {} /\ dirty = FALSE /\ now = 0
    BY DEF Init
  <2>2. Last = 0 /\ 1..0 = {}
    BY <2>1, FS_EmptySet DEF Last
  <2>3. now \in 0..Horizon
    BY <2>1, HorizonType
  <2>4. handled \subseteq Trades /\ Last \in Nat /\ handled = 1..Last
    BY <2>1, <2>2
  <2>5. dirty \in BOOLEAN
    BY <2>1
  <2> QED BY <2>3, <2>4, <2>5 DEF HandledInv
<1>2. RowsInv
  <2>1. rows = [iv \in Intervals |-> [w \in Windows(iv) |-> {}]]
    BY DEF Init
  <2>2. ASSUME NEW iv \in Intervals
        PROVE  /\ rows[iv] \in [Windows(iv) -> SUBSET Trades]
               /\ \A w \in Windows(iv) : rows[iv][w] \subseteq Content(iv, w)
    <3>1. rows[iv] = [w \in Windows(iv) |-> {}]
      BY <2>1
    <3> QED BY <3>1
  <2>3. rows = [iv \in Intervals |-> rows[iv]]
    BY <2>1
  <2> QED BY <2>2, <2>3 DEF Init, RowsInv
<1>3. CacheInv
  BY FS_EmptySet, ContinuityAssumption DEF Init, CacheInv, Unique
<1>4. CheckerInv
  <2>1. /\ now = 0 /\ cpc = "idle" /\ at = 0 /\ missing = {} /\ fetched = {}
        /\ merged = {} /\ due = {}
    BY DEF Init
  <2>2. CheckerType
    <3>1. at \in 0..now
      BY <2>1
    <3> QED BY <2>1, <3>1 DEF CheckerType
  <2> QED BY <2>1, <2>2 DEF CheckerInv, FetchInv, MergeInv, DueInv, Unique
<1> QED BY <1>1, <1>2, <1>3, <1>4 DEF CheckInv

LEMMA NextCheck == CheckInv /\ [Next]_vars => CheckInv'
<1> SUFFICES ASSUME CheckInv, [Next]_vars PROVE CheckInv'
  OBVIOUS
<1>1. CASE UNCHANGED vars
  <2>1. UNCHANGED <<handled, dirty, now, done, batch, warming, rows, cache, asked,
                    cpc, at, missing, fetched, merged, due>>
    BY <1>1 DEF vars, aggregator, checker
  <2>2. Grows /\ HandledInv' /\ RowsInv'
    BY <2>1, SameTable DEF CheckInv, HandledInv
  <2>3. CacheInv'
    BY <2>1, <2>2, CacheKept DEF CheckInv
  <2> QED BY <2>1, <2>3, SameChecker
<1>2. CASE Tick
  BY <1>2, TickKeeps
<1>3. CASE HandleTrade
  BY <1>3, HandleKeeps
<1>4. CASE Collect
  BY <1>4, CollectKeeps
<1>5. CASE \E e \in batch : SaveEntry(e) \/ FailEntry(e)
  BY <1>5, SaveKeeps, FailEntryKeeps
<1>6. CASE \E e \in warming : WarmEntry(e)
  BY <1>6, WarmEntryKeeps
<1>7. CASE CheckerStep
  BY <1>7, BeginKeeps, WarmWideKeeps, QueryKeeps, WarmNarrowKeeps, SaveMergedKeeps,
     WarmMergedKeeps, ReturnKeeps DEF CheckerStep, FailCheck, EndCheck
<1>8. CASE \E r \in Ranges : AskTable(r)
  BY <1>8, AskKeeps
<1>9. CASE \E iv \in Intervals : WarmAsked(iv) \/ Expire(iv)
  BY <1>9, WarmAskedKeeps, ExpireKeeps
<1> QED BY <1>1, <1>2, <1>3, <1>4, <1>5, <1>6, <1>7, <1>8, <1>9 DEF Next

LEMMA Checked == Spec => []CheckInv
  BY InitCheck, NextCheck, PTL DEF Spec

(* Type correctness: the cache holds one kline of a window and no more than its size,
   whoever puts klines into it. *)
THEOREM TypeCorrect == Spec => []TypeOK
  BY Checked, CheckType, PTL

(* Rows and cached klines count handled trades of their own window only, through
   backfills, checkpoints and rows that are cached late. *)
THEOREM NothingMisfiled == Spec => []OwnTradesOnly
<1>1. CheckInv => OwnTradesOnly
  BY DEF CheckInv, RowsInv, CacheInv, Holds, OwnTradesOnly
<1> QED BY <1>1, Checked, PTL

(* A window the checker has passed has a row if it had narrow rows when the check
   began. *)
THEOREM PassedAreFilled == Spec => []PassedWindowsHaveRows
<1>1. CheckInv => PassedWindowsHaveRows
  BY DEF CheckInv, CheckerInv, DueInv, PassedWindowsHaveRows
<1> QED BY <1>1, Checked, PTL
===============================================================================
