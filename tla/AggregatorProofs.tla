--------------------------- MODULE AggregatorProofs ---------------------------
(***************************************************************************)
(* Proofs about the aggregator, for any number of workers, symbols,        *)
(* intervals and trades, with failing saves and loads, restarts that give  *)
(* trades again, changes of leadership and shutdown: type correctness;     *)
(* that a row counts trades of its own window only; that the aggregator    *)
(* implements the store of CandleStore; and that no trade falls between    *)
(* buckets, buffer, batch and rows.                                        *)
(***************************************************************************)
EXTENDS Aggregator, SequenceTheorems, WellFoundedInduction, TLAPS

(* A set of natural numbers that is not empty has a least element. *)
LEMMA LeastNatural ==
    ASSUME NEW S \in SUBSET Nat, S # {}
    PROVE  \E n \in S : \A m \in S : n <= m
<1>1. PICK n \in S : \A m \in S : ~(<<m, n>> \in OpToRel(<, Nat))
  BY NatLessThanWellFounded, WFMin
<1>2. \A m \in S : ~(m < n)
  BY <1>1 DEF OpToRel
<1> QED BY <1>2

(* A set of natural numbers up to a bound that is not empty has a greatest
   element. *)
LEMMA GreatestNatural ==
    ASSUME NEW S, NEW b \in Nat, S \subseteq 1..b, S # {}
    PROVE  \E n \in S : \A m \in S : m <= n
<1> DEFINE T == {b - n : n \in S}
<1>1. T \in SUBSET Nat /\ T # {}
  <2>1. \A n \in S : b - n \in Nat
    OBVIOUS
  <2> QED BY <2>1
<1>2. PICK d \in T : \A e \in T : d <= e
  BY <1>1, LeastNatural
<1>3. PICK n \in S : d = b - n
  BY <1>2
<1>4. ASSUME NEW m \in S PROVE m <= n
  <2>1. b - m \in T
    OBVIOUS
  <2> QED BY <1>2, <1>3, <2>1
<1> QED BY <1>4

-----------------------------------------------------------------------------
(* Klines, windows and rows *)

(* An address of the heap is an interval and a trade. *)
LEMMA KlineParts ==
    /\ \A k \in Kline : k[1] \in Intervals /\ k[2] \in Trades
    /\ \A iv \in Intervals, t \in Trades :
          /\ <<iv, t>> \in Kline /\ <<iv, t>>[1] = iv /\ <<iv, t>>[2] = t
          /\ <<iv, t>> # NoKline
  BY KlineAssumption DEF Kline

(* The parts of a window; the window of a new kline. *)
LEMMA WindowParts ==
    ASSUME NEW t \in Trades, NEW iv \in Intervals
    PROVE  /\ Window(t, iv) \in Windows
           /\ Window(t, iv)[1] = TradeSym[t] /\ Window(t, iv)[2] = iv
           /\ WindowOf(<<iv, t>>) = Window(t, iv)
  BY DEF Window, Windows, WindowOf

LEMMA SymbolOfTrade == \A t \in Trades : TradeSym[t] \in Symbols
  BY TradesAssumption

(* The kline a trade is added to is of its interval, symbol and window. *)
LEMMA CurrentProperties ==
    ASSUME TypeOK, NEW t \in Trades, NEW iv \in Intervals
    PROVE  /\ Current(t, iv) \in Kline /\ Current(t, iv) # NoKline
           /\ Current(t, iv)[1] = iv
           /\ TradeSym[Current(t, iv)[2]] = TradeSym[t]
           /\ WindowOf(Current(t, iv)) = Window(t, iv)
<1> DEFINE k == data[TradeSym[t]][iv]
<1>1. CASE k # NoKline /\ WindowOf(k) = Window(t, iv)
  <2>1. Current(t, iv) = k
    BY <1>1 DEF Current
  <2>2. k \in Kline /\ k[1] = iv /\ TradeSym[k[2]] = TradeSym[t]
    BY <1>1, SymbolOfTrade DEF TypeOK
  <2> QED BY <1>1, <2>1, <2>2
<1>2. CASE ~(k # NoKline /\ WindowOf(k) = Window(t, iv))
  <2>1. Current(t, iv) = <<iv, t>>
    BY <1>2 DEF Current
  <2> QED BY <2>1, KlineParts, WindowParts
<1> QED BY <1>1, <1>2

(* Open klines and those a trade closes are klines. *)
LEMMA OpenKlines ==
    ASSUME TypeOK, NEW s \in Symbols
    PROVE  Open(s) \subseteq Kline
  BY DEF TypeOK, Open

LEMMA ClosedKlines ==
    ASSUME TypeOK, NEW t \in Trades
    PROVE  Closed(t) \subseteq Kline
  BY SymbolOfTrade, OpenKlines DEF Closed

(* The last kline of a window in an entry is one of its klines. *)
LEMMA LastOfProperties ==
    ASSUME NEW e \in Seq(SUBSET Kline), NEW win,
           \E k \in KlinesOf(e) : WindowOf(k) = win
    PROVE  LastOf(e, win) \in KlinesOf(e) /\ WindowOf(LastOf(e, win)) = win
<1> DEFINE Has(i) == \E k \in e[i] : WindowOf(k) = win
           S == {i \in 1..Len(e) : Has(i)}
           Good(k) == /\ WindowOf(k) = win
                      /\ \E i \in 1..Len(e) :
                            /\ k \in e[i]
                            /\ \A j \in (i + 1)..Len(e) : \A l \in e[j] : WindowOf(l) # win
<1>1. Len(e) \in Nat /\ S \subseteq 1..Len(e) /\ S # {}
  BY DEF KlinesOf
<1>2. PICK i \in S : \A j \in S : j <= i
  BY <1>1, GreatestNatural
<1>3. PICK k \in e[i] : WindowOf(k) = win
  BY <1>2
<1>4. \A j \in (i + 1)..Len(e) : \A l \in e[j] : WindowOf(l) # win
  <2>1. ASSUME NEW j \in (i + 1)..Len(e) PROVE j \in 1..Len(e) /\ ~(j <= i)
    BY <1>1, <1>2
  <2> QED BY <1>2, <2>1
<1>5. k \in KlinesOf(e) /\ Good(k)
  BY <1>2, <1>3, <1>4 DEF KlinesOf
<1> DEFINE last == CHOOSE k_1 \in KlinesOf(e) : Good(k_1)
<1>6. last \in KlinesOf(e) /\ Good(last)
  BY <1>5
<1>7. LastOf(e, win) = last
  BY DEF LastOf
<1> HIDE DEF last
<1> QED BY <1>6, <1>7

(* The klines of an entry. *)
LEMMA EntryKlines ==
    ASSUME NEW e \in Seq(SUBSET Kline)
    PROVE  KlinesOf(e) \subseteq Kline
  BY DEF KlinesOf

-----------------------------------------------------------------------------
(* Type correctness *)

(* The trade a worker inside updateBuckets adds to a kline has begun and is of
   the kline's window. *)
LEMMA AddingProperties ==
    ASSUME TypeOK, NEW k \in Kline, NEW t \in Adding(k)
    PROVE  /\ t \in Trades /\ t \in InWindow(WindowOf(k))
           /\ \E w \in Workers : wpc[w] = "update" /\ wtrade[w] = t
<1>1. PICK w \in Workers : wpc[w] = "update" /\ wtrade[w] = t /\ Current(t, k[1]) = k
  BY DEF Adding
<1>2. t \in Trades
  BY <1>1 DEF TypeOK
<1>3. k[1] \in Intervals /\ k[2] \in Trades
  BY KlineParts
<1>4. WindowOf(k) = Window(t, k[1])
  BY <1>1, <1>2, <1>3, CurrentProperties
<1>5. WindowOf(k)[2] = k[1]
  <2>1. Window(t, k[1])[2] = k[1]
    BY <1>2, <1>3, WindowParts
  <2> QED BY <1>4, <2>1
<1> QED BY <1>1, <1>2, <1>4, <1>5 DEF InWindow

(* A saved entry writes, for each of its windows, what is read of a kline of that
   window; the other rows stay. *)
LEMMA SavedRows ==
    ASSUME TypeOK, NEW e \in batch, SaveEntry(e), NEW win \in Windows
    PROVE  \/ rows'[win] = rows[win]
           \/ \E k \in Kline : /\ WindowOf(k) = win
                              /\ rows'[win].px \subseteq content[k] \cup Adding(k)
                              /\ rows'[win].vol \subseteq content[k] \cup Adding(k)
                              /\ rows'[win] = [px |-> rows'[win].px, vol |-> rows'[win].vol]
<1>1. PICK px \in SUBSET Racing(e), vol \in SUBSET Racing(e) :
        rows' = Replaced(e, [k \in KlinesOf(e) |-> [px |-> Read(k, px), vol |-> Read(k, vol)]])
  BY DEF SaveEntry
<1>2. e \in Seq(SUBSET Kline)
  BY DEF TypeOK
<1>3. CASE ~\E k \in KlinesOf(e) : WindowOf(k) = win
  BY <1>1, <1>3 DEF Replaced
<1>4. CASE \E k \in KlinesOf(e) : WindowOf(k) = win
  <2> DEFINE k == LastOf(e, win)
  <2>1. k \in KlinesOf(e) /\ WindowOf(k) = win
    BY <1>2, <1>4, LastOfProperties
  <2>2. k \in Kline
    BY <1>2, <2>1, EntryKlines
  <2>3. rows'[win] = [px |-> Read(k, px), vol |-> Read(k, vol)]
    BY <1>1, <1>4, <2>1 DEF Replaced
  <2>4. \A late : Read(k, late) \subseteq content[k] \cup Adding(k)
    BY DEF Read
  <2> HIDE DEF k
  <2> QED BY <2>1, <2>2, <2>3, <2>4
<1> QED BY <1>3, <1>4

LEMMA SavedType ==
    ASSUME TypeOK, NEW e \in batch, SaveEntry(e)
    PROVE  rows' \in [Windows -> Row]
<1>1. ASSUME NEW win \in Windows PROVE rows'[win] \in Row
  <2>1. CASE rows'[win] = rows[win]
    BY <2>1 DEF TypeOK
  <2>2. ASSUME NEW k \in Kline,
               /\ rows'[win].px \subseteq content[k] \cup Adding(k)
               /\ rows'[win].vol \subseteq content[k] \cup Adding(k)
               /\ rows'[win] = [px |-> rows'[win].px, vol |-> rows'[win].vol]
        PROVE  rows'[win] \in Row
    <3>1. content[k] \subseteq Trades /\ Adding(k) \subseteq Trades
      BY AddingProperties DEF TypeOK
    <3> QED BY <2>2, <3>1 DEF Row
  <2> QED BY <2>1, <2>2, SavedRows
<1>2. \E seen : rows' = Replaced(e, seen)
  BY DEF SaveEntry
<1>3. rows' = [win \in Windows |-> rows'[win]]
  BY <1>2 DEF Replaced
<1> QED BY <1>1, <1>3

(* What a kline counts makes a row. *)
LEMMA RowOfKline ==
    ASSUME TypeOK, NEW k \in Kline
    PROVE  [px |-> content[k], vol |-> content[k]] \in Row
<1>1. content[k] \in SUBSET Trades
  BY DEF TypeOK
<1> QED BY <1>1 DEF Row

(* Close writes klines of the windows they are written to. *)
LEMMA FlushedCompleted ==
    ASSUME TypeOK, NEW failed \in SUBSET Symbols, FlushCompleted(failed)
    PROVE  /\ rows' \in [Windows -> Row]
           /\ \A win \in Windows :
                 \/ rows'[win] = rows[win]
                 \/ \E k \in Kline : /\ WindowOf(k) = win
                                    /\ \E s \in Symbols : k \in KlinesOf(completed[s])
                                    /\ rows'[win] = [px |-> content[k], vol |-> content[k]]
<1> DEFINE saved(win) == /\ win[1] \notin failed
                         /\ \E k \in KlinesOf(completed[win[1]]) : WindowOf(k) = win
           last(win) == content[LastOf(completed[win[1]], win)]
<1>1. rows' = [win \in Windows |->
                IF saved(win) THEN [px |-> last(win), vol |-> last(win)] ELSE rows[win]]
  BY DEF FlushCompleted
<1>2. ASSUME NEW win \in Windows, saved(win)
      PROVE  \E k \in Kline : /\ WindowOf(k) = win
                            /\ \E s \in Symbols : k \in KlinesOf(completed[s])
                            /\ rows'[win] = [px |-> content[k], vol |-> content[k]]
  <2> DEFINE k == LastOf(completed[win[1]], win)
  <2>1. win[1] \in Symbols /\ completed[win[1]] \in Seq(SUBSET Kline)
    <3>1. PICK t \in Trades, iv \in Intervals : win = Window(t, iv)
      BY DEF Windows
    <3>2. win[1] \in Symbols
      <4>1. Window(t, iv)[1] = TradeSym[t] /\ TradeSym[t] \in Symbols
        BY SymbolOfTrade, WindowParts
      <4> QED BY <3>1, <4>1
    <3> QED BY <3>2 DEF TypeOK
  <2>2. k \in KlinesOf(completed[win[1]]) /\ WindowOf(k) = win
    BY <1>2, <2>1, LastOfProperties
  <2>3. k \in Kline
    BY <2>1, <2>2, EntryKlines
  <2>4. rows'[win] = [px |-> content[k], vol |-> content[k]]
    BY <1>1, <1>2
  <2> HIDE DEF k
  <2> QED BY <2>1, <2>2, <2>3, <2>4
<1> HIDE DEF saved, last
<1>3. \A win \in Windows :
        \/ rows'[win] = rows[win]
        \/ \E k \in Kline : /\ WindowOf(k) = win
                           /\ \E s \in Symbols : k \in KlinesOf(completed[s])
                           /\ rows'[win] = [px |-> content[k], vol |-> content[k]]
  BY <1>1, <1>2
<1>4. ASSUME NEW win \in Windows PROVE rows'[win] \in Row
  <2>1. rows[win] \in Row
    BY DEF TypeOK
  <2> QED BY <1>3, <2>1, RowOfKline
<1>5. rows' = [win \in Windows |-> rows'[win]]
  BY <1>1
<1> QED BY <1>3, <1>4, <1>5

LEMMA FlushedOpen ==
    ASSUME TypeOK, NEW s \in Symbols, NEW failed \in SUBSET Intervals, FlushOpen(s, failed)
    PROVE  /\ rows' \in [Windows -> Row]
           /\ \A win \in Windows :
                 \/ rows'[win] = rows[win]
                 \/ \E k \in Kline : /\ WindowOf(k) = win /\ k \in Open(s)
                                    /\ rows'[win] = [px |-> content[k], vol |-> content[k]]
<1> DEFINE saved == {k \in Open(s) : k[1] \notin failed}
           kline(win) == CHOOSE k \in saved : WindowOf(k) = win
<1>1. rows' = [win \in Windows |->
                IF \E k \in saved : WindowOf(k) = win
                  THEN [px |-> content[kline(win)], vol |-> content[kline(win)]]
                  ELSE rows[win]]
  BY DEF FlushOpen
<1>2. saved \subseteq Kline
  BY OpenKlines
<1>3. ASSUME NEW win \in Windows, \E k \in saved : WindowOf(k) = win
      PROVE  /\ kline(win) \in Kline /\ WindowOf(kline(win)) = win
             /\ kline(win) \in Open(s)
  BY <1>2, <1>3
<1> HIDE DEF saved, kline
<1>4. \A win \in Windows :
        \/ rows'[win] = rows[win]
        \/ \E k \in Kline : /\ WindowOf(k) = win /\ k \in Open(s)
                           /\ rows'[win] = [px |-> content[k], vol |-> content[k]]
  BY <1>1, <1>3
<1>5. ASSUME NEW win \in Windows PROVE rows'[win] \in Row
  <2>1. rows[win] \in Row
    BY DEF TypeOK
  <2> QED BY <1>4, <2>1, RowOfKline
<1>6. rows' = [win \in Windows |-> rows'[win]]
  BY <1>1
<1> QED BY <1>4, <1>5, <1>6

(* What the history counts is windows and trades. *)
LEMMA HistoryType ==
    ASSUME TypeOK
    PROVE  /\ \A t \in Trades, failed \in SUBSET Intervals : Missed(t, failed) \subseteq Windows
           /\ \A t \in Trades : Reopened(t) \subseteq Windows
           /\ \A ks \in SUBSET Kline :
                 Discarded(ks) \subseteq Trades /\ UNION {content[k] : k \in ks} \subseteq Trades
<1>1. \A k \in Kline : content[k] \subseteq Trades
  BY DEF TypeOK
<1>2. ASSUME NEW ks \in SUBSET Kline
      PROVE  Discarded(ks) \subseteq Trades /\ UNION {content[k] : k \in ks} \subseteq Trades
  BY <1>1 DEF Discarded
<1>3. ASSUME NEW t \in Trades, NEW failed \in SUBSET Intervals
      PROVE  Missed(t, failed) \subseteq Windows
  BY WindowParts DEF Missed
<1>4. ASSUME NEW t \in Trades PROVE Reopened(t) \subseteq Windows
  BY WindowParts DEF Reopened
<1> QED BY <1>2, <1>3, <1>4

(* The types hold initially. *)
LEMMA InitType == Init => TypeOK
<1> SUFFICES ASSUME Init PROVE TypeOK
  OBVIOUS
<1>1. leader \in BOOLEAN
  <2>1. (IF MaxChanges > 0 THEN BOOLEAN ELSE {TRUE}) \subseteq BOOLEAN
    OBVIOUS
  <2> QED BY <2>1 DEF Init
<1>2. NoRow \in Row
  BY DEF NoRow, Row
<1>3. /\ wpc \in [Workers -> {"idle", "lock", "recover", "stuck", "update", "buffer"}]
      /\ wtrade \in [Workers -> Trades \cup {NoTrade}]
      /\ wclosed \in [Workers -> SUBSET Kline]
      /\ \A w \in Workers : wpc[w] = "idle" /\ wtrade[w] = NoTrade
  BY DEF Init
<1>4. /\ lock \in [Symbols -> Workers \cup {Free}]
      /\ data \in [Symbols -> [Intervals -> Kline \cup {NoKline}]]
      /\ \A s \in Symbols, iv \in Intervals : data[s][iv] = NoKline
      /\ content \in [Kline -> SUBSET Trades]
      /\ completed \in [Symbols -> Seq(SUBSET Kline)]
  BY DEF Init
<1>5. /\ next \in Nat /\ ckpc = "idle" /\ tovisit = {} /\ batch = {}
      /\ stopping = FALSE /\ closepc = "none" /\ toflush = {}
      /\ crashes \in Nat /\ changes \in Nat
      /\ begun = {} /\ ahead = {} /\ anew = {} /\ lost = {}
      /\ rows \in [Windows -> Row]
  BY <1>2 DEF Init
<1> QED BY <1>1, <1>3, <1>4, <1>5 DEF TypeOK

(* What a worker does keeps the types. *)
LEMMA WorkerType ==
    ASSUME TypeOK, NEW w \in Workers, WorkerStep(w)
    PROVE  TypeOK'
<1> DEFINE steps == {"idle", "lock", "recover", "stuck", "update", "buffer"}
<1>0. /\ wpc \in [Workers -> steps]
      /\ wtrade \in [Workers -> Trades \cup {NoTrade}]
      /\ \A v \in Workers : wpc[v] = "idle" <=> wtrade[v] = NoTrade
      /\ NoTrade \notin Trades
  BY TradesAssumption DEF TypeOK
<1>1. CASE TakeTrade(w)
  <2>1. /\ next \in Trades /\ next' \in Nat
        /\ wtrade' = [wtrade EXCEPT ![w] = next]
        /\ wpc' = [wpc EXCEPT ![w] = "lock"]
    BY <1>1, TradesAssumption DEF TakeTrade, TypeOK, Trades
  <2>2. /\ wpc' \in [Workers -> steps]
        /\ wtrade' \in [Workers -> Trades \cup {NoTrade}]
        /\ \A v \in Workers : wpc'[v] = "idle" <=> wtrade'[v] = NoTrade
    BY <1>0, <2>1
  <2> QED BY <1>1, <2>1, <2>2 DEF TakeTrade, TypeOK, buckets, checkpoint, closing, life, history
<1>2. ASSUME wpc[w] # "idle" PROVE wtrade[w] \in Trades
  BY <1>0, <1>2
<1>3. CASE LockSymbol(w)
  <2> DEFINE s == TradeSym[wtrade[w]]
  <2>1. wtrade[w] \in Trades /\ s \in Symbols
    BY <1>2, <1>3, SymbolOfTrade DEF LockSymbol
  <2>2. lock' \in [Symbols -> Workers \cup {Free}]
    BY <1>3, <2>1 DEF LockSymbol, TypeOK
  <2>3. /\ begun \subseteq begun' /\ begun' \subseteq Trades
        /\ UNCHANGED <<ahead, anew, lost>>
    BY <1>3, <2>1 DEF LockSymbol, TypeOK, history
  <2>4. wpc[w] = "lock" /\ \E to \in {"recover", "update"} : wpc' = [wpc EXCEPT ![w] = to]
    BY <1>3 DEF LockSymbol
  <2>5. /\ wpc' \in [Workers -> steps]
        /\ \A v \in Workers : wpc'[v] = "idle" <=> wtrade[v] = NoTrade
    BY <1>0, <2>4
  <2> QED BY <1>3, <2>2, <2>3, <2>5 DEF LockSymbol, TypeOK, checkpoint, closing, life, history
<1>4. ASSUME NEW failed \in SUBSET Intervals, Recover(w, failed) PROVE TypeOK'
  <2>1. wtrade[w] \in Trades
    BY <1>2, <1>4 DEF Recover
  <2>2. /\ begun \subseteq begun' /\ begun' \subseteq Trades /\ anew' \subseteq Windows
        /\ UNCHANGED <<ahead, lost>>
    <3>1. Missed(wtrade[w], failed) \subseteq Windows
      BY <2>1, HistoryType
    <3> QED BY <1>4, <2>1, <3>1 DEF Recover, TypeOK, history
  <2>3. wpc[w] = "recover" /\ \E to \in {"stuck", "update"} : wpc' = [wpc EXCEPT ![w] = to]
    BY <1>4 DEF Recover
  <2>4. /\ wpc' \in [Workers -> steps]
        /\ \A v \in Workers : wpc'[v] = "idle" <=> wtrade[v] = NoTrade
    BY <1>0, <2>3
  <2> QED BY <1>4, <2>2, <2>4 DEF Recover, TypeOK, buckets, checkpoint, closing, life, history
<1>5. CASE UpdateBuckets(w)
  <2> DEFINE t == wtrade[w]
             s == TradeSym[t]
  <2>1. t \in Trades /\ s \in Symbols
    BY <1>2, <1>5, SymbolOfTrade DEF UpdateBuckets
  <2>2. wclosed' \in [Workers -> SUBSET Kline]
    BY <1>5, <2>1, ClosedKlines DEF UpdateBuckets, TypeOK
  <2> DEFINE made == [iv \in Intervals |-> Current(t, iv)]
  <2>3. /\ made \in [Intervals -> Kline \cup {NoKline}]
        /\ \A iv \in Intervals : made[iv][1] = iv /\ TradeSym[made[iv][2]] = s
    BY <2>1, CurrentProperties
  <2>4. data' = [data EXCEPT ![s] = made]
    BY <1>5 DEF UpdateBuckets
  <2> HIDE DEF made
  <2>5. /\ data' \in [Symbols -> [Intervals -> Kline \cup {NoKline}]]
        /\ \A r \in Symbols, iv \in Intervals : data'[r][iv] # NoKline =>
              data'[r][iv][1] = iv /\ TradeSym[data'[r][iv][2]] = r
    BY <2>1, <2>3, <2>4 DEF TypeOK
  <2>6. content' \in [Kline -> SUBSET Trades]
    BY <1>5, <2>1 DEF UpdateBuckets, TypeOK
  <2>7. lock' \in [Symbols -> Workers \cup {Free}]
    BY <1>5, <2>1 DEF UpdateBuckets, TypeOK
  <2>8. wpc[w] = "update" /\ wpc' = [wpc EXCEPT ![w] = "buffer"] /\ wtrade' = wtrade
    BY <1>5 DEF UpdateBuckets
  <2>9. /\ wpc' \in [Workers -> steps]
        /\ \A v \in Workers : wpc'[v] = "idle" <=> wtrade'[v] = NoTrade
    BY <1>0, <2>8
  <2>10. /\ anew' \subseteq Windows /\ ahead' \subseteq begun'
         /\ UNCHANGED <<begun, lost>>
    <3>1. Reopened(t) \subseteq Windows
      BY <2>1, HistoryType
    <3> QED BY <1>5, <3>1 DEF UpdateBuckets, TypeOK
  <2> QED BY <1>5, <2>2, <2>5, <2>6, <2>7, <2>9, <2>10
      DEF UpdateBuckets, TypeOK, checkpoint, closing, life, history
<1>6. CASE BufferCompleted(w)
  <2> DEFINE s == TradeSym[wtrade[w]]
  <2>1. s \in Symbols
    BY <1>2, <1>6, SymbolOfTrade DEF BufferCompleted
  <2>2. Buffered(s, wclosed[w]) \in Seq(SUBSET Kline)
    <3>1. completed[s] \in Seq(SUBSET Kline) /\ wclosed[w] \in SUBSET Kline
      BY <2>1 DEF TypeOK
    <3> QED BY <3>1, AppendProperties DEF Buffered
  <2>3. completed' \in [Symbols -> Seq(SUBSET Kline)]
    BY <1>6, <2>1, <2>2 DEF BufferCompleted, TypeOK
  <2>4. /\ wpc' = [wpc EXCEPT ![w] = "idle"]
        /\ wtrade' = [wtrade EXCEPT ![w] = NoTrade]
        /\ wclosed' = [wclosed EXCEPT ![w] = {}]
    BY <1>6 DEF BufferCompleted
  <2>5. /\ wpc' \in [Workers -> steps]
        /\ wtrade' \in [Workers -> Trades \cup {NoTrade}]
        /\ wclosed' \in [Workers -> SUBSET Kline]
        /\ \A v \in Workers : wpc'[v] = "idle" <=> wtrade'[v] = NoTrade
    BY <1>0, <2>4 DEF TypeOK
  <2>6. lost' \subseteq Trades /\ UNCHANGED <<begun, ahead, anew>>
    <3>1. UNION {content[k] : k \in wclosed[w]} \subseteq Trades
      BY HistoryType DEF TypeOK
    <3> QED BY <1>6, <3>1 DEF BufferCompleted, TypeOK
  <2> QED BY <1>6, <2>3, <2>5, <2>6 DEF BufferCompleted, TypeOK, checkpoint, closing, life, history
<1> QED BY <1>1, <1>3, <1>4, <1>5, <1>6 DEF WorkerStep

(* Checkpoints keep the types. *)
LEMMA CheckpointType ==
    ASSUME TypeOK, CheckpointStep
    PROVE  TypeOK'
<1>1. CASE DrainCompleted
  <2>1. batch' \subseteq Seq(SUBSET Kline)
    BY <1>1 DEF DrainCompleted, TypeOK
  <2>2. completed' \in [Symbols -> Seq(SUBSET Kline)]
    BY <1>1 DEF DrainCompleted
  <2>3. tovisit' \subseteq Symbols /\ ckpc' = "collect"
    BY <1>1 DEF DrainCompleted
  <2> QED BY <1>1, <2>1, <2>2, <2>3 DEF DrainCompleted, TypeOK, workers, closing, life, history
<1>2. ASSUME NEW s \in Symbols, CollectOpen(s) PROVE TypeOK'
  <2>1. <<Open(s)>> \in Seq(SUBSET Kline)
    BY OpenKlines
  <2>2. batch' \subseteq Seq(SUBSET Kline)
    BY <1>2, <2>1 DEF CollectOpen, TypeOK
  <2>3. tovisit' \subseteq Symbols /\ ckpc' \in {"save", "collect"}
    BY <1>2 DEF CollectOpen, TypeOK
  <2> QED BY <1>2, <2>2, <2>3 DEF CollectOpen, TypeOK, workers, buckets, closing, life, history
<1>3. ASSUME NEW e \in batch, SaveEntry(e) PROVE TypeOK'
  <2>1. rows' \in [Windows -> Row]
    BY <1>3, SavedType
  <2>2. batch' \subseteq batch
    BY <1>3 DEF SaveEntry
  <2> QED BY <1>3, <2>1, <2>2 DEF SaveEntry, TypeOK, workers, buckets, closing, life, history
<1>4. ASSUME NEW e \in batch, FailEntry(e) PROVE TypeOK'
  <2>1. batch' \subseteq batch
    BY <1>4 DEF FailEntry
  <2>2. lost' \subseteq Trades
    <3>1. KlinesOf(e) \in SUBSET Kline
      BY EntryKlines DEF TypeOK
    <3>2. Discarded(KlinesOf(e)) \subseteq Trades
      BY <3>1, HistoryType
    <3> QED BY <1>4, <3>2 DEF FailEntry, TypeOK
  <2> QED BY <1>4, <2>1, <2>2 DEF FailEntry, TypeOK, workers, buckets, closing, life, history
<1>5. CASE EndCheckpoint
  BY <1>5 DEF EndCheckpoint, TypeOK, workers, buckets, closing, life, history
<1>6. CASE CheckpointExit
  BY <1>6 DEF CheckpointExit, TypeOK, workers, buckets, closing, life, history
<1> QED BY <1>1, <1>2, <1>3, <1>4, <1>5, <1>6 DEF CheckpointStep

(* Close keeps the types. *)
LEMMA CloseType ==
    ASSUME TypeOK, CloseStep
    PROVE  TypeOK'
<1>1. CASE StartClose
  BY <1>1 DEF StartClose, TypeOK, workers, buckets, checkpoint, life, history
<1>2. ASSUME NEW failed \in SUBSET Symbols, FlushCompleted(failed) PROVE TypeOK'
  <2>1. rows' \in [Windows -> Row]
    BY <1>2, FlushedCompleted DEF TypeOK
  <2>2. completed' \in [Symbols -> Seq(SUBSET Kline)]
    BY <1>2 DEF FlushCompleted
  <2>3. lost' \subseteq Trades
    <3> DEFINE ks == UNION {KlinesOf(completed[s]) : s \in failed}
    <3>1. \A s \in Symbols : KlinesOf(completed[s]) \subseteq Kline
      BY EntryKlines DEF TypeOK
    <3>2. ks \in SUBSET Kline
      BY <3>1
    <3>3. lost' = lost \cup UNION {content[k] : k \in ks}
      BY <1>2 DEF FlushCompleted
    <3> HIDE DEF ks
    <3> QED BY <3>2, <3>3, HistoryType DEF TypeOK
  <2> QED BY <1>2, <2>1, <2>2, <2>3 DEF FlushCompleted, TypeOK, workers, checkpoint, life, history
<1>3. ASSUME NEW s \in Symbols, NEW failed \in SUBSET Intervals, FlushOpen(s, failed)
      PROVE  TypeOK'
  <2>1. rows' \in [Windows -> Row]
    BY <1>3, FlushedOpen DEF TypeOK
  <2>2. toflush' \subseteq Symbols /\ closepc' \in {"done", "open"}
    BY <1>3 DEF FlushOpen, TypeOK
  <2> QED BY <1>3, <2>1, <2>2 DEF FlushOpen, TypeOK, workers, buckets, checkpoint, life, history
<1> QED BY <1>1, <1>2, <1>3 DEF CloseStep

(* Every step keeps the types. *)
LEMMA NextType == TypeOK /\ [Next]_vars => TypeOK'
<1> SUFFICES ASSUME TypeOK, [Next]_vars PROVE TypeOK'
  OBVIOUS
<1>1. CASE Stop
  BY <1>1 DEF Stop, TypeOK, workers, buckets, checkpoint, life, history
<1>2. CASE Restart
  <2>1. /\ wpc' \in [Workers -> {"idle", "lock", "recover", "stuck", "update", "buffer"}]
        /\ wtrade' \in [Workers -> Trades \cup {NoTrade}]
        /\ \A w \in Workers : wpc'[w] = "idle" /\ wtrade'[w] = NoTrade
        /\ wclosed' \in [Workers -> SUBSET Kline]
    BY <1>2 DEF Restart
  <2>2. /\ lock' \in [Symbols -> Workers \cup {Free}]
        /\ data' \in [Symbols -> [Intervals -> Kline \cup {NoKline}]]
        /\ \A s \in Symbols, iv \in Intervals : data'[s][iv] = NoKline
        /\ content' \in [Kline -> SUBSET Trades]
        /\ completed' \in [Symbols -> Seq(SUBSET Kline)]
    BY <1>2 DEF Restart
  <2>3. /\ ckpc' = "idle" /\ tovisit' = {} /\ batch' = {}
        /\ stopping' = FALSE /\ closepc' = "none" /\ toflush' = {} /\ crashes' \in Nat
        /\ UNCHANGED <<leader, changes, rows, begun, anew>>
    BY <1>2 DEF Restart, TypeOK
  <2>4. next' \in Nat /\ ahead' \subseteq begun /\ lost' \subseteq lost \cup begun
    BY <1>2 DEF Restart, TypeOK
  <2> QED BY <2>1, <2>2, <2>3, <2>4 DEF TypeOK
<1>3. CASE ChangeLeader
  BY <1>3 DEF ChangeLeader, TypeOK, workers, buckets, checkpoint, closing, history
<1>4. CASE UNCHANGED vars
  BY <1>4 DEF vars, TypeOK, workers, buckets, checkpoint, closing, life, history
<1> QED BY <1>1, <1>2, <1>3, <1>4, WorkerType, CheckpointType, CloseType DEF Next

(* Workers, buckets, checkpoint, Close and the tables have their types in every
   reachable state, for any number of workers: a bucket of a symbol and an
   interval never holds a kline of another one. *)
THEOREM TypeCorrect == Spec => []TypeOK
<1> QED BY InitType, NextType, PTL DEF Spec

-----------------------------------------------------------------------------
(* Rows count trades of their own window *)

(* A kline counts trades of its window that have begun, and so does a row, into
   which only klines of its window are written. *)
ContentSound == \A k \in Kline : content[k] \subseteq begun \cap InWindow(WindowOf(k))

SoundInv ==
    /\ TypeOK
    /\ \A w \in Workers : wpc[w] = "update" => wtrade[w] \in begun
    /\ ContentSound
    /\ RowsSound

(* The worker that adds a trade has begun it. *)
LEMMA AddingSound ==
    ASSUME SoundInv, NEW k \in Kline
    PROVE  content[k] \cup Adding(k) \subseteq begun \cap InWindow(WindowOf(k))
<1>1. TypeOK /\ content[k] \subseteq begun \cap InWindow(WindowOf(k))
  BY DEF SoundInv, ContentSound
<1>2. Adding(k) \subseteq begun \cap InWindow(WindowOf(k))
  BY <1>1, AddingProperties DEF SoundInv
<1> QED BY <1>1, <1>2

(* Steps of a worker keep the invariant. *)
LEMMA WorkerSound ==
    ASSUME SoundInv, NEW w \in Workers, WorkerStep(w)
    PROVE  SoundInv'
<1>0. TypeOK /\ TypeOK' /\ ContentSound /\ RowsSound
  <2>1. [Next]_vars
    BY DEF Next
  <2> QED BY <2>1, NextType DEF SoundInv
<1>1. ASSUME begun \subseteq begun', UNCHANGED rows PROVE RowsSound'
  BY <1>0, <1>1 DEF RowsSound
<1>2. ASSUME begun \subseteq begun', UNCHANGED content PROVE ContentSound'
  BY <1>0, <1>2 DEF ContentSound
<1>3. \A v \in Workers : wpc[v] = "update" => wtrade[v] \in begun
  BY DEF SoundInv
<1>4. wpc \in [Workers -> {"idle", "lock", "recover", "stuck", "update", "buffer"}]
  BY <1>0 DEF TypeOK
<1>5. CASE TakeTrade(w)
  <2>1. /\ wpc' = [wpc EXCEPT ![w] = "lock"] /\ wtrade' = [wtrade EXCEPT ![w] = next]
        /\ UNCHANGED <<begun, rows, content>>
    BY <1>5 DEF TakeTrade, buckets, history
  <2>2. \A v \in Workers : wpc'[v] = "update" => wtrade'[v] \in begun'
    BY <1>0, <1>3, <2>1 DEF TypeOK
  <2> QED BY <1>0, <1>1, <1>2, <2>1, <2>2 DEF SoundInv
<1>6. ASSUME \E to \in {"recover", "stuck", "update"} :
                /\ wpc' = [wpc EXCEPT ![w] = to]
                /\ begun' = IF to = "update" THEN begun \cup {wtrade[w]} ELSE begun,
             UNCHANGED <<wtrade, rows, content>>
      PROVE  SoundInv'
  <2>1. \A v \in Workers : wpc'[v] = "update" => wtrade'[v] \in begun'
    BY <1>3, <1>4, <1>6
  <2>2. begun \subseteq begun'
    BY <1>6
  <2> QED BY <1>0, <1>1, <1>2, <1>6, <2>1, <2>2 DEF SoundInv
<1>7. CASE LockSymbol(w)
  <2>1. \E to \in {"recover", "stuck", "update"} :
           /\ wpc' = [wpc EXCEPT ![w] = to]
           /\ begun' = IF to = "update" THEN begun \cup {wtrade[w]} ELSE begun
    BY <1>7 DEF LockSymbol, history
  <2> QED BY <1>6, <1>7, <2>1 DEF LockSymbol
<1>8. ASSUME NEW failed \in SUBSET Intervals, Recover(w, failed) PROVE SoundInv'
  <2>1. \E to \in {"recover", "stuck", "update"} :
           /\ wpc' = [wpc EXCEPT ![w] = to]
           /\ begun' = IF to = "update" THEN begun \cup {wtrade[w]} ELSE begun
    BY <1>8 DEF Recover, history
  <2> QED BY <1>6, <1>8, <2>1 DEF Recover, buckets
<1>9. CASE UpdateBuckets(w)
  <2> DEFINE t == wtrade[w]
  <2>1. /\ wpc[w] = "update"
        /\ wpc' = [wpc EXCEPT ![w] = "buffer"]
        /\ content' = [k \in Kline |->
              IF k = Current(t, k[1]) THEN content[k] \cup {t} ELSE content[k]]
        /\ UNCHANGED <<wtrade, begun, rows>>
    BY <1>9 DEF UpdateBuckets
  <2>2. \A v \in Workers : wpc'[v] = "update" => wtrade'[v] \in begun'
    BY <1>3, <1>4, <2>1
  <2>3. ASSUME NEW k \in Kline PROVE content'[k] \subseteq begun \cap InWindow(WindowOf(k))
    <3>1. k = Current(t, k[1]) => t \in Adding(k)
      BY <2>1 DEF Adding
    <3>2. content'[k] \subseteq content[k] \cup Adding(k)
      BY <2>1, <3>1
    <3> QED BY <3>2, AddingSound
  <2>4. ContentSound'
    BY <2>1, <2>3 DEF ContentSound
  <2> QED BY <1>0, <1>1, <2>1, <2>2, <2>4 DEF SoundInv
<1>10. CASE BufferCompleted(w)
  <2>1. /\ wpc' = [wpc EXCEPT ![w] = "idle"] /\ wtrade' = [wtrade EXCEPT ![w] = NoTrade]
        /\ UNCHANGED <<begun, rows, content>>
    BY <1>10 DEF BufferCompleted
  <2>2. \A v \in Workers : wpc'[v] = "update" => wtrade'[v] \in begun'
    BY <1>0, <1>3, <2>1 DEF TypeOK
  <2> QED BY <1>0, <1>1, <1>2, <2>1, <2>2 DEF SoundInv
<1> QED BY <1>5, <1>7, <1>8, <1>9, <1>10 DEF WorkerStep

(* Every step keeps the invariant. *)
LEMMA NextSound == SoundInv /\ [Next]_vars => SoundInv'
<1> SUFFICES ASSUME SoundInv, [Next]_vars PROVE SoundInv'
  OBVIOUS
<1>0. TypeOK /\ TypeOK' /\ ContentSound /\ RowsSound
  BY NextType DEF SoundInv
<1>1. ASSUME UNCHANGED <<wpc, wtrade, begun, content>>, RowsSound' PROVE SoundInv'
  BY <1>0, <1>1 DEF SoundInv, ContentSound
<1>2. ASSUME UNCHANGED <<begun, rows>> PROVE RowsSound'
  BY <1>0, <1>2 DEF RowsSound
<1>3. ASSUME UNCHANGED begun,
             \A win \in Windows :
                \/ rows'[win] = rows[win]
                \/ \E k \in Kline : /\ WindowOf(k) = win
                                   /\ rows'[win].px \subseteq content[k] \cup Adding(k)
                                   /\ rows'[win].vol \subseteq content[k] \cup Adding(k)
      PROVE  RowsSound'
  <2> SUFFICES ASSUME NEW win \in Windows
               PROVE  rows'[win].px \cup rows'[win].vol \subseteq begun' \cap InWindow(win)
    BY DEF RowsSound
  <2>1. CASE rows'[win] = rows[win]
    BY <1>0, <1>3, <2>1 DEF RowsSound
  <2>2. ASSUME NEW k \in Kline, WindowOf(k) = win,
               rows'[win].px \subseteq content[k] \cup Adding(k),
               rows'[win].vol \subseteq content[k] \cup Adding(k)
        PROVE  rows'[win].px \cup rows'[win].vol \subseteq begun' \cap InWindow(win)
    <3>1. content[k] \cup Adding(k) \subseteq begun \cap InWindow(win)
      BY <2>2, AddingSound
    <3> QED BY <1>3, <2>2, <3>1
  <2> QED BY <1>3, <2>1, <2>2
<1>4. ASSUME NEW e \in batch, SaveEntry(e) PROVE SoundInv'
  <2>1. RowsSound'
    BY <1>0, <1>3, <1>4, SavedRows DEF SaveEntry, history
  <2> QED BY <1>1, <1>4, <2>1 DEF SaveEntry, workers, buckets, history
<1>5. ASSUME NEW failed \in SUBSET Symbols, FlushCompleted(failed) PROVE SoundInv'
  <2>1. RowsSound'
    <3>1. UNCHANGED begun
      BY <1>5 DEF FlushCompleted
    <3>2. ASSUME NEW win \in Windows
          PROVE  \/ rows'[win] = rows[win]
                 \/ \E k \in Kline : /\ WindowOf(k) = win
                                    /\ rows'[win].px \subseteq content[k] \cup Adding(k)
                                    /\ rows'[win].vol \subseteq content[k] \cup Adding(k)
      <4>1. \/ rows'[win] = rows[win]
            \/ \E k \in Kline : /\ WindowOf(k) = win
                               /\ rows'[win] = [px |-> content[k], vol |-> content[k]]
        BY <1>0, <1>5, FlushedCompleted
      <4>2. ASSUME NEW k \in Kline, rows'[win] = [px |-> content[k], vol |-> content[k]]
            PROVE  /\ rows'[win].px \subseteq content[k] \cup Adding(k)
                   /\ rows'[win].vol \subseteq content[k] \cup Adding(k)
        <5>1. rows'[win].px = content[k] /\ rows'[win].vol = content[k]
          BY <4>2
        <5> QED BY <5>1
      <4> QED BY <4>1, <4>2
    <3> QED BY <1>3, <3>1, <3>2
  <2> QED BY <1>1, <1>5, <2>1 DEF FlushCompleted, workers
<1>6. ASSUME NEW s \in Symbols, NEW failed \in SUBSET Intervals, FlushOpen(s, failed)
      PROVE  SoundInv'
  <2>1. RowsSound'
    <3>1. UNCHANGED begun
      BY <1>6 DEF FlushOpen, history
    <3>2. ASSUME NEW win \in Windows
          PROVE  \/ rows'[win] = rows[win]
                 \/ \E k \in Kline : /\ WindowOf(k) = win
                                    /\ rows'[win].px \subseteq content[k] \cup Adding(k)
                                    /\ rows'[win].vol \subseteq content[k] \cup Adding(k)
      <4>1. \/ rows'[win] = rows[win]
            \/ \E k \in Kline : /\ WindowOf(k) = win
                               /\ rows'[win] = [px |-> content[k], vol |-> content[k]]
        BY <1>0, <1>6, FlushedOpen
      <4>2. ASSUME NEW k \in Kline, rows'[win] = [px |-> content[k], vol |-> content[k]]
            PROVE  /\ rows'[win].px \subseteq content[k] \cup Adding(k)
                   /\ rows'[win].vol \subseteq content[k] \cup Adding(k)
        <5>1. rows'[win].px = content[k] /\ rows'[win].vol = content[k]
          BY <4>2
        <5> QED BY <5>1
      <4> QED BY <4>1, <4>2
    <3> QED BY <1>3, <3>1, <3>2
  <2> QED BY <1>1, <1>6, <2>1 DEF FlushOpen, workers, buckets, history
<1>7. CASE Restart
  <2>1. /\ \A w \in Workers : wpc'[w] = "idle"
        /\ \A k \in Kline : content'[k] = {}
        /\ UNCHANGED <<begun, rows>>
    BY <1>7 DEF Restart
  <2>2. ContentSound' /\ RowsSound'
    BY <1>2, <2>1 DEF ContentSound
  <2> QED BY <1>0, <2>1, <2>2 DEF SoundInv
<1>8. ASSUME UNCHANGED <<wpc, wtrade, begun, content, rows>> PROVE SoundInv'
  BY <1>1, <1>2, <1>8
<1>9. CASE DrainCompleted \/ EndCheckpoint \/ CheckpointExit \/ StartClose \/ Stop \/ ChangeLeader
  BY <1>8, <1>9 DEF DrainCompleted, EndCheckpoint, CheckpointExit, StartClose, Stop, ChangeLeader,
                    workers, buckets, history
<1>10. ASSUME NEW s \in Symbols, CollectOpen(s) PROVE SoundInv'
  BY <1>8, <1>10 DEF CollectOpen, workers, buckets, history
<1>11. ASSUME NEW e \in batch, FailEntry(e) PROVE SoundInv'
  BY <1>8, <1>11 DEF FailEntry, workers, buckets
<1>12. CASE UNCHANGED vars
  BY <1>8, <1>12 DEF vars, workers, buckets, history
<1> QED BY <1>4, <1>5, <1>6, <1>7, <1>9, <1>10, <1>11, <1>12, WorkerSound
        DEF Next, CheckpointStep, CloseStep

(* The invariant holds initially. *)
LEMMA InitSound == Init => SoundInv
<1> SUFFICES ASSUME Init PROVE SoundInv
  OBVIOUS
<1>1. \A win \in Windows : rows[win].px = {} /\ rows[win].vol = {}
  BY DEF Init, NoRow
<1>2. ContentSound /\ RowsSound
  BY <1>1 DEF Init, ContentSound, RowsSound
<1>3. \A w \in Workers : wpc[w] = "idle"
  BY DEF Init
<1> QED BY <1>2, <1>3, InitType DEF SoundInv

(* A row never counts a trade of another window, symbol or interval, or one that
   was not given to the aggregator: for any number of workers, though saves read
   klines that are being updated. *)
THEOREM RowsAreSound == Spec => []RowsSound
<1>1. SoundInv => RowsSound
  BY DEF SoundInv
<1> QED BY <1>1, InitSound, NextSound, PTL DEF Spec

-----------------------------------------------------------------------------
-----------------------------------------------------------------------------
(* The klines in memory *)

(* A kline of the heap that counts something; the open kline of its bucket. *)
Live(k) == content[k] # {}
IsOpen(k) == data[TradeSym[k[2]]][k[1]] = k

(* A worker that recovers or updates holds the lock of its symbol. *)
LockInv ==
    \A w \in Workers :
        wpc[w] \in {"recover", "stuck", "update"} => lock[TradeSym[wtrade[w]]] = w

(* The buckets of a symbol are opened together and count something. *)
OpenInv ==
    /\ \A s \in Symbols : \A iv, jv \in Intervals :
          data[s][iv] = NoKline => data[s][jv] = NoKline
    /\ \A s \in Symbols, iv \in Intervals :
          data[s][iv] # NoKline => Live(data[s][iv])

(* A live kline counts the trade it was made for, and its symbol has buckets; no
   two count trades of one window that was not begun anew. *)
LiveInv ==
    /\ \A k \in Kline : Live(k) =>
          k[2] \in content[k] /\ data[TradeSym[k[2]]][k[1]] # NoKline
    /\ \A k, l \in Kline :
          /\ Live(k) /\ Live(l) /\ WindowOf(k) = WindowOf(l)
          /\ WindowOf(k) \notin anew
          => k = l

(* What is completed or to be saved counts something.  What is completed is not
   open any more, nor is what is to be saved of a symbol that is still to be
   visited, and an open kline is in one entry of the batch at most: unless the
   window was begun anew. *)
HandInv ==
    /\ \A w \in Workers : \A k \in wclosed[w] :
          /\ wpc[w] = "buffer" /\ Live(k)
          /\ TradeSym[k[2]] = TradeSym[wtrade[w]]
          /\ IsOpen(k) => WindowOf(k) \in anew
    /\ \A s \in Symbols : \A k \in KlinesOf(completed[s]) :
          /\ Live(k) /\ TradeSym[k[2]] = s
          /\ IsOpen(k) => WindowOf(k) \in anew
    /\ \A e \in batch : \A k \in KlinesOf(e) :
          /\ Live(k)
          /\ IsOpen(k) /\ TradeSym[k[2]] \in tovisit => WindowOf(k) \in anew
    /\ \A e, f \in batch : \A k \in KlinesOf(e) \cap KlinesOf(f) :
          IsOpen(k) => e = f \/ WindowOf(k) \in anew

HeapShape == SoundInv /\ LockInv /\ OpenInv /\ LiveInv /\ HandInv

(* A kline and its window. *)
LEMMA SameKlineWindow ==
    ASSUME NEW k \in Kline, NEW l \in Kline
    PROVE  /\ WindowOf(k) = WindowOf(l) =>
                 k[1] = l[1] /\ TradeSym[k[2]] = TradeSym[l[2]]
           /\ k[1] \in Intervals /\ k[2] \in Trades /\ TradeSym[k[2]] \in Symbols
           /\ WindowOf(k) = Window(k[2], k[1])
           /\ WindowOf(k) \in Windows
           /\ WindowOf(k)[1] = TradeSym[k[2]] /\ WindowOf(k)[2] = k[1]
           /\ k = <<k[1], k[2]>>
<1>1. k[1] \in Intervals /\ k[2] \in Trades /\ TradeSym[k[2]] \in Symbols
  BY KlineParts, SymbolOfTrade
<1>2. k = <<k[1], k[2]>>
  BY DEF Kline
<1> QED BY <1>1, <1>2 DEF WindowOf, Window, Windows

(* The open klines of a symbol are the ones that are open in its buckets. *)
LEMMA OpenIs ==
    ASSUME TypeOK, NEW s \in Symbols, NEW k
    PROVE  k \in Open(s) <=> k \in Kline /\ TradeSym[k[2]] = s /\ IsOpen(k)
<1>1. ASSUME k \in Open(s) PROVE k \in Kline /\ TradeSym[k[2]] = s /\ IsOpen(k)
  <2>1. PICK iv \in Intervals : k = data[s][iv] /\ k # NoKline
    BY <1>1 DEF Open
  <2> QED BY <2>1 DEF TypeOK, IsOpen
<1>2. ASSUME k \in Kline, TradeSym[k[2]] = s, IsOpen(k) PROVE k \in Open(s)
  BY <1>2, KlineParts, KlineAssumption DEF IsOpen, Open, Kline
<1> QED BY <1>1, <1>2

(* The kline a trade is added to is the open one of its window, or a new one. *)
LEMMA CurrentCases ==
    ASSUME TypeOK, NEW t \in Trades, NEW iv \in Intervals
    PROVE  \/ /\ Current(t, iv) = data[TradeSym[t]][iv]
              /\ data[TradeSym[t]][iv] # NoKline
              /\ WindowOf(data[TradeSym[t]][iv]) = Window(t, iv)
           \/ /\ Current(t, iv) = <<iv, t>>
              /\ data[TradeSym[t]][iv] = NoKline
                   \/ WindowOf(data[TradeSym[t]][iv]) # Window(t, iv)
  BY DEF Current

(* The klines of the entries that are made. *)
LEMMA KlinesMade ==
    /\ KlinesOf(<<>>) = {}
    /\ \A S : KlinesOf(<<S>>) = S
    /\ \A e \in Seq(SUBSET Kline), S \in SUBSET Kline :
          KlinesOf(Append(e, S)) = KlinesOf(e) \cup S
<1>1. KlinesOf(<<>>) = {}
  BY DEF KlinesOf
<1>2. ASSUME NEW S PROVE KlinesOf(<<S>>) = S
  <2>1. Len(<<S>>) = 1 /\ <<S>>[1] = S
    OBVIOUS
  <2> QED BY <2>1 DEF KlinesOf
<1>3. ASSUME NEW e \in Seq(SUBSET Kline), NEW S \in SUBSET Kline
      PROVE  KlinesOf(Append(e, S)) = KlinesOf(e) \cup S
  <2>1. /\ Len(Append(e, S)) = Len(e) + 1 /\ Append(e, S)[Len(e) + 1] = S
        /\ \A i \in 1..Len(e) : Append(e, S)[i] = e[i]
        /\ Len(e) \in Nat
    OBVIOUS
  <2>2. \A i : i \in 1..(Len(e) + 1) <=> i \in 1..Len(e) \/ i = Len(e) + 1
    BY <2>1
  <2> QED BY <2>1, <2>2 DEF KlinesOf
<1> QED BY <1>1, <1>2, <1>3

LEMMA BufferedKlines ==
    ASSUME TypeOK, NEW s \in Symbols, NEW ks \in SUBSET Kline
    PROVE  KlinesOf(Buffered(s, ks)) = KlinesOf(completed[s]) \cup ks
<1>1. completed[s] \in Seq(SUBSET Kline)
  BY DEF TypeOK
<1> QED BY <1>1, KlinesMade DEF Buffered

(* What is in hand is klines. *)
LEMMA HandKlines ==
    ASSUME TypeOK
    PROVE  /\ \A w \in Workers : wclosed[w] \subseteq Kline
           /\ \A s \in Symbols : KlinesOf(completed[s]) \subseteq Kline
           /\ \A e \in batch : KlinesOf(e) \subseteq Kline
  BY EntryKlines DEF TypeOK

(* At most one worker updates the buckets of a symbol. *)
LEMMA OneUpdates ==
    ASSUME HeapShape, NEW v \in Workers, NEW w \in Workers,
           wpc[v] = "update", wpc[w] = "update",
           TradeSym[wtrade[v]] = TradeSym[wtrade[w]]
    PROVE  v = w
  BY DEF HeapShape, LockInv

(* A kline that is not open any more is at most counting the trade it was made
   for, once more. *)
LEMMA AddingClosed ==
    ASSUME HeapShape, NEW k \in Kline, Live(k), ~IsOpen(k)
    PROVE  Adding(k) \subseteq content[k]
<1> SUFFICES ASSUME NEW t \in Adding(k) PROVE t \in content[k]
  OBVIOUS
<1>1. TypeOK
  BY DEF HeapShape, SoundInv
<1>2. PICK w \in Workers : wpc[w] = "update" /\ wtrade[w] = t /\ Current(t, k[1]) = k
  BY DEF Adding
<1>3. t \in Trades /\ k[1] \in Intervals
  BY <1>1, AddingProperties, KlineParts
<1>4. TradeSym[k[2]] = TradeSym[t]
  BY <1>1, <1>2, <1>3, CurrentProperties
<1>5. k = <<k[1], t>>
  BY <1>1, <1>2, <1>3, <1>4, CurrentCases DEF IsOpen
<1>6. k[2] = t
  BY <1>5
<1> QED BY <1>6 DEF HeapShape, LiveInv

(* No kline of a symbol whose lock is free is being updated. *)
LEMMA AddingNone ==
    ASSUME HeapShape, NEW k \in Kline, lock[TradeSym[k[2]]] = Free
    PROVE  Adding(k) = {}
<1> SUFFICES ASSUME NEW t \in Adding(k) PROVE FALSE
  OBVIOUS
<1>1. TypeOK
  BY DEF HeapShape, SoundInv
<1>2. PICK w \in Workers : wpc[w] = "update" /\ wtrade[w] = t /\ Current(t, k[1]) = k
  BY DEF Adding
<1>3. t \in Trades /\ k[1] \in Intervals
  BY <1>1, AddingProperties, KlineParts
<1>4. TradeSym[k[2]] = TradeSym[t]
  BY <1>1, <1>2, <1>3, CurrentProperties
<1> QED BY <1>2, <1>4, WorkersAssumption DEF HeapShape, LockInv

(* Steps that leave the heap alone, and take nothing in hand. *)
LEMMA HandKept ==
    ASSUME HandInv, UNCHANGED <<wclosed, data, content>>, anew \subseteq anew',
           \A w \in Workers :
              wpc[w] = "buffer" => wpc'[w] = "buffer" /\ wtrade'[w] = wtrade[w],
           \A s \in Symbols : completed'[s] \in {completed[s], <<>>},
           batch' \subseteq batch, tovisit' \subseteq tovisit
    PROVE  HandInv'
<1>1. \A s \in Symbols : \A k \in KlinesOf(completed'[s]) : k \in KlinesOf(completed[s])
  BY KlinesMade
<1>2. \A k : /\ Live(k)' <=> Live(k)
             /\ IsOpen(k)' <=> IsOpen(k)
             /\ WindowOf(k)' = WindowOf(k)
  BY DEF Live, IsOpen, WindowOf, Window
<1>3. \A w \in Workers : \A k \in wclosed'[w] :
          /\ wpc'[w] = "buffer" /\ Live(k)'
          /\ TradeSym[k[2]] = TradeSym[wtrade'[w]]
          /\ IsOpen(k)' => WindowOf(k) \in anew'
  BY <1>2 DEF HandInv
<1>4. \A s \in Symbols : \A k \in KlinesOf(completed'[s]) :
          /\ Live(k)' /\ TradeSym[k[2]] = s
          /\ IsOpen(k)' => WindowOf(k) \in anew'
  BY <1>1, <1>2 DEF HandInv
<1>5. \A e \in batch' : \A k \in KlinesOf(e) :
          /\ Live(k)'
          /\ IsOpen(k)' /\ TradeSym[k[2]] \in tovisit' => WindowOf(k) \in anew'
  BY <1>2 DEF HandInv
<1>6. \A e, f \in batch' : \A k \in KlinesOf(e) \cap KlinesOf(f) :
          IsOpen(k)' => e = f \/ WindowOf(k) \in anew'
  BY <1>2 DEF HandInv
<1>7. \A s : KlinesOf(completed[s])' = KlinesOf(completed'[s])
  BY DEF KlinesOf
<1> QED BY <1>2, <1>3, <1>4, <1>5, <1>6, <1>7 DEF HandInv, KlinesOf

LEMMA ShapeKept ==
    ASSUME HeapShape, SoundInv', LockInv', HandInv',
           UNCHANGED <<data, content>>, anew \subseteq anew'
    PROVE  HeapShape'
<1>1. OpenInv'
  BY DEF HeapShape, OpenInv, Live
<1>2. LiveInv'
  BY DEF HeapShape, LiveInv, Live, WindowOf, Window
<1> QED BY <1>1, <1>2 DEF HeapShape

(* What an update does. *)
LEMMA UpdateOutcome ==
    ASSUME TypeOK, NEW w \in Workers, UpdateBuckets(w)
    PROVE  /\ wpc[w] = "update" /\ wpc'[w] = "buffer"
           /\ \A v \in Workers : v # w => wpc'[v] = wpc[v] /\ wclosed'[v] = wclosed[v]
           /\ wtrade[w] \in Trades /\ TradeSym[wtrade[w]] \in Symbols
           /\ wclosed'[w] = Closed(wtrade[w])
           /\ \A iv \in Intervals : data'[TradeSym[wtrade[w]]][iv] = Current(wtrade[w], iv)
           /\ \A s \in Symbols : s # TradeSym[wtrade[w]] => data'[s] = data[s]
           /\ \A k \in Kline : content'[k] =
                 IF k = Current(wtrade[w], k[1]) THEN content[k] \cup {wtrade[w]}
                                                ELSE content[k]
           /\ lock' = [lock EXCEPT ![TradeSym[wtrade[w]]] = Free]
           /\ anew' = anew \cup Reopened(wtrade[w]) /\ ahead' = ahead \ {wtrade[w]}
           /\ UNCHANGED <<next, wtrade, completed, leader, ckpc, tovisit, batch,
                          rows, begun, lost>>
<1>1. wpc[w] = "update" /\ wtrade[w] \in Trades
  BY TradesAssumption DEF UpdateBuckets, TypeOK
<1>2. TradeSym[wtrade[w]] \in Symbols
  BY <1>1, SymbolOfTrade
<1>3. /\ wpc'[w] = "buffer" /\ wclosed'[w] = Closed(wtrade[w])
      /\ \A v \in Workers : v # w => wpc'[v] = wpc[v] /\ wclosed'[v] = wclosed[v]
  BY DEF UpdateBuckets, TypeOK
<1>4. /\ \A iv \in Intervals : data'[TradeSym[wtrade[w]]][iv] = Current(wtrade[w], iv)
      /\ \A s \in Symbols : s # TradeSym[wtrade[w]] => data'[s] = data[s]
  <2>1. data' = [data EXCEPT ![TradeSym[wtrade[w]]] =
                    [iv \in Intervals |-> Current(wtrade[w], iv)]]
    BY DEF UpdateBuckets
  <2>2. data \in [Symbols -> [Intervals -> Kline \cup {NoKline}]]
    BY DEF TypeOK
  <2> QED BY <1>2, <2>1, <2>2
<1> QED BY <1>1, <1>2, <1>3, <1>4 DEF UpdateBuckets, checkpoint

(* After an update a kline of the symbol is open when the trade was added to it;
   those of other symbols stay as they are. *)
LEMMA OpenAfter ==
    ASSUME TypeOK, NEW w \in Workers, UpdateBuckets(w), NEW k \in Kline
    PROVE  /\ TradeSym[k[2]] = TradeSym[wtrade[w]] =>
                 (IsOpen(k)' <=> Current(wtrade[w], k[1]) = k)
           /\ TradeSym[k[2]] # TradeSym[wtrade[w]] =>
                 /\ IsOpen(k)' <=> IsOpen(k)
                 /\ content'[k] = content[k]
           /\ content[k] \subseteq content'[k]
           /\ Live(k) => Live(k)'
<1>1. k[1] \in Intervals /\ k[2] \in Trades /\ TradeSym[k[2]] \in Symbols
  BY SameKlineWindow
<1>2. wtrade[w] \in Trades
  BY UpdateOutcome
<1>3. TradeSym[Current(wtrade[w], k[1])[2]] = TradeSym[wtrade[w]]
  BY <1>1, <1>2, CurrentProperties
<1>4. content[k] \subseteq content'[k]
  BY UpdateOutcome
<1>5. TradeSym[k[2]] = TradeSym[wtrade[w]] =>
         (data'[TradeSym[k[2]]][k[1]] = k <=> Current(wtrade[w], k[1]) = k)
  BY <1>1, UpdateOutcome
<1>6. TradeSym[k[2]] # TradeSym[wtrade[w]] =>
         /\ data'[TradeSym[k[2]]][k[1]] = data[TradeSym[k[2]]][k[1]]
         /\ content'[k] = content[k]
  BY <1>1, <1>3, UpdateOutcome
<1>7. IsOpen(k)' <=> data'[TradeSym[k[2]]][k[1]] = k
  BY DEF IsOpen
<1> QED BY <1>4, <1>5, <1>6, <1>7 DEF IsOpen, Live

(* A kline that counts something is opened again only in a window that is
   begun anew. *)
LEMMA OpenedAgain ==
    ASSUME HeapShape, NEW w \in Workers, UpdateBuckets(w),
           NEW k \in Kline, Live(k), ~IsOpen(k), IsOpen(k)'
    PROVE  WindowOf(k) \in anew'
<1> DEFINE t == wtrade[w]
           s == TradeSym[t]
           iv == k[1]
<1>1. TypeOK
  BY DEF HeapShape, SoundInv
<1>2. /\ t \in Trades /\ s \in Symbols /\ iv \in Intervals /\ k[2] \in Trades
      /\ TradeSym[k[2]] \in Symbols
  BY <1>1, UpdateOutcome, SameKlineWindow
<1>3. TradeSym[k[2]] = s /\ Current(t, iv) = k
  BY <1>1, OpenAfter
<1>4. data[s][iv] # NoKline /\ data[s][iv] # k
  BY <1>3 DEF HeapShape, LiveInv, IsOpen
<1>5. WindowOf(data[s][iv]) # Window(t, iv) /\ WindowOf(k) = Window(t, iv)
  BY <1>1, <1>2, <1>3, <1>4, CurrentCases, CurrentProperties
<1>6. Window(t, iv)[1] = s
  BY <1>2, WindowParts
<1>7. Open(s) # {}
  BY <1>2, <1>4 DEF Open
<1>8. ASSUME NEW l \in Open(s), WindowOf(l) = Window(t, iv) PROVE FALSE
  <2>1. l \in Kline /\ TradeSym[l[2]] = s /\ IsOpen(l)
    BY <1>1, <1>2, OpenIs
  <2>2. l[1] = iv
    BY <1>5, <1>8, <2>1, SameKlineWindow
  <2> QED BY <1>5, <1>8, <2>1, <2>2 DEF IsOpen
<1>9. Window(t, iv) \in Reopened(t)
  BY <1>2, <1>5, <1>6, <1>7, <1>8 DEF Reopened, Live
<1> QED BY <1>1, <1>5, <1>9, UpdateOutcome

(* A new kline is the first of its window, unless that is begun anew: no other
   counts trades of it, and where the symbol has buckets, its row only such as
   are to be counted again. *)
LEMMA MadeNew ==
    ASSUME HeapShape, NEW w \in Workers, UpdateBuckets(w), NEW iv \in Intervals,
           ~Live(Current(wtrade[w], iv)), Window(wtrade[w], iv) \notin anew'
    PROVE  /\ \A l \in Kline : Live(l) => WindowOf(l) # Window(wtrade[w], iv)
           /\ \/ \A jv \in Intervals : data[TradeSym[wtrade[w]]][jv] = NoKline
              \/ rows[Window(wtrade[w], iv)].px \cup rows[Window(wtrade[w], iv)].vol
                     \subseteq ahead
<1> DEFINE t == wtrade[w]
           s == TradeSym[t]
           win == Window(t, iv)
<1>1. TypeOK /\ t \in Trades /\ s \in Symbols
  BY UpdateOutcome DEF HeapShape, SoundInv
<1>2. \/ data[s][iv] = NoKline
      \/ data[s][iv] # NoKline /\ WindowOf(data[s][iv]) # win
  BY <1>1, CurrentCases DEF HeapShape, OpenInv
<1>3. CASE data[s][iv] = NoKline
  <2>1. \A jv \in Intervals : data[s][jv] = NoKline
    BY <1>1, <1>3 DEF HeapShape, OpenInv
  <2>2. ASSUME NEW l \in Kline, Live(l), WindowOf(l) = win PROVE FALSE
    <3>1. TradeSym[l[2]] = s /\ l[1] \in Intervals
      <4>1. WindowOf(l)[1] = TradeSym[l[2]] /\ l[1] \in Intervals
        BY SameKlineWindow
      <4>2. win[1] = s
        BY <1>1, WindowParts
      <4> QED BY <2>2, <4>1, <4>2
    <3> QED BY <2>1, <2>2, <3>1 DEF HeapShape, LiveInv
  <2> QED BY <2>1, <2>2
<1>4. CASE data[s][iv] # NoKline /\ WindowOf(data[s][iv]) # win
  <2>1. Open(s) # {} /\ win[1] = s
    BY <1>1, <1>4, WindowParts DEF Open
  <2>2. ASSUME NEW l \in Open(s), WindowOf(l) = win PROVE FALSE
    <3>1. l \in Kline /\ TradeSym[l[2]] = s /\ IsOpen(l)
      BY <1>1, OpenIs
    <3>2. l[1] = iv
      <4>1. WindowOf(l)[2] = l[1]
        BY <3>1, SameKlineWindow
      <4>2. win[2] = iv
        BY <1>1, WindowParts
      <4> QED BY <2>2, <4>1, <4>2
    <3> QED BY <1>4, <2>2, <3>1, <3>2 DEF IsOpen
  <2>3. win \notin Reopened(t)
    BY <1>1, UpdateOutcome
  <2>4. win \in {Window(t, i) : i \in Intervals}
    OBVIOUS
  <2>5. /\ ~\E k \in Kline : WindowOf(k) = win /\ content[k] # {}
        /\ rows[win].px \cup rows[win].vol \subseteq ahead
    BY <2>1, <2>2, <2>3, <2>4 DEF Reopened
  <2> QED BY <2>5 DEF Live
<1> QED BY <1>2, <1>3, <1>4

(* An update keeps the shape. *)
LEMMA ShapeUpdate ==
    ASSUME HeapShape, SoundInv', NEW w \in Workers, UpdateBuckets(w)
    PROVE  HeapShape'
<1> DEFINE t == wtrade[w]
           s == TradeSym[t]
<1>0. /\ TypeOK /\ TypeOK' /\ t \in Trades /\ s \in Symbols
      /\ anew \subseteq anew' /\ UNCHANGED <<wtrade, completed, batch, tovisit>>
  BY UpdateOutcome DEF HeapShape, SoundInv
<1>1. LockInv'
  <2> SUFFICES ASSUME NEW v \in Workers, wpc'[v] \in {"recover", "stuck", "update"}
               PROVE  lock'[TradeSym[wtrade[v]]] = v
    BY <1>0 DEF LockInv
  <2>1. v # w /\ wpc[v] = wpc'[v]
    BY <1>0, UpdateOutcome
  <2>2. lock[TradeSym[wtrade[v]]] = v /\ lock[s] = w
    BY <1>0, <2>1, UpdateOutcome DEF HeapShape, LockInv
  <2>3. wtrade[v] \in Trades
    BY <1>0, <2>1 DEF TypeOK
  <2>4. TradeSym[wtrade[v]] # s /\ TradeSym[wtrade[v]] \in Symbols
    BY <2>1, <2>2, <2>3, SymbolOfTrade
  <2> QED BY <1>0, <2>2, <2>4, UpdateOutcome DEF TypeOK
<1>2. OpenInv'
  <2>1. ASSUME NEW r \in Symbols, NEW iv \in Intervals, NEW jv \in Intervals,
               data'[r][iv] = NoKline
        PROVE  data'[r][jv] = NoKline
    <3>1. CASE r = s
      BY <1>0, <2>1, <3>1, CurrentProperties, UpdateOutcome
    <3>2. CASE r # s
      BY <1>0, <2>1, <3>2, UpdateOutcome DEF HeapShape, OpenInv
    <3> QED BY <3>1, <3>2
  <2>2. ASSUME NEW r \in Symbols, NEW iv \in Intervals, data'[r][iv] # NoKline
        PROVE  content'[data'[r][iv]] # {}
    <3>1. CASE r = s
      <4>1. data'[r][iv] = Current(t, iv)
        BY <1>0, <3>1, UpdateOutcome
      <4>2. Current(t, iv) \in Kline /\ Current(t, iv)[1] = iv
        BY <1>0, CurrentProperties
      <4>3. t \in content'[Current(t, iv)]
        <5>1. \A k \in Kline : k = Current(t, k[1]) => t \in content'[k]
          BY <1>0, UpdateOutcome
        <5> QED BY <4>2, <5>1
      <4> QED BY <4>1, <4>3
    <3>2. CASE r # s
      <4>1. data'[r][iv] = data[r][iv]
        BY <1>0, <3>2, UpdateOutcome
      <4>2. Live(data[r][iv]) /\ data[r][iv] \in Kline
        BY <1>0, <2>2, <4>1 DEF HeapShape, OpenInv, TypeOK
      <4> QED BY <1>0, <4>1, <4>2, OpenAfter DEF Live
    <3> QED BY <3>1, <3>2
  <2> QED BY <2>1, <2>2 DEF OpenInv, Live
<1>3. LiveInv'
  <2>1. ASSUME NEW k \in Kline, Live(k)'
        PROVE  k[2] \in content'[k] /\ data'[TradeSym[k[2]]][k[1]] # NoKline
    <3>0. k[1] \in Intervals /\ TradeSym[k[2]] \in Symbols
      BY SameKlineWindow
    <3>1. CASE Live(k)
      <4>1. k[2] \in content'[k]
        BY <1>0, <3>1, OpenAfter DEF HeapShape, LiveInv
      <4>2. data[TradeSym[k[2]]][k[1]] # NoKline
        BY <3>1 DEF HeapShape, LiveInv
      <4> QED BY <1>0, <3>0, <4>1, <4>2, CurrentProperties, UpdateOutcome
    <3>2. CASE ~Live(k)
      <4>1. k = Current(t, k[1])
        BY <1>0, <2>1, <3>2, UpdateOutcome DEF Live
      <4>2. k # data[s][k[1]] \/ data[s][k[1]] = NoKline
        BY <1>0, <3>0, <3>2 DEF HeapShape, OpenInv
      <4>3. k = <<k[1], t>>
        BY <1>0, <3>0, <4>1, <4>2, CurrentCases
      <4>4. k[2] = t
        BY <4>3
      <4>5. t \in content'[k]
        BY <1>0, <4>1, UpdateOutcome
      <4>6. data'[s][k[1]] = k /\ k # NoKline
        BY <1>0, <3>0, <4>1, UpdateOutcome, CurrentProperties
      <4> QED BY <4>4, <4>5, <4>6
    <3> QED BY <3>1, <3>2
  <2>2. ASSUME NEW k \in Kline, NEW l \in Kline, ~Live(k), Live(k)', Live(l)',
               WindowOf(k) = WindowOf(l), WindowOf(k) \notin anew'
        PROVE  k = l
    <3>1. k = Current(t, k[1])
      BY <1>0, <2>2, UpdateOutcome DEF Live
    <3>2. k[1] \in Intervals /\ k[1] = l[1] /\ WindowOf(k) = Window(t, k[1])
      BY <1>0, <2>2, <3>1, SameKlineWindow, CurrentProperties
    <3>3. ~Live(l)
      BY <2>2, <3>1, <3>2, MadeNew
    <3>4. l = Current(t, l[1])
      BY <1>0, <2>2, <3>3, UpdateOutcome DEF Live
    <3> QED BY <3>1, <3>2, <3>4
  <2>3. ASSUME NEW k \in Kline, NEW l \in Kline, Live(k)', Live(l)',
               WindowOf(k) = WindowOf(l), WindowOf(k) \notin anew'
        PROVE  k = l
    <3>1. CASE ~Live(k)
      BY <2>2, <2>3, <3>1
    <3>2. CASE ~Live(l)
      BY <2>2, <2>3, <3>2
    <3>3. CASE Live(k) /\ Live(l)
      BY <1>0, <2>3, <3>3 DEF HeapShape, LiveInv
    <3> QED BY <3>1, <3>2, <3>3
  <2>4. \A k : WindowOf(k)' = WindowOf(k)
    BY DEF WindowOf, Window
  <2> QED BY <2>1, <2>3, <2>4 DEF LiveInv
<1>4. HandInv'
  <2>0. ASSUME NEW k \in Kline, Live(k)
        PROVE  Live(k)' /\ (IsOpen(k)' /\ WindowOf(k) \notin anew' => IsOpen(k))
    BY <1>0, <2>0, OpenAfter, OpenedAgain
  <2>1. ASSUME NEW v \in Workers, NEW k \in wclosed'[v]
        PROVE  /\ wpc'[v] = "buffer" /\ Live(k)'
               /\ TradeSym[k[2]] = TradeSym[wtrade'[v]]
               /\ IsOpen(k)' => WindowOf(k) \in anew'
    <3>1. CASE v = w
      <4>1. k \in Open(s) /\ WindowOf(k) # Window(t, k[1])
        BY <1>0, <2>1, <3>1, UpdateOutcome DEF Closed
      <4>2. k \in Kline /\ TradeSym[k[2]] = s /\ IsOpen(k) /\ k # NoKline
        BY <1>0, <4>1, OpenIs DEF Open
      <4>3. k[1] \in Intervals /\ TradeSym[k[2]] \in Symbols
        BY <4>2, SameKlineWindow
      <4>4. Live(k)
        BY <4>2, <4>3 DEF HeapShape, OpenInv, IsOpen
      <4>5. Current(t, k[1]) # k
        BY <1>0, <4>1, <4>3, CurrentProperties
      <4>6. ~IsOpen(k)'
        BY <1>0, <4>2, <4>5, OpenAfter
      <4>7. Live(k)'
        BY <2>0, <4>2, <4>4
      <4>8. wpc'[w] = "buffer"
        BY <1>0, UpdateOutcome
      <4> QED BY <1>0, <3>1, <4>2, <4>6, <4>7, <4>8
    <3>2. CASE v # w
      <4>1. k \in wclosed[v] /\ wpc'[v] = wpc[v]
        BY <1>0, <2>1, <3>2, UpdateOutcome
      <4>2. k \in Kline
        BY <1>0, <4>1, HandKlines
      <4> QED BY <1>0, <2>0, <4>1, <4>2 DEF HeapShape, HandInv
    <3> QED BY <3>1, <3>2
  <2>2. ASSUME NEW r \in Symbols, NEW k \in KlinesOf(completed[r])
        PROVE  /\ Live(k)' /\ TradeSym[k[2]] = r
               /\ IsOpen(k)' => WindowOf(k) \in anew'
    <3>1. k \in Kline
      BY <1>0, HandKlines
    <3> QED BY <1>0, <2>0, <3>1 DEF HeapShape, HandInv
  <2>3. ASSUME NEW e \in batch, NEW k \in KlinesOf(e)
        PROVE  /\ Live(k)'
               /\ IsOpen(k)' /\ TradeSym[k[2]] \in tovisit => WindowOf(k) \in anew'
    <3>1. k \in Kline
      BY <1>0, HandKlines
    <3> QED BY <1>0, <2>0, <3>1 DEF HeapShape, HandInv
  <2>4. ASSUME NEW e \in batch, NEW f \in batch, NEW k \in KlinesOf(e) \cap KlinesOf(f),
               IsOpen(k)'
        PROVE  e = f \/ WindowOf(k) \in anew'
    <3>1. k \in Kline /\ Live(k)
      BY <1>0, HandKlines DEF HeapShape, HandInv
    <3> QED BY <1>0, <2>0, <2>4, <3>1 DEF HeapShape, HandInv
  <2>5. \A k : WindowOf(k)' = WindowOf(k)
    BY DEF WindowOf, Window
  <2>6. \A e : KlinesOf(e)' = KlinesOf(e')
    BY DEF KlinesOf
  <2>7. completed' = completed /\ batch' = batch /\ tovisit' = tovisit
    BY <1>0
  <2> QED BY <2>1, <2>2, <2>3, <2>4, <2>5, <2>7 DEF HandInv, KlinesOf
<1> QED BY <1>1, <1>2, <1>3, <1>4 DEF HeapShape

(* Completed klines go to the buffer of their symbol. *)
LEMMA BufferOutcome ==
    ASSUME TypeOK, NEW w \in Workers, BufferCompleted(w)
    PROVE  /\ wtrade[w] \in Trades /\ TradeSym[wtrade[w]] \in Symbols
           /\ wpc[w] = "buffer" /\ wclosed'[w] = {} /\ wpc'[w] = "idle"
           /\ \A v \in Workers : v # w =>
                 /\ wclosed'[v] = wclosed[v] /\ wpc'[v] = wpc[v] /\ wtrade'[v] = wtrade[v]
           /\ leader => /\ lost' = lost
                        /\ KlinesOf(completed'[TradeSym[wtrade[w]]]) =
                              KlinesOf(completed[TradeSym[wtrade[w]]]) \cup wclosed[w]
                        /\ \A s \in Symbols :
                              s # TradeSym[wtrade[w]] => completed'[s] = completed[s]
           /\ ~leader => /\ completed' = completed
                         /\ lost' = lost \cup UNION {content[k] : k \in wclosed[w]}
           /\ UNCHANGED <<lock, data, content, leader, ckpc, tovisit, batch, rows,
                          begun, ahead, anew>>
<1>1. wpc[w] = "buffer" /\ wtrade[w] \in Trades
  BY TradesAssumption DEF BufferCompleted, TypeOK
<1>2. TradeSym[wtrade[w]] \in Symbols
  BY <1>1, SymbolOfTrade
<1>3. KlinesOf(Buffered(TradeSym[wtrade[w]], wclosed[w])) =
         KlinesOf(completed[TradeSym[wtrade[w]]]) \cup wclosed[w]
  BY <1>2, BufferedKlines DEF TypeOK
<1>4. ASSUME leader
      PROVE  /\ KlinesOf(completed'[TradeSym[wtrade[w]]]) =
                   KlinesOf(completed[TradeSym[wtrade[w]]]) \cup wclosed[w]
             /\ \A s \in Symbols : s # TradeSym[wtrade[w]] => completed'[s] = completed[s]
  <2>1. completed' = [completed EXCEPT ![TradeSym[wtrade[w]]] =
                         Buffered(TradeSym[wtrade[w]], wclosed[w])]
    BY <1>4 DEF BufferCompleted
  <2>2. completed'[TradeSym[wtrade[w]]] = Buffered(TradeSym[wtrade[w]], wclosed[w])
    BY <1>2, <2>1 DEF TypeOK
  <2>3. \A s \in Symbols : s # TradeSym[wtrade[w]] => completed'[s] = completed[s]
    BY <1>2, <2>1 DEF TypeOK
  <2> QED BY <1>3, <2>2, <2>3
<1>5. /\ wclosed'[w] = {} /\ wpc'[w] = "idle"
      /\ \A v \in Workers : v # w =>
            /\ wclosed'[v] = wclosed[v] /\ wpc'[v] = wpc[v] /\ wtrade'[v] = wtrade[v]
  BY DEF BufferCompleted, TypeOK
<1>6. /\ leader => lost' = lost
      /\ ~leader => /\ completed' = completed
                    /\ lost' = lost \cup UNION {content[k] : k \in wclosed[w]}
      /\ UNCHANGED <<lock, data, content, leader, ckpc, tovisit, batch, rows,
                     begun, ahead, anew>>
  BY DEF BufferCompleted, checkpoint
<1> QED BY <1>1, <1>2, <1>4, <1>5, <1>6

LEMMA ShapeBuffer ==
    ASSUME HeapShape, SoundInv', NEW w \in Workers, BufferCompleted(w)
    PROVE  HeapShape'
<1> DEFINE s == TradeSym[wtrade[w]]
<1>0. TypeOK /\ s \in Symbols
  BY BufferOutcome DEF HeapShape, SoundInv
<1>1. /\ UNCHANGED <<lock, data, content, tovisit, batch, anew>>
      /\ \A v \in Workers : v # w =>
            /\ wclosed'[v] = wclosed[v] /\ wpc'[v] = wpc[v] /\ wtrade'[v] = wtrade[v]
      /\ wclosed'[w] = {} /\ wpc'[w] = "idle"
  BY <1>0, BufferOutcome
<1>2. LockInv'
  <2>1. \A v \in Workers : wpc'[v] \in {"recover", "stuck", "update"} =>
           lock[TradeSym[wtrade'[v]]] = v
    BY <1>1 DEF HeapShape, LockInv
  <2> QED BY <1>1, <2>1 DEF LockInv
<1>3. \A k : /\ Live(k)' <=> Live(k)
             /\ IsOpen(k)' <=> IsOpen(k)
             /\ WindowOf(k)' = WindowOf(k)
  BY <1>1 DEF Live, IsOpen, WindowOf, Window
<1>4. HandInv'
  <2>1. \A v \in Workers : \A k \in wclosed'[v] :
          /\ wpc'[v] = "buffer" /\ Live(k)
          /\ TradeSym[k[2]] = TradeSym[wtrade'[v]]
          /\ IsOpen(k) => WindowOf(k) \in anew
    BY <1>1 DEF HeapShape, HandInv
  <2>2. ASSUME NEW r \in Symbols, NEW k \in KlinesOf(completed'[r])
        PROVE  /\ Live(k) /\ TradeSym[k[2]] = r
               /\ IsOpen(k) => WindowOf(k) \in anew
    <3>1. k \in KlinesOf(completed[r]) \/ (r = s /\ k \in wclosed[w])
      <4>1. /\ leader => KlinesOf(completed'[s]) = KlinesOf(completed[s]) \cup wclosed[w]
            /\ leader => (r # s => completed'[r] = completed[r])
            /\ ~leader => completed' = completed
        BY <1>0, BufferOutcome
      <4>2. CASE leader /\ r = s
        BY <2>2, <4>1, <4>2
      <4>3. CASE leader /\ r # s
        BY <2>2, <4>1, <4>3
      <4>4. CASE ~leader
        BY <2>2, <4>1, <4>4
      <4> QED BY <4>2, <4>3, <4>4
    <3> QED BY <1>0, <3>1 DEF HeapShape, HandInv
  <2>3. \A r : KlinesOf(completed[r])' = KlinesOf(completed'[r])
    BY DEF KlinesOf
  <2>4. \A e, f \in batch : \A k \in KlinesOf(e) \cap KlinesOf(f) :
          IsOpen(k) => e = f \/ WindowOf(k) \in anew
    BY DEF HeapShape, HandInv
  <2>5. \A e \in batch : \A k \in KlinesOf(e) :
          /\ Live(k)
          /\ IsOpen(k) /\ TradeSym[k[2]] \in tovisit => WindowOf(k) \in anew
    BY DEF HeapShape, HandInv
  <2> QED BY <1>1, <1>3, <2>1, <2>2, <2>3, <2>4, <2>5 DEF HandInv, KlinesOf
<1> QED BY <1>1, <1>2, <1>4, ShapeKept

(* The buffer becomes the batch; then the open klines of the symbols join it. *)
LEMMA ShapeDrain ==
    ASSUME HeapShape, SoundInv', DrainCompleted
    PROVE  HeapShape'
<1>1. /\ UNCHANGED <<wpc, wtrade, wclosed, lock, data, content, anew>>
      /\ batch' = {completed[s] : s \in Symbols} \ {<<>>}
      /\ \A s \in Symbols : completed'[s] = <<>>
  BY DEF DrainCompleted, workers, history
<1>2. LockInv'
  BY <1>1 DEF HeapShape, LockInv
<1>3. \A k : /\ Live(k)' <=> Live(k)
             /\ IsOpen(k)' <=> IsOpen(k)
             /\ WindowOf(k)' = WindowOf(k)
  BY <1>1 DEF Live, IsOpen, WindowOf, Window
<1>4. ASSUME NEW e \in batch', NEW k \in KlinesOf(e)
      PROVE  Live(k) /\ (IsOpen(k) => WindowOf(k) \in anew)
  <2>1. PICK s \in Symbols : e = completed[s]
    BY <1>1
  <2> QED BY <1>4, <2>1 DEF HeapShape, HandInv
<1>5. \A s \in Symbols : KlinesOf(completed'[s]) = {}
  BY <1>1, KlinesMade
<1>6. \A v \in Workers : \A k \in wclosed[v] :
          /\ wpc[v] = "buffer" /\ Live(k)
          /\ TradeSym[k[2]] = TradeSym[wtrade[v]]
          /\ IsOpen(k) => WindowOf(k) \in anew
  BY DEF HeapShape, HandInv
<1>7. HandInv'
  BY <1>1, <1>3, <1>4, <1>5, <1>6 DEF HandInv, KlinesOf
<1> QED BY <1>1, <1>2, <1>7, ShapeKept

LEMMA ShapeCollect ==
    ASSUME HeapShape, SoundInv', NEW s \in Symbols, CollectOpen(s)
    PROVE  HeapShape'
<1>0. TypeOK
  BY DEF HeapShape, SoundInv
<1>1. /\ UNCHANGED <<wpc, wtrade, wclosed, lock, data, content, completed, anew>>
      /\ batch' \subseteq batch \cup {<<Open(s)>>}
      /\ s \in tovisit /\ tovisit' = tovisit \ {s}
  BY DEF CollectOpen, workers, buckets, history
<1>2. LockInv'
  BY <1>1 DEF HeapShape, LockInv
<1>3. \A k : /\ Live(k)' <=> Live(k)
             /\ IsOpen(k)' <=> IsOpen(k)
             /\ WindowOf(k)' = WindowOf(k)
  BY <1>1 DEF Live, IsOpen, WindowOf, Window
<1>4. /\ KlinesOf(<<Open(s)>>) = Open(s)
      /\ \A k \in Open(s) : TradeSym[k[2]] = s /\ IsOpen(k) /\ Live(k)
  <2>1. ASSUME NEW k \in Open(s) PROVE TradeSym[k[2]] = s /\ IsOpen(k) /\ Live(k)
    <3>1. k \in Kline /\ TradeSym[k[2]] = s /\ IsOpen(k) /\ k # NoKline
      BY <1>0, OpenIs DEF Open
    <3>2. k[1] \in Intervals
      BY <3>1, SameKlineWindow
    <3> QED BY <3>1, <3>2 DEF HeapShape, OpenInv, IsOpen
  <2> QED BY <2>1, KlinesMade
<1>5. ASSUME NEW e \in batch', NEW k \in KlinesOf(e)
      PROVE  Live(k) /\ (IsOpen(k) /\ TradeSym[k[2]] \in tovisit' => WindowOf(k) \in anew)
  <2>1. CASE e \in batch
    BY <1>1, <1>5, <2>1 DEF HeapShape, HandInv
  <2>2. CASE e = <<Open(s)>>
    BY <1>1, <1>4, <1>5, <2>2
  <2> QED BY <1>1, <2>1, <2>2
<1>6. ASSUME NEW e \in batch', NEW f \in batch', NEW k \in KlinesOf(e) \cap KlinesOf(f),
             IsOpen(k)
      PROVE  e = f \/ WindowOf(k) \in anew
  <2>1. ASSUME NEW g \in batch, k \in KlinesOf(g), k \in Open(s) PROVE WindowOf(k) \in anew
    BY <1>1, <1>4, <2>1 DEF HeapShape, HandInv
  <2>2. CASE e \in batch /\ f \in batch
    BY <1>6, <2>2 DEF HeapShape, HandInv
  <2> QED BY <1>1, <1>4, <2>1, <2>2
<1>7. \A v \in Workers : \A k \in wclosed[v] :
          /\ wpc[v] = "buffer" /\ Live(k)
          /\ TradeSym[k[2]] = TradeSym[wtrade[v]]
          /\ IsOpen(k) => WindowOf(k) \in anew
  BY DEF HeapShape, HandInv
<1>8. \A r \in Symbols : \A k \in KlinesOf(completed[r]) :
          /\ Live(k) /\ TradeSym[k[2]] = r
          /\ IsOpen(k) => WindowOf(k) \in anew
  BY DEF HeapShape, HandInv
<1>9. HandInv'
  BY <1>1, <1>3, <1>5, <1>6, <1>7, <1>8 DEF HandInv, KlinesOf
<1> QED BY <1>1, <1>2, <1>9, ShapeKept

(* A restart leaves nothing. *)
LEMMA ShapeRestart ==
    ASSUME SoundInv', Restart
    PROVE  HeapShape'
<1>1. /\ \A w \in Workers : wpc'[w] = "idle" /\ wclosed'[w] = {}
      /\ \A s \in Symbols, iv \in Intervals : data'[s][iv] = NoKline
      /\ \A k \in Kline : content'[k] = {}
      /\ \A s \in Symbols : completed'[s] = <<>>
      /\ batch' = {}
  BY DEF Restart
<1>2. LockInv' /\ OpenInv' /\ LiveInv'
  BY <1>1 DEF LockInv, OpenInv, LiveInv, Live
<1>3. \A s \in Symbols : KlinesOf(completed'[s]) = {}
  BY <1>1, KlinesMade
<1>4. HandInv'
  BY <1>1, <1>3 DEF HandInv, KlinesOf
<1> QED BY <1>2, <1>4 DEF HeapShape

LEMMA InitShape == Init => HeapShape
<1> SUFFICES ASSUME Init PROVE HeapShape
  OBVIOUS
<1>1. LockInv /\ OpenInv /\ LiveInv
  BY DEF Init, LockInv, OpenInv, LiveInv, Live
<1>2. HandInv
  BY KlinesMade DEF Init, HandInv
<1> QED BY <1>1, <1>2, InitSound DEF HeapShape

(* A worker takes a trade, locks its symbol, recovers it. *)
LEMMA AdvanceOutcome ==
    ASSUME TypeOK, NEW w \in Workers,
           \/ TakeTrade(w) \/ LockSymbol(w)
           \/ \E failed \in SUBSET Intervals : Recover(w, failed)
    PROVE  /\ wpc[w] \notin {"update", "buffer"}
           /\ \A v \in Workers : v # w => wpc'[v] = wpc[v] /\ wtrade'[v] = wtrade[v]
           /\ wpc'[w] = "update" =>
                 /\ wpc[w] \in {"lock", "recover"}
                 /\ wtrade[w] \in Trades /\ TradeSym[wtrade[w]] \in Symbols
                 /\ UNCHANGED wtrade /\ begun' = begun \cup {wtrade[w]}
                 /\ \/ Open(TradeSym[wtrade[w]]) # {}
                    \/ \A iv \in Intervals : \/ rows[Window(wtrade[w], iv)] = NoRow
                                             \/ Window(wtrade[w], iv) \in anew'
           /\ wpc'[w] # "update" => UNCHANGED <<begun, anew>>
           /\ \/ UNCHANGED anew
              \/ /\ wtrade[w] \in Trades
                 /\ \E failed \in SUBSET Intervals : anew' = anew \cup Missed(wtrade[w], failed)
           /\ UNCHANGED <<wclosed, data, content, completed, leader, ckpc, tovisit, batch,
                          rows, ahead, lost>>
<1>0. \A v \in Workers : wpc[v] # "idle" => wtrade[v] \in Trades /\ TradeSym[wtrade[v]] \in Symbols
  BY TradesAssumption, SymbolOfTrade DEF TypeOK
<1>1. CASE TakeTrade(w)
  <2>1. /\ wpc[w] = "idle" /\ wpc'[w] = "lock"
        /\ \A v \in Workers : v # w => wpc'[v] = wpc[v] /\ wtrade'[v] = wtrade[v]
    BY <1>1 DEF TakeTrade, TypeOK
  <2>2. UNCHANGED <<wclosed, data, content, completed, leader, ckpc, tovisit, batch,
                    rows, begun, ahead, anew, lost>>
    BY <1>1 DEF TakeTrade, buckets, checkpoint, history
  <2> QED BY <2>1, <2>2
<1>2. CASE LockSymbol(w)
  <2>1. /\ wpc[w] = "lock" /\ UNCHANGED wtrade
        /\ \A v \in Workers : v # w => wpc'[v] = wpc[v]
        /\ \/ wpc'[w] = "recover" /\ UNCHANGED begun
           \/ /\ wpc'[w] = "update" /\ begun' = begun \cup {wtrade[w]}
              /\ Open(TradeSym[wtrade[w]]) # {}
    BY <1>2 DEF LockSymbol, TypeOK, history
  <2>2. UNCHANGED <<wclosed, data, content, completed, leader, ckpc, tovisit, batch,
                    rows, ahead, anew, lost>>
    BY <1>2 DEF LockSymbol, checkpoint, history
  <2> QED BY <1>0, <2>1, <2>2
<1>3. ASSUME NEW failed \in SUBSET Intervals, Recover(w, failed)
      PROVE  /\ wpc[w] = "recover" /\ wtrade[w] \in Trades /\ UNCHANGED wtrade
             /\ \A v \in Workers : v # w => wpc'[v] = wpc[v]
             /\ \/ /\ wpc'[w] = "update" /\ begun' = begun \cup {wtrade[w]}
                   /\ anew' = anew \cup Missed(wtrade[w], failed)
                   /\ \A iv \in Intervals : \/ rows[Window(wtrade[w], iv)] = NoRow
                                            \/ Window(wtrade[w], iv) \in anew'
                \/ wpc'[w] = "stuck" /\ UNCHANGED <<begun, anew>>
             /\ UNCHANGED <<wclosed, data, content, completed, leader, ckpc, tovisit, batch,
                            rows, ahead, lost>>
  <2>1. wpc[w] = "recover" /\ UNCHANGED wtrade
    BY <1>3 DEF Recover
  <2>2. UNCHANGED <<wclosed, data, content, completed, leader, ckpc, tovisit, batch,
                    rows, ahead, lost>>
    BY <1>3 DEF Recover, buckets, checkpoint, history
  <2>3. CASE Found(wtrade[w], failed) = {}
    <3>1. /\ wpc' = [wpc EXCEPT ![w] = "update"] /\ begun' = begun \cup {wtrade[w]}
          /\ anew' = anew \cup Missed(wtrade[w], failed)
      BY <1>3, <2>3 DEF Recover
    <3>2. ASSUME NEW iv \in Intervals, rows[Window(wtrade[w], iv)] # NoRow
          PROVE  Window(wtrade[w], iv) \in Missed(wtrade[w], failed)
      <4>1. iv \in failed
        BY <2>3, <3>2 DEF Found
      <4> QED BY <3>2, <4>1 DEF Missed
    <3>3. wpc'[w] = "update" /\ \A v \in Workers : v # w => wpc'[v] = wpc[v]
      BY <3>1 DEF TypeOK
    <3> QED BY <1>0, <2>1, <2>2, <3>1, <3>2, <3>3
  <2>4. CASE Found(wtrade[w], failed) # {}
    <3>1. wpc' = [wpc EXCEPT ![w] = "stuck"] /\ UNCHANGED <<begun, anew>>
      BY <1>3, <2>4 DEF Recover, history
    <3>2. wpc'[w] = "stuck" /\ \A v \in Workers : v # w => wpc'[v] = wpc[v]
      BY <3>1 DEF TypeOK
    <3> QED BY <1>0, <2>1, <2>2, <3>1, <3>2
  <2> QED BY <2>3, <2>4
<1>4. ASSUME NEW failed \in SUBSET Intervals, Recover(w, failed)
      PROVE  TradeSym[wtrade[w]] \in Symbols
  BY <1>3, <1>4, SymbolOfTrade
<1> QED BY <1>1, <1>2, <1>3, <1>4

(* Every step keeps the shape. *)
LEMMA ShapeAdvance ==
    ASSUME HeapShape, SoundInv', NEW w \in Workers,
           \/ TakeTrade(w) \/ LockSymbol(w)
           \/ \E failed \in SUBSET Intervals : Recover(w, failed)
    PROVE  HeapShape'
<1>0. TypeOK /\ TypeOK'
  BY DEF HeapShape, SoundInv
<1>1. /\ wpc[w] # "buffer"
      /\ \A v \in Workers : v # w => wpc'[v] = wpc[v] /\ wtrade'[v] = wtrade[v]
      /\ anew \subseteq anew'
      /\ UNCHANGED <<wclosed, data, content, completed, batch, tovisit>>
  BY <1>0, AdvanceOutcome
<1>2. \A v \in Workers :
         wpc[v] = "buffer" => wpc'[v] = "buffer" /\ wtrade'[v] = wtrade[v]
  BY <1>1
<1>3. HandInv'
  BY <1>1, <1>2, HandKept DEF HeapShape
<1>4. LockInv'
  <2>1. CASE TakeTrade(w)
    <3>1. wpc'[w] = "lock" /\ UNCHANGED lock
      BY <1>0, <2>1 DEF TakeTrade, TypeOK, buckets
    <3> QED BY <1>1, <3>1 DEF HeapShape, LockInv
  <2>2. CASE LockSymbol(w)
    <3>1. /\ wpc[w] = "lock" /\ UNCHANGED wtrade
          /\ lock[TradeSym[wtrade[w]]] = Free
          /\ lock' = [lock EXCEPT ![TradeSym[wtrade[w]]] = w]
      BY <2>2 DEF LockSymbol
    <3>2. wtrade[w] \in Trades
      BY <1>0, <3>1 DEF TypeOK
    <3>3. TradeSym[wtrade[w]] \in Symbols
      BY <3>2, SymbolOfTrade
    <3>4. lock'[TradeSym[wtrade'[w]]] = w
      BY <1>0, <3>1, <3>3 DEF TypeOK
    <3>5. ASSUME NEW v \in Workers, v # w, wpc'[v] \in {"recover", "stuck", "update"}
          PROVE  lock'[TradeSym[wtrade'[v]]] = v
      <4>1. lock[TradeSym[wtrade[v]]] = v /\ wtrade'[v] = wtrade[v]
        BY <1>1, <3>5 DEF HeapShape, LockInv
      <4>2. TradeSym[wtrade[v]] # TradeSym[wtrade[w]]
        BY <3>1, <4>1, WorkersAssumption
      <4>3. wtrade[v] \in Trades
        BY <1>0, <1>1, <3>5 DEF TypeOK
      <4>4. TradeSym[wtrade[v]] \in Symbols
        BY <4>3, SymbolOfTrade
      <4> QED BY <1>0, <3>1, <4>1, <4>2, <4>4 DEF TypeOK
    <3> QED BY <3>4, <3>5 DEF LockInv
  <2>3. ASSUME NEW failed \in SUBSET Intervals, Recover(w, failed) PROVE LockInv'
    <3>1. wpc[w] = "recover" /\ UNCHANGED <<wtrade, lock>>
      BY <2>3 DEF Recover, buckets
    <3> QED BY <1>1, <3>1 DEF HeapShape, LockInv
  <2> QED BY <2>1, <2>2, <2>3
<1> QED BY <1>1, <1>3, <1>4, ShapeKept

(* Saves and flushes, and what else leaves workers and buckets alone. *)
Quiet ==
    /\ UNCHANGED <<workers, lock, data, content, begun, ahead, anew>>
    /\ \A s \in Symbols : completed'[s] \in {completed[s], <<>>}
    /\ batch' \subseteq batch /\ tovisit' = tovisit

LEMMA QuietSteps ==
    ASSUME \/ \E e \in batch : SaveEntry(e) \/ FailEntry(e)
           \/ \E failed \in SUBSET Symbols : FlushCompleted(failed)
           \/ \E s \in Symbols, failed \in SUBSET Intervals : FlushOpen(s, failed)
           \/ EndCheckpoint \/ CheckpointExit \/ StartClose \/ Stop \/ ChangeLeader
           \/ UNCHANGED vars
    PROVE  Quiet
<1>1. ASSUME NEW e \in batch, SaveEntry(e) \/ FailEntry(e) PROVE Quiet
  BY <1>1 DEF SaveEntry, FailEntry, Quiet, buckets, history
<1>2. ASSUME NEW failed \in SUBSET Symbols, FlushCompleted(failed) PROVE Quiet
  BY <1>2 DEF FlushCompleted, Quiet, checkpoint
<1>3. ASSUME NEW s \in Symbols, NEW failed \in SUBSET Intervals, FlushOpen(s, failed)
      PROVE  Quiet
  BY <1>3 DEF FlushOpen, Quiet, buckets, checkpoint, history
<1>4. CASE EndCheckpoint \/ CheckpointExit \/ StartClose \/ Stop \/ ChangeLeader
           \/ UNCHANGED vars
  BY <1>4 DEF EndCheckpoint, CheckpointExit, StartClose, Stop, ChangeLeader, vars, Quiet,
              buckets, checkpoint, history
<1> QED BY <1>1, <1>2, <1>3, <1>4

LEMMA ShapeQuiet ==
    ASSUME HeapShape, SoundInv', Quiet
    PROVE  HeapShape'
<1>1. UNCHANGED <<wpc, wtrade, wclosed, lock, data, content, anew>>
  BY DEF Quiet, workers
<1>2. LockInv'
  BY <1>1 DEF HeapShape, LockInv
<1>3. HandInv'
  BY <1>1, HandKept DEF Quiet, HeapShape
<1> QED BY <1>1, <1>2, <1>3, ShapeKept

(* The steps by kind. *)
LEMMA StepKinds ==
    ASSUME [Next]_vars
    PROVE  \/ \E w \in Workers :
                 \/ TakeTrade(w) \/ LockSymbol(w)
                 \/ \E failed \in SUBSET Intervals : Recover(w, failed)
           \/ \E w \in Workers : UpdateBuckets(w) \/ BufferCompleted(w)
           \/ DrainCompleted \/ \E s \in Symbols : CollectOpen(s)
           \/ Restart
           \/ \/ \E e \in batch : SaveEntry(e) \/ FailEntry(e)
              \/ \E failed \in SUBSET Symbols : FlushCompleted(failed)
              \/ \E s \in Symbols, failed \in SUBSET Intervals : FlushOpen(s, failed)
              \/ EndCheckpoint \/ CheckpointExit \/ StartClose \/ Stop \/ ChangeLeader
              \/ UNCHANGED vars
  BY DEF Next, WorkerStep, CheckpointStep, CloseStep

LEMMA NextShape == HeapShape /\ [Next]_vars => HeapShape'
<1> SUFFICES ASSUME HeapShape, [Next]_vars PROVE HeapShape'
  OBVIOUS
<1>1. SoundInv'
  BY NextSound DEF HeapShape
<1> QED BY <1>1, StepKinds, QuietSteps, ShapeQuiet, ShapeAdvance, ShapeUpdate, ShapeBuffer,
           ShapeDrain, ShapeCollect, ShapeRestart

-----------------------------------------------------------------------------
(* Rows follow the klines *)

InBatch(k) == \E e \in batch : k \in KlinesOf(e)

(* Where a symbol without buckets is being updated, recovery has found no row, or
   missed the one there is. *)
FreshInv ==
    \A w \in Workers :
        /\ wpc[w] = "update"
        /\ \A iv \in Intervals : data[TradeSym[wtrade[w]]][iv] = NoKline
        => \A iv \in Intervals : \/ rows[Window(wtrade[w], iv)] = NoRow
                                 \/ Window(wtrade[w], iv) \in anew

(* The row of a live kline's window counts no more than the kline and what is
   still ahead, as long as the kline is to be saved; else perhaps also the trade
   that is being added, which the last save has seen. *)
RowBound(k) == ahead \cup IF InBatch(k) THEN content[k] ELSE content[k] \cup Adding(k)

RowInv ==
    \A k \in Kline : Live(k) /\ WindowOf(k) \notin anew =>
        rows[WindowOf(k)].px \cup rows[WindowOf(k)].vol \subseteq RowBound(k)

StoreInv == HeapShape /\ FreshInv /\ RowInv

(* No row loses a trade, but those that are ahead, and in windows begun anew. *)
RowsGrow ==
    \A win \in Windows : win \notin anew =>
        /\ rows[win].px \ ahead \subseteq rows'[win].px
        /\ rows[win].vol \ ahead \subseteq rows'[win].vol

(* The row of win is written from kline k, whose window it is, with no less than
   it counts; with more only when the kline is to be saved no more. *)
Wrote(k, win) ==
    /\ k \in Kline /\ Live(k) /\ WindowOf(k) = win
    /\ content[k] \subseteq rows'[win].px \cap rows'[win].vol
    /\ rows'[win].px \cup rows'[win].vol \subseteq content[k] \cup Adding(k)
    /\ Adding(k) \subseteq content[k] \/ InBatch(k)
    /\ Adding(k) \subseteq content[k] \/ ~InBatch(k)' \/ win \in anew

(* What a kline is being updated with depends on workers and buckets only. *)
LEMMA AddingGrows ==
    ASSUME UNCHANGED data,
           \A w \in Workers : wpc[w] = "update" => wpc'[w] = "update" /\ wtrade'[w] = wtrade[w]
    PROVE  \A k : Adding(k) \subseteq Adding(k)'
<1> SUFFICES ASSUME NEW k, NEW t \in Adding(k) PROVE t \in Adding(k)'
  OBVIOUS
<1>1. \A u, iv : Current(u, iv)' = Current(u, iv)
  BY DEF Current, WindowOf, Window
<1>2. PICK w \in Workers : wpc[w] = "update" /\ wtrade[w] = t /\ Current(t, k[1]) = k
  BY DEF Adding
<1>3. wpc'[w] = "update" /\ wtrade'[w] = t /\ Current(t, k[1])' = k
  BY <1>1, <1>2
<1>4. Adding(k)' =
        {wtrade'[v] : v \in {u \in Workers : wpc'[u] = "update" /\ Current(wtrade[u], k[1])' = k}}
  BY DEF Adding
<1>5. Current(wtrade[w], k[1])' = Current(wtrade[w], k[1])
  BY <1>2, <1>3 DEF Current, WindowOf, Window
<1> QED BY <1>2, <1>3, <1>4, <1>5

(* Rows change where a symbol has buckets only. *)
LEMMA FreshKept ==
    ASSUME HeapShape, FreshInv, UNCHANGED data, anew \subseteq anew',
           \A v \in Workers : wpc'[v] = "update" => wpc[v] = "update" /\ wtrade'[v] = wtrade[v],
           \A win \in Windows :
              \/ rows'[win] = rows[win] \/ win \in anew
              \/ \E k \in Kline : Live(k) /\ WindowOf(k) = win
    PROVE  FreshInv'
<1> SUFFICES ASSUME NEW w \in Workers, wpc'[w] = "update",
                    \A iv \in Intervals : data'[TradeSym[wtrade'[w]]][iv] = NoKline,
                    NEW iv \in Intervals
             PROVE  rows'[Window(wtrade[w], iv)] = NoRow \/ Window(wtrade[w], iv) \in anew'
  BY DEF FreshInv, Window
<1> DEFINE t == wtrade[w]
           win == Window(t, iv)
<1>1. /\ wpc[w] = "update" /\ wtrade'[w] = t
      /\ \A i \in Intervals : data[TradeSym[t]][i] = NoKline
  OBVIOUS
<1>2. rows[win] = NoRow \/ win \in anew
  BY <1>1 DEF FreshInv
<1>3. t \in Trades
  BY <1>1, TradesAssumption DEF HeapShape, SoundInv, TypeOK
<1>4. win \in Windows /\ win[1] = TradeSym[t]
  BY <1>3, WindowParts
<1>5. ASSUME NEW k \in Kline, Live(k), WindowOf(k) = win PROVE FALSE
  <2>1. TradeSym[k[2]] = TradeSym[t] /\ k[1] \in Intervals
    BY <1>4, <1>5, SameKlineWindow
  <2> QED BY <1>1, <1>5, <2>1 DEF HeapShape, LiveInv
<1> QED BY <1>2, <1>4, <1>5

(* Saves and flushes that write klines of the window keep the invariant, and let
   the rows grow. *)
LEMMA RowsWritten ==
    ASSUME StoreInv, HeapShape', Quiet,
           \A win \in Windows :
              rows'[win] = rows[win] \/ win \in anew \/ \E k : Wrote(k, win)
    PROVE  StoreInv' /\ RowsGrow
<1>1. UNCHANGED <<wpc, wtrade, wclosed, lock, data, content, anew, ahead>>
      /\ batch' \subseteq batch
  BY DEF Quiet, workers
<1>2. FreshInv'
  <2>1. \A win \in Windows :
           \/ rows'[win] = rows[win] \/ win \in anew
           \/ \E k \in Kline : Live(k) /\ WindowOf(k) = win
    BY DEF Wrote
  <2> QED BY <1>1, <2>1, FreshKept DEF StoreInv
<1>3. \A k : Adding(k) \subseteq Adding(k)'
  BY <1>1, AddingGrows
<1>4. \A k : /\ Live(k)' <=> Live(k)
             /\ WindowOf(k)' = WindowOf(k)
             /\ InBatch(k)' => InBatch(k)
  BY <1>1 DEF Live, WindowOf, Window, InBatch
<1>5. \A k, l \in Kline :
          Live(k) /\ Live(l) /\ WindowOf(k) = WindowOf(l) /\ WindowOf(k) \notin anew => k = l
  BY DEF StoreInv, HeapShape, LiveInv
<1>6. RowInv'
  <2> SUFFICES ASSUME NEW k \in Kline, Live(k), WindowOf(k) \notin anew
               PROVE  rows'[WindowOf(k)].px \cup rows'[WindowOf(k)].vol \subseteq RowBound(k)'
    BY <1>1, <1>4 DEF RowInv
  <2>1. WindowOf(k) \in Windows
    BY SameKlineWindow
  <2>2. RowBound(k)' = ahead \cup IF InBatch(k)' THEN content[k] ELSE content[k] \cup Adding(k)'
    BY <1>1 DEF RowBound
  <2>3. CASE rows'[WindowOf(k)] = rows[WindowOf(k)]
    <3>1. rows[WindowOf(k)].px \cup rows[WindowOf(k)].vol \subseteq RowBound(k)
      BY DEF StoreInv, RowInv
    <3>2. RowBound(k) \subseteq RowBound(k)'
      BY <1>3, <1>4, <2>2 DEF RowBound
    <3> QED BY <2>3, <3>1, <3>2
  <2>4. ASSUME NEW l, Wrote(l, WindowOf(k))
        PROVE  rows'[WindowOf(k)].px \cup rows'[WindowOf(k)].vol \subseteq RowBound(k)'
    <3>1. l = k
      BY <1>5, <2>4 DEF Wrote
    <3>2. /\ rows'[WindowOf(k)].px \cup rows'[WindowOf(k)].vol \subseteq content[k] \cup Adding(k)
          /\ Adding(k) \subseteq content[k] \/ ~InBatch(k)'
      BY <2>4, <3>1 DEF Wrote
    <3> QED BY <1>3, <2>2, <3>2
  <2> QED BY <2>1, <2>3, <2>4
<1>7. RowsGrow
  <2> SUFFICES ASSUME NEW win \in Windows, win \notin anew
               PROVE  /\ rows[win].px \ ahead \subseteq rows'[win].px
                      /\ rows[win].vol \ ahead \subseteq rows'[win].vol
    BY DEF RowsGrow
  <2>1. ASSUME NEW k, Wrote(k, win)
        PROVE  /\ rows[win].px \ ahead \subseteq rows'[win].px
               /\ rows[win].vol \ ahead \subseteq rows'[win].vol
    <3>1. rows[win].px \cup rows[win].vol \subseteq RowBound(k)
      BY <2>1 DEF Wrote, StoreInv, RowInv
    <3>2. RowBound(k) \subseteq ahead \cup content[k]
      BY <2>1 DEF Wrote, RowBound
    <3>3. content[k] \subseteq rows'[win].px /\ content[k] \subseteq rows'[win].vol
      BY <2>1 DEF Wrote
    <3> QED BY <3>1, <3>2, <3>3
  <2> QED BY <2>1
<1> QED BY <1>2, <1>6, <1>7 DEF StoreInv

(* A saved entry writes the rows of its windows from its klines. *)
LEMMA SavedWrote ==
    ASSUME HeapShape, NEW e \in batch, SaveEntry(e), NEW win \in Windows
    PROVE  \/ rows'[win] = rows[win] /\ \A k \in KlinesOf(e) : WindowOf(k) # win
           \/ \E k \in KlinesOf(e) : Wrote(k, win)
<1>0. TypeOK /\ e \in Seq(SUBSET Kline) /\ batch' = batch \ {e}
  BY DEF HeapShape, SoundInv, TypeOK, SaveEntry
<1>1. PICK px \in SUBSET Racing(e), vol \in SUBSET Racing(e) :
        rows' = Replaced(e, [k \in KlinesOf(e) |-> [px |-> Read(k, px), vol |-> Read(k, vol)]])
  BY DEF SaveEntry
<1>2. CASE \A k \in KlinesOf(e) : WindowOf(k) # win
  BY <1>1, <1>2 DEF Replaced
<1>3. CASE \E k \in KlinesOf(e) : WindowOf(k) = win
  <2> DEFINE k == LastOf(e, win)
  <2>1. k \in KlinesOf(e) /\ WindowOf(k) = win
    BY <1>0, <1>3, LastOfProperties
  <2>2. rows'[win] = [px |-> Read(k, px), vol |-> Read(k, vol)]
    BY <1>1, <1>3, <2>1 DEF Replaced
  <2>3. \A late : /\ content[k] \subseteq Read(k, late)
                  /\ Read(k, late) \subseteq content[k] \cup Adding(k)
    BY DEF Read
  <2> HIDE DEF k
  <2>4. k \in Kline /\ Live(k) /\ InBatch(k)
    BY <1>0, <2>1, HandKlines DEF HeapShape, HandInv, InBatch
  <2>5. Adding(k) \subseteq content[k] \/ ~InBatch(k)' \/ win \in anew
    <3> SUFFICES ASSUME InBatch(k)', win \notin anew PROVE Adding(k) \subseteq content[k]
      OBVIOUS
    <3>1. PICK f \in batch' : k \in KlinesOf(f)
      BY DEF InBatch
    <3>2. ~IsOpen(k)
      BY <1>0, <2>1, <3>1 DEF HeapShape, HandInv
    <3> QED BY <2>4, <3>2, AddingClosed
  <2> QED BY <2>1, <2>2, <2>3, <2>4, <2>5 DEF Wrote
<1> QED BY <1>2, <1>3

(* Close writes the rows from completed klines, and from open ones nobody is
   updating. *)
LEMMA FlushedWrote ==
    ASSUME HeapShape, NEW k \in Kline, NEW win, Live(k), WindowOf(k) = win,
           Adding(k) \subseteq content[k],
           rows'[win] = [px |-> content[k], vol |-> content[k]]
    PROVE  Wrote(k, win)
  BY DEF Wrote

LEMMA CompletedWrote ==
    ASSUME HeapShape, NEW failed \in SUBSET Symbols, FlushCompleted(failed), NEW win \in Windows
    PROVE  \/ /\ rows'[win] = rows[win]
              /\ win[1] \in failed \/ \A k \in KlinesOf(completed[win[1]]) : WindowOf(k) # win
           \/ win \in anew
           \/ \E k \in KlinesOf(completed[win[1]]) : Wrote(k, win)
<1>0. TypeOK
  BY DEF HeapShape, SoundInv
<1> DEFINE saved(w) == /\ w[1] \notin failed
                       /\ \E k \in KlinesOf(completed[w[1]]) : WindowOf(k) = w
           last(w) == content[LastOf(completed[w[1]], w)]
<1>1. rows' = [w \in Windows |->
                IF saved(w) THEN [px |-> last(w), vol |-> last(w)] ELSE rows[w]]
  BY DEF FlushCompleted
<1>2. CASE ~saved(win)
  BY <1>1, <1>2
<1>3. CASE saved(win)
  <2> DEFINE k == LastOf(completed[win[1]], win)
  <2>1. win[1] \in Symbols
    <3>1. PICK t \in Trades, iv \in Intervals : win = Window(t, iv)
      BY DEF Windows
    <3>2. Window(t, iv)[1] = TradeSym[t] /\ TradeSym[t] \in Symbols
      BY SymbolOfTrade, WindowParts
    <3> QED BY <3>1, <3>2
  <2>2. k \in KlinesOf(completed[win[1]]) /\ WindowOf(k) = win
    BY <1>0, <1>3, <2>1, LastOfProperties DEF TypeOK
  <2>3. rows'[win] = [px |-> content[k], vol |-> content[k]]
    BY <1>1, <1>3
  <2> HIDE DEF k
  <2>4. /\ k \in Kline /\ Live(k)
        /\ IsOpen(k) => win \in anew
    BY <1>0, <2>1, <2>2, HandKlines DEF HeapShape, HandInv
  <2>5. CASE ~IsOpen(k)
    <3>1. Adding(k) \subseteq content[k]
      BY <2>4, <2>5, AddingClosed
    <3> QED BY <2>2, <2>3, <2>4, <3>1, FlushedWrote
  <2> QED BY <2>4, <2>5
<1> QED BY <1>2, <1>3

LEMMA OpenWrote ==
    ASSUME HeapShape, NEW s \in Symbols, NEW failed \in SUBSET Intervals, FlushOpen(s, failed),
           NEW win \in Windows
    PROVE  rows'[win] = rows[win] \/ \E k : Wrote(k, win)
<1>0. TypeOK /\ lock[s] = Free
  BY DEF HeapShape, SoundInv, FlushOpen
<1>1. ASSUME NEW k \in Kline, WindowOf(k) = win, k \in Open(s),
             rows'[win] = [px |-> content[k], vol |-> content[k]]
      PROVE  Wrote(k, win)
  <2>1. TradeSym[k[2]] = s /\ IsOpen(k) /\ k # NoKline /\ k[1] \in Intervals
    BY <1>0, <1>1, OpenIs, SameKlineWindow DEF Open
  <2>2. Live(k)
    BY <2>1 DEF HeapShape, OpenInv, IsOpen
  <2>3. Adding(k) = {}
    BY <1>0, <2>1, AddingNone
  <2> QED BY <1>1, <2>2, <2>3, FlushedWrote
<1> QED BY <1>0, <1>1, FlushedOpen

(* Steps that leave rows, heap and history alone, and put only klines into the
   batch that nobody is updating. *)
LEMMA StoreMoved ==
    ASSUME StoreInv, HeapShape',
           UNCHANGED <<wpc, wtrade, data, content, rows, ahead, anew>>,
           \A k \in Kline :
              Live(k) /\ InBatch(k)' => \/ InBatch(k) \/ Adding(k) \subseteq content[k]
                                        \/ WindowOf(k) \in anew
    PROVE  StoreInv' /\ RowsGrow
<1>1. FreshInv'
  BY FreshKept DEF StoreInv
<1>2. \A k : Adding(k) \subseteq Adding(k)'
  BY AddingGrows
<1>3. RowInv'
  <2> SUFFICES ASSUME NEW k \in Kline, Live(k), WindowOf(k) \notin anew
               PROVE  rows[WindowOf(k)].px \cup rows[WindowOf(k)].vol \subseteq RowBound(k)'
    BY DEF RowInv, Live, WindowOf, Window
  <2>1. rows[WindowOf(k)].px \cup rows[WindowOf(k)].vol \subseteq RowBound(k)
    BY DEF StoreInv, RowInv
  <2>2. RowBound(k)' = ahead \cup IF InBatch(k)' THEN content[k] ELSE content[k] \cup Adding(k)'
    BY DEF RowBound
  <2>3. Adding(k) \subseteq Adding(k)'
    BY <1>2
  <2>4. InBatch(k)' => InBatch(k) \/ Adding(k) \subseteq content[k]
    OBVIOUS
  <2> QED BY <2>1, <2>2, <2>3, <2>4 DEF RowBound
<1>4. RowsGrow
  BY DEF RowsGrow
<1> QED BY <1>1, <1>3, <1>4 DEF StoreInv

LEMMA StoreDrain ==
    ASSUME StoreInv, HeapShape', DrainCompleted
    PROVE  StoreInv' /\ RowsGrow
<1>1. /\ UNCHANGED <<wpc, wtrade, data, content, rows, ahead, anew>>
      /\ batch' = {completed[s] : s \in Symbols} \ {<<>>}
  BY DEF DrainCompleted, workers, history
<1>2. ASSUME NEW k \in Kline, Live(k), InBatch(k)', WindowOf(k) \notin anew
      PROVE  Adding(k) \subseteq content[k]
  <2>1. PICK s \in Symbols : k \in KlinesOf(completed[s])
    BY <1>1, <1>2 DEF InBatch
  <2>2. ~IsOpen(k)
    BY <1>2, <2>1 DEF StoreInv, HeapShape, HandInv
  <2> QED BY <1>2, <2>2, AddingClosed DEF StoreInv
<1> QED BY <1>1, <1>2, StoreMoved

LEMMA StoreCollect ==
    ASSUME StoreInv, HeapShape', NEW s \in Symbols, CollectOpen(s)
    PROVE  StoreInv' /\ RowsGrow
<1>1. /\ UNCHANGED <<wpc, wtrade, data, content, rows, ahead, anew>>
      /\ batch' \subseteq batch \cup {<<Open(s)>>} /\ lock[s] = Free
  BY DEF CollectOpen, workers, buckets, history
<1>2. ASSUME NEW k \in Kline, InBatch(k)', ~InBatch(k) PROVE Adding(k) = {}
  <2>1. k \in Open(s)
    BY <1>1, <1>2, KlinesMade DEF InBatch
  <2>2. TradeSym[k[2]] = s
    BY <2>1, OpenIs DEF StoreInv, HeapShape, SoundInv
  <2> QED BY <1>1, <2>2, AddingNone DEF StoreInv
<1>3. \A k \in Kline : InBatch(k)' => InBatch(k) \/ Adding(k) \subseteq content[k]
  BY <1>2
<1> QED BY <1>1, <1>3, StoreMoved

LEMMA StoreBuffer ==
    ASSUME StoreInv, HeapShape', NEW w \in Workers, BufferCompleted(w)
    PROVE  StoreInv' /\ RowsGrow
<1>0. TypeOK
  BY DEF StoreInv, HeapShape, SoundInv
<1>1. /\ UNCHANGED <<data, content, rows, ahead, anew, batch>>
      /\ wpc[w] = "buffer" /\ wpc'[w] = "idle"
      /\ \A v \in Workers : v # w => wpc'[v] = wpc[v] /\ wtrade'[v] = wtrade[v]
  BY <1>0, BufferOutcome
<1>2. FreshInv'
  BY <1>1, FreshKept DEF StoreInv
<1>3. \A k : Adding(k) \subseteq Adding(k)'
  BY <1>1, AddingGrows
<1>4. \A k : RowBound(k) \subseteq RowBound(k)'
  BY <1>1, <1>3 DEF RowBound, InBatch
<1>5. RowInv'
  BY <1>1, <1>4 DEF StoreInv, RowInv, Live, WindowOf, Window
<1> QED BY <1>1, <1>2, <1>5 DEF StoreInv, RowsGrow

(* A worker that goes on to update has found buckets, or no row it knows of. *)
LEMMA StoreAdvance ==
    ASSUME StoreInv, HeapShape', NEW w \in Workers,
           \/ TakeTrade(w) \/ LockSymbol(w)
           \/ \E failed \in SUBSET Intervals : Recover(w, failed)
    PROVE  StoreInv' /\ RowsGrow
<1>0. TypeOK
  BY DEF StoreInv, HeapShape, SoundInv
<1>1. /\ UNCHANGED <<data, content, rows, ahead, batch>>
      /\ wpc[w] # "update" /\ anew \subseteq anew'
      /\ \A v \in Workers : v # w => wpc'[v] = wpc[v] /\ wtrade'[v] = wtrade[v]
  BY <1>0, AdvanceOutcome
<1>2. FreshInv'
  <2> SUFFICES ASSUME NEW v \in Workers, wpc'[v] = "update",
                      \A iv \in Intervals : data[TradeSym[wtrade'[v]]][iv] = NoKline,
                      NEW iv \in Intervals
               PROVE  \/ rows[Window(wtrade'[v], iv)] = NoRow
                      \/ Window(wtrade'[v], iv) \in anew'
    BY <1>1 DEF FreshInv, Window
  <2>1. CASE v = w
    <3>1. /\ UNCHANGED wtrade
          /\ \/ Open(TradeSym[wtrade[w]]) # {}
             \/ \A i \in Intervals : \/ rows[Window(wtrade[w], i)] = NoRow
                                     \/ Window(wtrade[w], i) \in anew'
      BY <1>0, <2>1, AdvanceOutcome
    <3>2. Open(TradeSym[wtrade[w]]) = {}
      BY <2>1, <3>1 DEF Open
    <3> QED BY <2>1, <3>1, <3>2
  <2>2. CASE v # w
    BY <1>1, <2>2 DEF StoreInv, FreshInv
  <2> QED BY <2>1, <2>2
<1>3. \A k : Adding(k) \subseteq Adding(k)'
  BY <1>1, AddingGrows
<1>4. \A k : RowBound(k) \subseteq RowBound(k)'
  BY <1>1, <1>3 DEF RowBound, InBatch
<1>5. RowInv'
  BY <1>1, <1>4 DEF StoreInv, RowInv, Live, WindowOf, Window
<1> QED BY <1>1, <1>2, <1>5 DEF StoreInv, RowsGrow

(* The kline a trade is added to counts what its row does. *)
LEMMA StoreUpdate ==
    ASSUME StoreInv, HeapShape', NEW w \in Workers, UpdateBuckets(w)
    PROVE  StoreInv' /\ RowsGrow
<1> DEFINE t == wtrade[w]
           s == TradeSym[t]
<1>0. /\ TypeOK /\ HeapShape /\ t \in Trades /\ s \in Symbols
      /\ UNCHANGED <<wtrade, rows, batch>> /\ anew \subseteq anew'
      /\ ahead' = ahead \ {t}
      /\ \A v \in Workers : v # w => wpc'[v] = wpc[v]
      /\ wpc[w] = "update" /\ wpc'[w] = "buffer"
  BY UpdateOutcome DEF StoreInv, HeapShape, SoundInv
<1>1. /\ TypeOK
      /\ \A k \in Kline : content'[k] =
            IF k = Current(t, k[1]) THEN content[k] \cup {t} ELSE content[k]
  BY UpdateOutcome DEF StoreInv, HeapShape, SoundInv
<1>2. \A k \in Kline : k = Current(t, k[1]) => t \in content'[k]
  BY <1>1
<1>3. FreshInv'
  <2> SUFFICES ASSUME NEW v \in Workers, wpc'[v] = "update",
                      \A iv \in Intervals : data'[TradeSym[wtrade[v]]][iv] = NoKline,
                      NEW iv \in Intervals
               PROVE  \/ rows[Window(wtrade[v], iv)] = NoRow
                      \/ Window(wtrade[v], iv) \in anew
    BY <1>0 DEF FreshInv, Window
  <2>1. v # w /\ wpc[v] = "update" /\ wtrade[v] \in Trades
    BY <1>0, TradesAssumption DEF TypeOK
  <2>2. TradeSym[wtrade[v]] # s
    BY <1>0, <2>1, OneUpdates
  <2>3. data'[TradeSym[wtrade[v]]] = data[TradeSym[wtrade[v]]]
    BY <1>0, <2>1, <2>2, SymbolOfTrade, UpdateOutcome
  <2> QED BY <2>1, <2>3 DEF StoreInv, FreshInv
<1>4. ASSUME NEW k \in Kline, TradeSym[k[2]] # s PROVE Adding(k) \subseteq Adding(k)'
  <2> SUFFICES ASSUME NEW u \in Adding(k) PROVE u \in Adding(k)'
    OBVIOUS
  <2>1. PICK v \in Workers : wpc[v] = "update" /\ wtrade[v] = u /\ Current(u, k[1]) = k
    BY DEF Adding
  <2>2. u \in Trades /\ k[1] \in Intervals
    BY <1>0, AddingProperties, KlineParts
  <2>3. TradeSym[k[2]] = TradeSym[u]
    BY <1>0, <2>1, <2>2, CurrentProperties
  <2>4. data'[TradeSym[u]] = data[TradeSym[u]]
    BY <1>0, <1>4, <2>2, <2>3, SymbolOfTrade, UpdateOutcome
  <2>5. v # w /\ wpc'[v] = "update" /\ wtrade'[v] = u
    BY <1>0, <1>4, <2>1, <2>3
  <2>6. Adding(k)' =
          {wtrade'[x] : x \in {y \in Workers : wpc'[y] = "update" /\ Current(wtrade[y], k[1])' = k}}
    BY DEF Adding
  <2>7. Current(wtrade[v], k[1])' = k
    BY <2>1, <2>4, <2>5 DEF Current, WindowOf, Window
  <2> QED BY <2>5, <2>6, <2>7
<1>5. ASSUME NEW k \in Kline, TradeSym[k[2]] = s
      PROVE  Adding(k) \subseteq IF Current(t, k[1]) = k THEN {t} ELSE {}
  <2> SUFFICES ASSUME NEW u \in Adding(k) PROVE u = t /\ Current(t, k[1]) = k
    OBVIOUS
  <2>1. PICK v \in Workers : wpc[v] = "update" /\ wtrade[v] = u /\ Current(u, k[1]) = k
    BY DEF Adding
  <2>2. u \in Trades /\ k[1] \in Intervals
    BY <1>0, AddingProperties, KlineParts
  <2>3. TradeSym[k[2]] = TradeSym[u]
    BY <1>0, <2>1, <2>2, CurrentProperties
  <2>4. v = w
    BY <1>0, <1>5, <2>1, <2>3, OneUpdates
  <2> QED BY <2>1, <2>4
<1>6. ASSUME NEW k \in Kline, Live(k)', WindowOf(k) \notin anew'
      PROVE  rows[WindowOf(k)].px \cup rows[WindowOf(k)].vol \subseteq RowBound(k)'
  <2> DEFINE win == WindowOf(k)
             seen == rows[win].px \cup rows[win].vol
  <2>0. /\ k[1] \in Intervals /\ win \in Windows /\ win[1] = TradeSym[k[2]] /\ win[2] = k[1]
        /\ TradeSym[k[2]] \in Symbols
    BY SameKlineWindow
  <2>1. RowBound(k)' = (ahead \ {t}) \cup
            IF InBatch(k)' THEN content'[k] ELSE content'[k] \cup Adding(k)'
    BY <1>0 DEF RowBound
  <2>2. InBatch(k)' <=> InBatch(k)
    BY <1>0 DEF InBatch
  <2>3. content[k] \subseteq content'[k]
    BY <1>0, OpenAfter
  <2>4. Live(k) => seen \subseteq RowBound(k)
    BY <1>0, <1>6 DEF StoreInv, RowInv
  <2>5. CASE Current(t, k[1]) = k
    <3>1. TradeSym[k[2]] = s /\ win = Window(t, k[1])
      BY <1>0, <2>0, <2>5, CurrentProperties
    <3>2. t \in content'[k]
      BY <1>2, <2>5
    <3>3. CASE Live(k)
      <4>1. RowBound(k) \subseteq ahead \cup content[k] \cup {t}
        BY <1>5, <3>1 DEF RowBound
      <4> QED BY <2>1, <2>3, <2>4, <3>2, <3>3, <4>1
    <3>4. CASE ~Live(k)
      <4>1. \/ \A jv \in Intervals : data[s][jv] = NoKline
            \/ seen \subseteq ahead
        BY <1>0, <1>6, <2>0, <2>5, <3>1, <3>4, MadeNew
      <4>2. (\A jv \in Intervals : data[s][jv] = NoKline) => seen \subseteq ahead
        <5>1. NoRow.px = {} /\ NoRow.vol = {}
          BY DEF NoRow
        <5>2. (\A jv \in Intervals : data[s][jv] = NoKline) => rows[win] = NoRow
          BY <1>0, <1>6, <2>0, <3>1 DEF StoreInv, FreshInv
        <5> QED BY <5>1, <5>2
      <4> QED BY <2>1, <3>2, <4>1, <4>2
    <3> QED BY <3>3, <3>4
  <2>6. CASE Current(t, k[1]) # k
    <3>1. Live(k) /\ content'[k] = content[k]
      BY <1>0, <1>6, <2>6, UpdateOutcome DEF Live
    <3>2. Adding(k) \subseteq Adding(k)'
      BY <1>4, <1>5, <2>6
    <3>3. RowBound(k) \subseteq RowBound(k)' \cup {t}
      BY <2>1, <2>2, <3>1, <3>2 DEF RowBound
    <3>4. ASSUME t \in seen PROVE FALSE
      <4>1. t \in InWindow(win)
        BY <1>0, <2>0, <3>4 DEF HeapShape, SoundInv, RowsSound
      <4>2. win = Window(t, k[1])
        BY <2>0, <4>1 DEF InWindow
      <4> DEFINE c == Current(t, k[1])
      <4>3. c \in Kline /\ WindowOf(c) = win /\ c[1] = k[1]
        BY <1>0, <2>0, <4>2, CurrentProperties
      <4>4. content'[c] # {}
        BY <1>2, <4>3
      <4> HIDE DEF c
      <4>5. k = c
        <5>1. \A l \in Kline : content'[l] # {} /\ WindowOf(l) = WindowOf(k) => k = l
          BY <1>6 DEF HeapShape, LiveInv, Live, WindowOf, Window
        <5> QED BY <4>3, <4>4, <5>1
      <4> QED BY <2>6, <4>5 DEF c
    <3> QED BY <2>4, <3>1, <3>3, <3>4
  <2> QED BY <2>5, <2>6
<1>7. RowInv'
  BY <1>0, <1>6 DEF RowInv, WindowOf, Window
<1>8. RowsGrow
  BY <1>0 DEF RowsGrow
<1> QED BY <1>3, <1>7, <1>8 DEF StoreInv

(* Every step keeps the invariant, and lets the rows grow. *)
LEMMA StoreRestart ==
    ASSUME HeapShape', Restart
    PROVE  StoreInv' /\ RowsGrow
<1>1. /\ \A k \in Kline : content'[k] = {}
      /\ \A w \in Workers : wpc'[w] = "idle"
      /\ UNCHANGED rows
  BY DEF Restart
<1>2. FreshInv' /\ RowInv'
  BY <1>1 DEF FreshInv, RowInv, Live
<1> QED BY <1>1, <1>2 DEF StoreInv, RowsGrow

LEMMA StoreQuiet ==
    ASSUME StoreInv, HeapShape',
           \/ \E e \in batch : SaveEntry(e) \/ FailEntry(e)
           \/ \E failed \in SUBSET Symbols : FlushCompleted(failed)
           \/ \E s \in Symbols, failed \in SUBSET Intervals : FlushOpen(s, failed)
           \/ EndCheckpoint \/ CheckpointExit \/ StartClose \/ Stop \/ ChangeLeader
           \/ UNCHANGED vars
    PROVE  StoreInv' /\ RowsGrow
<1>1. Quiet
  BY QuietSteps
<1>2. HeapShape
  BY DEF StoreInv
<1>3. ASSUME NEW e \in batch, SaveEntry(e), NEW win \in Windows
      PROVE  rows'[win] = rows[win] \/ win \in anew \/ \E k : Wrote(k, win)
  BY <1>2, <1>3, SavedWrote
<1>4. ASSUME NEW failed \in SUBSET Symbols, FlushCompleted(failed), NEW win \in Windows
      PROVE  rows'[win] = rows[win] \/ win \in anew \/ \E k : Wrote(k, win)
  BY <1>2, <1>4, CompletedWrote
<1>5. ASSUME NEW s \in Symbols, NEW failed \in SUBSET Intervals, FlushOpen(s, failed),
             NEW win \in Windows
      PROVE  rows'[win] = rows[win] \/ win \in anew \/ \E k : Wrote(k, win)
  BY <1>2, <1>5, OpenWrote
<1>6. ASSUME \/ \E e \in batch : FailEntry(e)
             \/ EndCheckpoint \/ CheckpointExit \/ StartClose \/ Stop \/ ChangeLeader
             \/ UNCHANGED vars
      PROVE  UNCHANGED rows
  BY <1>6 DEF FailEntry, EndCheckpoint, CheckpointExit, StartClose, Stop, ChangeLeader, vars
<1>7. \A win \in Windows : rows'[win] = rows[win] \/ win \in anew \/ \E k : Wrote(k, win)
  BY <1>3, <1>4, <1>5, <1>6
<1> QED BY <1>1, <1>7, RowsWritten

LEMMA NextStore ==
    ASSUME StoreInv, [Next]_vars
    PROVE  StoreInv' /\ RowsGrow
<1>1. HeapShape'
  BY NextShape DEF StoreInv
<1> QED BY <1>1, StepKinds, StoreAdvance, StoreUpdate, StoreBuffer, StoreDrain, StoreCollect,
           StoreRestart, StoreQuiet

LEMMA InitStore == Init => StoreInv
<1> SUFFICES ASSUME Init PROVE StoreInv
  OBVIOUS
<1>1. FreshInv /\ RowInv
  BY DEF Init, FreshInv, RowInv, Live
<1> QED BY <1>1, InitShape DEF StoreInv

(* The windows of the store are those of the aggregator. *)
LEMMA SameWindows ==
    /\ CandleStore!Windows = Windows /\ CandleStore!Row = Row
    /\ \A win : CandleStore!InWindow(win) = InWindow(win)
    /\ \A t, iv : CandleStore!Window(t, iv) = Window(t, iv)
  BY DEF CandleStore!Windows, Windows, CandleStore!Row, Row, CandleStore!InWindow,
         InWindow, CandleStore!Window, Window

(* A step begins or counts a trade, turns back, writes rows, or does none of it. *)
LEMMA StoreStep ==
    ASSUME StoreInv, [Next]_vars
    PROVE  CandleStore!Next \/ UNCHANGED <<begun, ahead, anew, rows>>
<1>0. TypeOK /\ TypeOK' /\ RowsSound' /\ HeapShape
  <2>1. HeapShape /\ HeapShape'
    BY NextShape DEF StoreInv
  <2> QED BY <2>1 DEF HeapShape, SoundInv
<1>1. ASSUME NEW w \in Workers,
             \/ TakeTrade(w) \/ LockSymbol(w)
             \/ \E failed \in SUBSET Intervals : Recover(w, failed)
      PROVE  CandleStore!Next \/ UNCHANGED <<begun, ahead, anew, rows>>
  <2>1. UNCHANGED <<ahead, rows>>
    BY <1>0, <1>1, AdvanceOutcome
  <2>2. CASE wpc'[w] # "update"
    BY <1>0, <1>1, <2>1, <2>2, AdvanceOutcome
  <2>3. CASE wpc'[w] = "update"
    <3> DEFINE t == wtrade[w]
    <3>1. t \in Trades /\ begun' = begun \cup {t}
      BY <1>0, <1>1, <2>3, AdvanceOutcome
    <3>2. \/ UNCHANGED anew
          \/ \E failed \in SUBSET Intervals : anew' = anew \cup Missed(t, failed)
      BY <1>0, <1>1, AdvanceOutcome
    <3>3. \E ivs \in SUBSET Intervals : anew' = anew \cup {Window(t, iv) : iv \in ivs}
      <4>1. CASE UNCHANGED anew
        <5>1. {} \in SUBSET Intervals /\ anew' = anew \cup {Window(t, iv) : iv \in {}}
          BY <4>1
        <5> QED BY <5>1
      <4>2. ASSUME NEW failed \in SUBSET Intervals, anew' = anew \cup Missed(t, failed)
            PROVE  \E ivs \in SUBSET Intervals : anew' = anew \cup {Window(t, iv) : iv \in ivs}
        <5> DEFINE ivs == {iv \in failed : rows[Window(t, iv)] # NoRow}
        <5>1. ivs \in SUBSET Intervals /\ anew' = anew \cup {Window(t, iv) : iv \in ivs}
          BY <4>2 DEF Missed
        <5> QED BY <5>1
      <4> QED BY <3>2, <4>1, <4>2
    <3> HIDE DEF t
    <3>4. CandleStore!Begin(t)
      BY <2>1, <3>1, <3>3, SameWindows DEF CandleStore!Begin
    <3> QED BY <3>1, <3>4 DEF CandleStore!Next
  <2> QED BY <2>2, <2>3
<1>2. ASSUME NEW w \in Workers, UpdateBuckets(w) PROVE CandleStore!Next
  <2> DEFINE t == wtrade[w]
             ivs == {iv \in Intervals : Window(t, iv) \in Reopened(t)}
  <2>1. /\ wpc[w] = "update" /\ t \in Trades /\ ahead' = ahead \ {t}
        /\ anew' = anew \cup Reopened(t) /\ UNCHANGED <<begun, rows>>
    BY <1>0, <1>2, UpdateOutcome
  <2>2. t \in begun
    BY <1>0, <2>1 DEF HeapShape, SoundInv
  <2>3. Reopened(t) = {Window(t, iv) : iv \in ivs}
    BY DEF Reopened
  <2>4. ivs \in SUBSET Intervals
    OBVIOUS
  <2> HIDE DEF ivs
  <2>5. CandleStore!Count(t)
    BY <2>1, <2>2, <2>3, <2>4, SameWindows DEF CandleStore!Count
  <2> QED BY <2>1, <2>5 DEF CandleStore!Next
<1>3. CASE Restart
  <2>1. ahead' \in SUBSET begun /\ UNCHANGED <<begun, anew, rows>>
    BY <1>3 DEF Restart
  <2> QED BY <2>1 DEF CandleStore!Next, CandleStore!Rewind
<1>4. ASSUME UNCHANGED <<begun, ahead, anew>> PROVE CandleStore!Next
  <2>1. RowsGrow
    BY NextStore
  <2>2. rows' \in [Windows -> Row]
    BY <1>0 DEF TypeOK
  <2>3. ASSUME NEW win \in Windows
        PROVE  rows'[win].px \cup rows'[win].vol \subseteq begun \cap InWindow(win)
    BY <1>0, <1>4 DEF RowsSound, InWindow, Window
  <2> QED BY <1>4, <2>1, <2>2, <2>3, SameWindows DEF CandleStore!Next, CandleStore!Save, RowsGrow
<1>5. ASSUME NEW w \in Workers, BufferCompleted(w) PROVE UNCHANGED <<begun, ahead, anew>>
  BY <1>0, <1>5, BufferOutcome
<1>6. ASSUME DrainCompleted \/ \E s \in Symbols : CollectOpen(s)
      PROVE  UNCHANGED <<begun, ahead, anew>>
  BY <1>6 DEF DrainCompleted, CollectOpen, history
<1>7. ASSUME Quiet PROVE UNCHANGED <<begun, ahead, anew>>
  BY <1>7 DEF Quiet
<1> QED BY <1>1, <1>2, <1>3, <1>4, <1>5, <1>6, <1>7, StepKinds, QuietSteps

(* The aggregator implements the abstract store, for any number of workers, and
   though loads and saves fail, trades are given again after a restart, and
   leaders change: no interleaving of workers, checkpoint and shutdown takes a
   trade out of a row that counts it, but one that is still to be counted again,
   or in a window that was begun anew. *)
THEOREM StoreImplemented == Spec => ImplementsCandleStore
<1>1. Init => CandleStore!Init
  <2>1. CandleStore!Windows = Windows /\ CandleStore!NoRow = NoRow
    BY SameWindows DEF CandleStore!NoRow, NoRow
  <2> QED BY <2>1 DEF Init, CandleStore!Init
<1>2. StoreInv /\ [Next]_vars => StoreInv'
  BY NextStore
<1>3. StoreInv /\ [Next]_vars => [CandleStore!Next]_(CandleStore!vars)
  BY StoreStep DEF CandleStore!vars
<1> QED BY <1>1, <1>2, <1>3, InitStore, PTL DEF Spec, ImplementsCandleStore, CandleStore!Spec

-----------------------------------------------------------------------------
(* Nothing falls between buckets, buffer and batch *)

(* The kline is open, completed by a trade under way, in the buffer, or to be
   saved. *)
Located(k) ==
    \/ IsOpen(k)
    \/ \E w \in Workers : k \in wclosed[w]
    \/ k \in KlinesOf(completed[TradeSym[k[2]]])
    \/ InBatch(k)

(* The trade is being added, in the row, or in a kline on its way there. *)
Counts(t, win) ==
    \/ \E w \in Workers : wpc[w] = "update" /\ wtrade[w] = t
    \/ t \in rows[win].px \cap rows[win].vol
    \/ \E k \in Kline : Located(k) /\ WindowOf(k) = win /\ t \in content[k]

CountedInv ==
    \A t \in begun \ (lost \cup ahead), iv \in Intervals :
        Window(t, iv) \notin anew => Counts(t, Window(t, iv))

(* Between two checkpoints nothing is to be saved. *)
IdleInv == ckpc = "idle" => batch = {}

DropInv == StoreInv /\ IdleInv /\ CountedInv

(* The row of the kline's window counts all the kline does. *)
InRow(k) == content[k] \subseteq rows'[WindowOf(k)].px \cap rows'[WindowOf(k)].vol

(* Steps that leave the heap alone: a live kline that is in hand stays there, is
   in its row, or its trades are lost. *)
LEMMA CountedKept ==
    ASSUME TypeOK, CountedInv, RowsGrow, UNCHANGED <<content, begun, ahead, anew>>,
           lost \subseteq lost',
           \A w \in Workers : wpc[w] = "update" => wpc'[w] = "update" /\ wtrade'[w] = wtrade[w],
           \A k \in Kline :
              Live(k) /\ Located(k) /\ WindowOf(k) \notin anew =>
                  Located(k)' \/ InRow(k) \/ content[k] \subseteq lost'
    PROVE  CountedInv'
<1> SUFFICES ASSUME NEW t \in begun \ (lost' \cup ahead), NEW iv \in Intervals,
                    Window(t, iv) \notin anew
             PROVE  Counts(t, Window(t, iv))'
  BY DEF CountedInv, Counts, Window
<1> DEFINE win == Window(t, iv)
<1>0. t \in Trades
  BY DEF TypeOK
<1>1. Counts(t, win) /\ win \in Windows
  BY <1>0, WindowParts DEF CountedInv
<1>2. \/ \E w \in Workers : wpc[w] = "update" /\ wtrade[w] = t
      \/ t \in rows[win].px \cap rows[win].vol
      \/ \E k \in Kline : Located(k) /\ WindowOf(k) = win /\ t \in content[k]
  BY <1>1 DEF Counts
<1>3. Counts(t, win)' <=>
         \/ \E w \in Workers : wpc'[w] = "update" /\ wtrade'[w] = t
         \/ t \in rows'[win].px \cap rows'[win].vol
         \/ \E k \in Kline : Located(k)' /\ WindowOf(k) = win /\ t \in content[k]
  BY DEF Counts, WindowOf, Window
<1>4. CASE \E w \in Workers : wpc[w] = "update" /\ wtrade[w] = t
  BY <1>3, <1>4
<1>5. CASE t \in rows[win].px \cap rows[win].vol
  <2>1. t \in rows'[win].px \cap rows'[win].vol
    BY <1>1, <1>5 DEF RowsGrow
  <2> QED BY <1>3, <2>1
<1>6. ASSUME NEW k \in Kline, Located(k), WindowOf(k) = win, t \in content[k]
      PROVE  Counts(t, win)'
  <2>1. Located(k)' \/ InRow(k) \/ content[k] \subseteq lost'
    BY <1>6 DEF Live
  <2> QED BY <1>3, <1>6, <2>1 DEF InRow
<1> QED BY <1>2, <1>4, <1>5, <1>6

(* A worker that begins a trade adds it. *)
LEMMA CountedAdvance ==
    ASSUME DropInv, RowsGrow, NEW w \in Workers,
           \/ TakeTrade(w) \/ LockSymbol(w)
           \/ \E failed \in SUBSET Intervals : Recover(w, failed)
    PROVE  CountedInv'
<1>0. TypeOK
  BY DEF DropInv, StoreInv, HeapShape, SoundInv
<1>1. /\ UNCHANGED <<wclosed, data, content, completed, rows, ahead, batch, lost>>
      /\ wpc[w] # "update" /\ anew \subseteq anew'
      /\ \A v \in Workers : v # w => wpc'[v] = wpc[v] /\ wtrade'[v] = wtrade[v]
      /\ wpc'[w] = "update" => UNCHANGED wtrade /\ begun' = begun \cup {wtrade[w]}
      /\ wpc'[w] # "update" => UNCHANGED begun
  BY <1>0, AdvanceOutcome
<1>2. \A k : Located(k)' <=> Located(k)
  BY <1>1 DEF Located, IsOpen, InBatch, KlinesOf
<1> SUFFICES ASSUME NEW t \in begun' \ (lost \cup ahead), NEW iv \in Intervals,
                    Window(t, iv) \notin anew'
             PROVE  Counts(t, Window(t, iv))'
  BY <1>1 DEF CountedInv, Counts, Window
<1> DEFINE win == Window(t, iv)
<1>3. Counts(t, win)' <=>
         \/ \E v \in Workers : wpc'[v] = "update" /\ wtrade'[v] = t
         \/ t \in rows[win].px \cap rows[win].vol
         \/ \E k \in Kline : Located(k) /\ WindowOf(k) = win /\ t \in content[k]
  BY <1>1, <1>2 DEF Counts, WindowOf, Window
<1>4. CASE t \in begun
  <2>1. Counts(t, win)
    BY <1>1, <1>4 DEF DropInv, CountedInv
  <2>2. (\E v \in Workers : wpc[v] = "update" /\ wtrade[v] = t) =>
            \E v \in Workers : wpc'[v] = "update" /\ wtrade'[v] = t
    BY <1>1
  <2> QED BY <1>3, <2>1, <2>2 DEF Counts
<1>5. CASE t \notin begun
  BY <1>1, <1>3, <1>5
<1> QED BY <1>4, <1>5

(* A bucket that an update replaces is completed. *)
LEMMA CountedUpdate ==
    ASSUME DropInv, RowsGrow, NEW w \in Workers, UpdateBuckets(w)
    PROVE  CountedInv'
<1> DEFINE t == wtrade[w]
           s == TradeSym[t]
<1>0. /\ TypeOK /\ HeapShape /\ t \in Trades /\ s \in Symbols
      /\ UNCHANGED <<wtrade, rows, batch, completed, begun, lost>>
      /\ anew \subseteq anew' /\ ahead' = ahead \ {t}
      /\ \A v \in Workers : v # w => wpc'[v] = wpc[v] /\ wclosed'[v] = wclosed[v]
      /\ wpc[w] = "update" /\ wclosed'[w] = Closed(t)
  BY UpdateOutcome DEF DropInv, StoreInv, HeapShape, SoundInv
<1>1. wclosed[w] = {}
  BY <1>0 DEF HeapShape, HandInv
<1>2. ASSUME NEW k \in Kline, Located(k) PROVE Located(k)'
  <2>1. \A e : KlinesOf(e)' = KlinesOf(e')
    BY DEF KlinesOf
  <2>2. k[1] \in Intervals /\ TradeSym[k[2]] \in Symbols
    BY SameKlineWindow
  <2>3. CASE IsOpen(k)
    <3>1. CASE TradeSym[k[2]] # s \/ Current(t, k[1]) = k
      <4>1. IsOpen(k)'
        BY <1>0, <2>3, <3>1, OpenAfter
      <4> QED BY <4>1 DEF Located
    <3>2. CASE TradeSym[k[2]] = s /\ Current(t, k[1]) # k
      <4>1. k \in Open(s)
        BY <1>0, <2>3, <3>2, OpenIs
      <4>2. k = data[s][k[1]] /\ k # NoKline
        BY <2>3, <3>2, <4>1 DEF IsOpen, Open
      <4>3. WindowOf(k) # Window(t, k[1])
        BY <1>0, <2>2, <3>2, <4>2 DEF Current
      <4>4. k \in wclosed'[w]
        BY <1>0, <4>1, <4>3 DEF Closed
      <4> QED BY <4>4 DEF Located
    <3> QED BY <3>1, <3>2
  <2>4. ASSUME NEW v \in Workers, k \in wclosed[v] PROVE Located(k)'
    <3>1. v # w
      BY <1>1, <2>4
    <3>2. k \in wclosed'[v]
      BY <1>0, <2>4, <3>1
    <3> QED BY <3>2 DEF Located
  <2>5. CASE k \in KlinesOf(completed[TradeSym[k[2]]]) \/ InBatch(k)
    BY <1>0, <2>5 DEF Located, InBatch, KlinesOf
  <2> QED BY <1>2, <2>3, <2>4, <2>5 DEF Located
<1> SUFFICES ASSUME NEW u \in begun \ (lost \cup (ahead \ {t})), NEW iv \in Intervals,
                    Window(u, iv) \notin anew'
             PROVE  Counts(u, Window(u, iv))'
  BY <1>0 DEF CountedInv, Counts, Window
<1> DEFINE win == Window(u, iv)
<1>3. Counts(u, win)' <=>
         \/ \E v \in Workers : wpc'[v] = "update" /\ wtrade[v] = u
         \/ u \in rows[win].px \cap rows[win].vol
         \/ \E k \in Kline : Located(k)' /\ WindowOf(k) = win /\ u \in content'[k]
  BY <1>0 DEF Counts, WindowOf, Window
<1>4. CASE u = t
  <2>1. PICK c \in Kline : /\ c = Current(t, iv) /\ c[1] = iv
                          /\ WindowOf(c) = win /\ TradeSym[c[2]] = s
    BY <1>0, <1>4, CurrentProperties
  <2>2. \A k \in Kline : k = Current(t, k[1]) => t \in content'[k]
    BY <1>0, UpdateOutcome
  <2>3. t \in content'[c]
    BY <2>1, <2>2
  <2>4. IsOpen(c)'
    <3>1. \A k \in Kline : TradeSym[k[2]] = s /\ Current(t, k[1]) = k => IsOpen(k)'
      BY <1>0, OpenAfter
    <3> QED BY <2>1, <3>1
  <2>5. Located(c)'
    BY <2>4 DEF Located
  <2> QED BY <1>3, <1>4, <2>1, <2>3, <2>5
<1>5. CASE u # t
  <2>1. Counts(u, win)
    BY <1>0, <1>5 DEF DropInv, CountedInv
  <2>2. \A k \in Kline : content[k] \subseteq content'[k]
    BY <1>0, OpenAfter
  <2>3. (\E v \in Workers : wpc[v] = "update" /\ wtrade[v] = u) =>
            \E v \in Workers : wpc'[v] = "update" /\ wtrade[v] = u
    BY <1>0, <1>5
  <2>4. (\E k \in Kline : Located(k) /\ WindowOf(k) = win /\ u \in content[k]) =>
            \E k \in Kline : Located(k)' /\ WindowOf(k) = win /\ u \in content'[k]
    BY <1>2, <2>2
  <2> QED BY <1>3, <2>1, <2>3, <2>4 DEF Counts
<1> QED BY <1>4, <1>5

(* What a worker completed is buffered, or lost. *)
LEMMA CountedBuffer ==
    ASSUME DropInv, RowsGrow, NEW w \in Workers, BufferCompleted(w)
    PROVE  CountedInv'
<1> DEFINE s == TradeSym[wtrade[w]]
<1>0. TypeOK /\ HeapShape /\ s \in Symbols
  BY BufferOutcome DEF DropInv, StoreInv, HeapShape, SoundInv
<1>1. /\ UNCHANGED <<data, content, batch, begun, ahead, anew>>
      /\ wpc[w] = "buffer"
      /\ \A v \in Workers : v # w =>
            /\ wclosed'[v] = wclosed[v] /\ wpc'[v] = wpc[v] /\ wtrade'[v] = wtrade[v]
  BY <1>0, BufferOutcome
<1>2. /\ leader => /\ lost' = lost
                   /\ KlinesOf(completed'[s]) = KlinesOf(completed[s]) \cup wclosed[w]
                   /\ \A r \in Symbols : r # s => completed'[r] = completed[r]
      /\ ~leader => /\ completed' = completed
                    /\ lost' = lost \cup UNION {content[k] : k \in wclosed[w]}
  BY <1>0, BufferOutcome
<1>3. lost \subseteq lost'
  BY <1>2
<1>4. \A r \in Symbols : KlinesOf(completed[r]) \subseteq KlinesOf(completed'[r])
  <2>1. CASE leader
    <3> SUFFICES ASSUME NEW r \in Symbols
                 PROVE  KlinesOf(completed[r]) \subseteq KlinesOf(completed'[r])
      OBVIOUS
    <3>1. CASE r = s
      BY <1>2, <2>1, <3>1
    <3>2. CASE r # s
      BY <1>2, <2>1, <3>2
    <3> QED BY <3>1, <3>2
  <2>2. CASE ~leader
    BY <1>2, <2>2
  <2> QED BY <2>1, <2>2
<1>5. ASSUME NEW k \in Kline, Located(k) PROVE Located(k)' \/ content[k] \subseteq lost'
  <2>0. /\ TradeSym[k[2]] \in Symbols
        /\ KlinesOf(completed[TradeSym[k[2]]])' = KlinesOf(completed'[TradeSym[k[2]]])
    BY SameKlineWindow DEF KlinesOf
  <2>1. CASE IsOpen(k) \/ InBatch(k)
    BY <1>1, <2>1 DEF Located, IsOpen, InBatch
  <2>2. CASE k \in KlinesOf(completed[TradeSym[k[2]]])
    BY <1>4, <2>0, <2>2 DEF Located
  <2>3. ASSUME NEW v \in Workers, k \in wclosed[v]
        PROVE  Located(k)' \/ content[k] \subseteq lost'
    <3>1. CASE v # w
      <4>1. k \in wclosed'[v]
        BY <1>1, <2>3, <3>1
      <4> QED BY <4>1 DEF Located
    <3>2. CASE v = w /\ leader
      <4>1. TradeSym[k[2]] = s
        BY <2>3, <3>2, <1>0 DEF HeapShape, HandInv
      <4>2. k \in KlinesOf(completed'[TradeSym[k[2]]])
        BY <1>2, <2>3, <3>2, <4>1
      <4> QED BY <2>0, <4>2 DEF Located
    <3>3. CASE v = w /\ ~leader
      BY <1>2, <2>3, <3>3
    <3> QED BY <3>1, <3>2, <3>3
  <2> QED BY <1>5, <2>1, <2>2, <2>3 DEF Located
<1>6. \A v \in Workers : wpc[v] = "update" => wpc'[v] = "update" /\ wtrade'[v] = wtrade[v]
  BY <1>1
<1> QED BY <1>0, <1>1, <1>3, <1>5, <1>6, CountedKept DEF DropInv

(* The buffer goes into the batch, and open klines join it. *)
LEMMA CountedMoved ==
    ASSUME DropInv, RowsGrow, DrainCompleted \/ \E s \in Symbols : CollectOpen(s)
    PROVE  CountedInv'
<1>0. TypeOK
  BY DEF DropInv, StoreInv, HeapShape, SoundInv
<1>1. UNCHANGED <<wpc, wtrade, wclosed, data, content, begun, ahead, anew, lost>>
  BY DEF DrainCompleted, CollectOpen, workers, buckets, history
<1>2. ASSUME NEW k \in Kline, Located(k) PROVE Located(k)'
  <2>0. /\ TradeSym[k[2]] \in Symbols
        /\ Located(k)' <=> \/ IsOpen(k)
                           \/ \E w \in Workers : k \in wclosed[w]
                           \/ k \in KlinesOf(completed'[TradeSym[k[2]]])
                           \/ InBatch(k)'
    BY <1>1, SameKlineWindow DEF Located, IsOpen, KlinesOf
  <2>1. CASE DrainCompleted
    <3>1. batch' = {completed[s] : s \in Symbols} \ {<<>>} /\ ~InBatch(k)
      BY <2>1 DEF DrainCompleted, DropInv, IdleInv, InBatch
    <3>2. ASSUME k \in KlinesOf(completed[TradeSym[k[2]]]) PROVE InBatch(k)'
      <4>1. completed[TradeSym[k[2]]] # <<>>
        BY <3>2, KlinesMade
      <4>2. completed[TradeSym[k[2]]] \in batch'
        BY <2>0, <3>1, <4>1
      <4> QED BY <3>2, <4>2 DEF InBatch
    <3> QED BY <1>2, <2>0, <3>1, <3>2 DEF Located
  <2>2. ASSUME NEW s \in Symbols, CollectOpen(s) PROVE Located(k)'
    <3>1. batch \subseteq batch' /\ completed' = completed
      BY <2>2 DEF CollectOpen, buckets
    <3>2. InBatch(k) => InBatch(k)'
      BY <3>1 DEF InBatch
    <3> QED BY <1>2, <2>0, <3>1, <3>2 DEF Located
  <2> QED BY <2>1, <2>2
<1> QED BY <1>0, <1>1, <1>2, CountedKept DEF DropInv

(* A kline that is written for its window is the live one of it. *)
LEMMA WroteAlone ==
    ASSUME HeapShape, NEW k \in Kline, Live(k), WindowOf(k) \notin anew,
           NEW l, Wrote(l, WindowOf(k))
    PROVE  InRow(k)
<1>1. l = k
  BY DEF Wrote, HeapShape, LiveInv
<1> QED BY <1>1 DEF Wrote, InRow

(* What is saved or flushed is in its row, what fails to be is lost. *)
LEMMA CountedQuiet ==
    ASSUME DropInv, RowsGrow,
           \/ \E e \in batch : SaveEntry(e) \/ FailEntry(e)
           \/ \E failed \in SUBSET Symbols : FlushCompleted(failed)
           \/ \E s \in Symbols, failed \in SUBSET Intervals : FlushOpen(s, failed)
           \/ EndCheckpoint \/ CheckpointExit \/ StartClose \/ Stop \/ ChangeLeader
           \/ UNCHANGED vars
    PROVE  CountedInv'
<1>0. TypeOK /\ HeapShape /\ Quiet
  BY QuietSteps DEF DropInv, StoreInv, HeapShape, SoundInv
<1>1. UNCHANGED <<wpc, wtrade, wclosed, data, content, begun, ahead, anew>>
  BY <1>0 DEF Quiet, workers
<1>2. ASSUME NEW k \in Kline
      PROVE  Located(k)' <=> \/ IsOpen(k)
                             \/ \E w \in Workers : k \in wclosed[w]
                             \/ k \in KlinesOf(completed'[TradeSym[k[2]]])
                             \/ InBatch(k)'
  BY <1>1 DEF Located, IsOpen, KlinesOf
<1>3. ASSUME lost \subseteq lost',
             \A k \in Kline :
                Live(k) /\ Located(k) /\ WindowOf(k) \notin anew =>
                    Located(k)' \/ InRow(k) \/ content[k] \subseteq lost'
      PROVE  CountedInv'
  BY <1>0, <1>1, <1>3, CountedKept DEF DropInv
<1>4. ASSUME NEW e \in batch, SaveEntry(e) PROVE CountedInv'
  <2>1. batch' = batch \ {e} /\ UNCHANGED <<completed, lost>>
    BY <1>4 DEF SaveEntry, buckets, history
  <2>2. ASSUME NEW k \in Kline, Live(k), Located(k), WindowOf(k) \notin anew
        PROVE  Located(k)' \/ InRow(k)
    <3>1. CASE k \in KlinesOf(e)
      <4>1. WindowOf(k) \in Windows
        BY SameKlineWindow
      <4>2. \E l \in KlinesOf(e) : Wrote(l, WindowOf(k))
        BY <1>0, <1>4, <3>1, <4>1, SavedWrote
      <4> QED BY <1>0, <2>2, <4>2, WroteAlone
    <3>2. CASE k \notin KlinesOf(e)
      <4>1. InBatch(k) => InBatch(k)'
        BY <2>1, <3>2 DEF InBatch
      <4> QED BY <1>2, <2>1, <2>2, <4>1 DEF Located
    <3> QED BY <3>1, <3>2
  <2> QED BY <1>3, <2>1, <2>2
<1>5. ASSUME NEW e \in batch, FailEntry(e) PROVE CountedInv'
  <2>1. batch' = batch \ {e} /\ UNCHANGED completed /\ lost' = lost \cup Discarded(KlinesOf(e))
    BY <1>5 DEF FailEntry, buckets
  <2>2. ASSUME NEW k \in Kline, Located(k)
        PROVE  Located(k)' \/ content[k] \subseteq lost'
    <3>0. TradeSym[k[2]] \in Symbols /\ WindowOf(k)[1] = TradeSym[k[2]]
      BY SameKlineWindow
    <3>1. CASE k \in KlinesOf(e)
      <4>1. CASE \/ k \in Open(TradeSym[k[2]])
                 \/ \E w \in Workers : k \in wclosed[w]
                 \/ k \in KlinesOf(completed[TradeSym[k[2]]])
        <5>1. k \in Open(TradeSym[k[2]]) => IsOpen(k)
          BY <1>0, <3>0, OpenIs
        <5> QED BY <1>2, <2>1, <4>1, <5>1
      <4>2. CASE /\ k \notin Open(TradeSym[k[2]])
                 /\ \A w \in Workers : k \notin wclosed[w]
                 /\ k \notin KlinesOf(completed[TradeSym[k[2]]])
        <5>1. \A s \in Symbols : k \notin KlinesOf(completed[s])
          BY <1>0, <4>2 DEF HeapShape, HandInv
        <5>2. content[k] \subseteq Discarded(KlinesOf(e))
          BY <3>0, <3>1, <4>2, <5>1 DEF Discarded
        <5> QED BY <2>1, <5>2
      <4> QED BY <4>1, <4>2
    <3>2. CASE k \notin KlinesOf(e)
      <4>1. InBatch(k) => InBatch(k)'
        BY <2>1, <3>2 DEF InBatch
      <4> QED BY <1>2, <2>1, <2>2, <4>1 DEF Located
    <3> QED BY <3>1, <3>2
  <2> QED BY <1>3, <2>1, <2>2
<1>6. ASSUME NEW failed \in SUBSET Symbols, FlushCompleted(failed) PROVE CountedInv'
  <2>1. /\ UNCHANGED batch
        /\ lost' = lost \cup
              UNION {content[k] : k \in UNION {KlinesOf(completed[s]) : s \in failed}}
    BY <1>6 DEF FlushCompleted, checkpoint
  <2>2. ASSUME NEW k \in Kline, Live(k), Located(k), WindowOf(k) \notin anew
        PROVE  Located(k)' \/ InRow(k) \/ content[k] \subseteq lost'
    <3>0. /\ TradeSym[k[2]] \in Symbols /\ WindowOf(k)[1] = TradeSym[k[2]]
          /\ WindowOf(k) \in Windows
      BY SameKlineWindow
    <3>1. CASE k \in KlinesOf(completed[TradeSym[k[2]]])
      <4>1. CASE TradeSym[k[2]] \in failed
        BY <2>1, <3>1, <4>1
      <4>2. CASE TradeSym[k[2]] \notin failed
        <5>1. \E l \in KlinesOf(completed[WindowOf(k)[1]]) : Wrote(l, WindowOf(k))
          BY <1>0, <1>6, <2>2, <3>0, <3>1, <4>2, CompletedWrote
        <5> QED BY <1>0, <2>2, <5>1, WroteAlone
      <4> QED BY <4>1, <4>2
    <3>2. CASE k \notin KlinesOf(completed[TradeSym[k[2]]])
      <4>1. InBatch(k) => InBatch(k)'
        BY <2>1 DEF InBatch
      <4> QED BY <1>2, <2>2, <3>2, <4>1 DEF Located
    <3> QED BY <3>1, <3>2
  <2> QED BY <1>3, <2>1, <2>2
<1>7. ASSUME UNCHANGED <<completed, batch, lost>> PROVE CountedInv'
  <2>1. \A k \in Kline : Located(k) => Located(k)'
    BY <1>2, <1>7 DEF Located, InBatch
  <2> QED BY <1>3, <1>7, <2>1
<1>8. ASSUME \/ \E s \in Symbols, failed \in SUBSET Intervals : FlushOpen(s, failed)
             \/ CheckpointExit \/ StartClose \/ Stop \/ ChangeLeader \/ EndCheckpoint
             \/ UNCHANGED vars
      PROVE  UNCHANGED <<completed, batch, lost>>
  BY <1>8 DEF FlushOpen, CheckpointExit, StartClose, Stop, ChangeLeader, EndCheckpoint, vars,
              buckets, checkpoint, history
<1> QED BY <1>4, <1>5, <1>6, <1>7, <1>8

(* What a crash leaves is in the rows of all windows, lost, or ahead again. *)
LEMMA CountedRestart ==
    ASSUME TypeOK, Restart
    PROVE  CountedInv'
<1>1. PICK from \in 1..next :
        /\ ahead' = {t \in begun : from <= t}
        /\ lost' = lost \cup {t \in begun : t < from /\ ~Stored(t)}
  BY DEF Restart
<1>2. UNCHANGED <<begun, anew, rows>>
  BY DEF Restart
<1>3. ASSUME NEW t \in begun \ (lost' \cup ahead'), NEW iv \in Intervals
      PROVE  t \in rows[Window(t, iv)].px \cap rows[Window(t, iv)].vol
  <2>1. t \in Nat /\ from \in Nat
    BY TradesAssumption DEF TypeOK, Trades
  <2>2. t < from
    BY <1>1, <2>1
  <2> QED BY <1>1, <2>2 DEF Stored
<1> QED BY <1>2, <1>3 DEF CountedInv, Counts, Window

LEMMA NextIdle ==
    ASSUME IdleInv, [Next]_vars
    PROVE  IdleInv'
<1>1. CASE DrainCompleted \/ (\E s \in Symbols : CollectOpen(s)) \/ Restart
  BY <1>1 DEF IdleInv, DrainCompleted, CollectOpen, Restart
<1>2. CASE EndCheckpoint
  BY <1>2 DEF IdleInv, EndCheckpoint
<1>3. CASE CheckpointExit
  BY <1>3 DEF IdleInv, CheckpointExit
<1>4. ASSUME NEW e \in batch, SaveEntry(e) \/ FailEntry(e) PROVE IdleInv'
  BY <1>4 DEF IdleInv, SaveEntry, FailEntry
<1>5. ASSUME UNCHANGED <<ckpc, batch>> PROVE IdleInv'
  BY <1>5 DEF IdleInv
<1> QED BY <1>1, <1>2, <1>3, <1>4, <1>5
        DEF Next, WorkerStep, TakeTrade, LockSymbol, Recover, UpdateBuckets, BufferCompleted,
            CheckpointStep, CloseStep, StartClose, FlushCompleted, FlushOpen, Stop,
            ChangeLeader, vars, checkpoint

LEMMA NextDrop == DropInv /\ [Next]_vars => DropInv'
<1> SUFFICES ASSUME DropInv, [Next]_vars PROVE DropInv'
  OBVIOUS
<1>1. StoreInv' /\ RowsGrow /\ IdleInv' /\ TypeOK
  BY NextStore, NextIdle DEF DropInv, StoreInv, HeapShape, SoundInv
<1>2. CountedInv'
  BY <1>1, StepKinds, CountedAdvance, CountedUpdate, CountedBuffer, CountedMoved,
     CountedRestart, CountedQuiet
<1> QED BY <1>1, <1>2 DEF DropInv

LEMMA InitDrop == Init => DropInv
<1> SUFFICES ASSUME Init PROVE DropInv
  OBVIOUS
<1>1. IdleInv /\ CountedInv
  BY DEF Init, IdleInv, CountedInv
<1> QED BY <1>1, InitStore DEF DropInv

(* No trade falls between the buckets, the buffer, the batch and a last flush,
   for any number of workers, whatever fails: what was begun is in the row of
   each of its windows or on its way there, unless a kline that counts it was
   discarded, it is to be counted again, or its window was begun anew. *)
THEOREM NothingIsDropped == Spec => []NothingDropped
<1>1. DropInv => NothingDropped
  <2> SUFFICES ASSUME DropInv, NEW t \in begun \ (lost \cup ahead), NEW iv \in Intervals,
                      Window(t, iv) \notin anew
               PROVE  t \in (rows[Window(t, iv)].px \cap rows[Window(t, iv)].vol)
                                \cup OnTheWay(Window(t, iv))
    BY DEF NothingDropped
  <2> DEFINE win == Window(t, iv)
  <2>0. TypeOK /\ t \in Trades
    BY DEF DropInv, StoreInv, HeapShape, SoundInv, TypeOK
  <2>1. Counts(t, win)
    BY DEF DropInv, CountedInv
  <2>2. ASSUME NEW w \in Workers, wpc[w] = "update", wtrade[w] = t PROVE t \in OnTheWay(win)
    <3>1. t \in {wtrade[v] : v \in {u \in Workers : wpc[u] = "update"}}
      BY <2>2
    <3> QED BY <3>1 DEF OnTheWay
  <2>3. ASSUME NEW k \in Kline, Located(k), WindowOf(k) = win, t \in content[k]
        PROVE  t \in OnTheWay(win)
    <3>1. TradeSym[k[2]] = win[1] /\ TradeSym[k[2]] \in Symbols
      BY <2>3, SameKlineWindow
    <3>2. \/ k \in Open(win[1])
          \/ \E w \in Workers : k \in wclosed[w]
          \/ k \in KlinesOf(completed[win[1]])
          \/ \E e \in batch : k \in KlinesOf(e)
      BY <2>0, <2>3, <3>1, OpenIs DEF Located, InBatch
    <3> HIDE DEF win
    <3> QED BY <2>3, <3>2 DEF OnTheWay
  <2> QED BY <2>1, <2>2, <2>3 DEF Counts
<1> QED BY <1>1, InitDrop, NextDrop, PTL DEF Spec
===============================================================================
