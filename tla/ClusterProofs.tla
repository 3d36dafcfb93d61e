----------------------------- MODULE ClusterProofs -----------------------------
(***************************************************************************)
(* Proofs about several processes of one group over one table, for any     *)
(* number of processes, trades, crashes, rebalances, expired trades,       *)
(* changes of leadership and errors: type correctness, that a row counts a *)
(* trade twice only when a deduper has forgotten it, and that the stored   *)
(* offset passes no trade that no process has handled.                     *)
(***************************************************************************)
EXTENDS Cluster, FiniteSetTheorems, SequenceTheorems, WellFoundedInduction, TLAPS

(* A set of natural numbers that is not empty has a least element. *)
LEMMA LeastNatural ==
    ASSUME NEW S \in SUBSET Nat, S # {}
    PROVE  \E n \in S : \A m \in S : n <= m
<1>1. PICK n \in S : \A m \in S : ~(<<m, n>> \in OpToRel(<, Nat))
  BY NatLessThanWellFounded, WFMin
<1>2. \A m \in S : ~(m < n)
  BY <1>1 DEF OpToRel
<1> QED BY <1>2

(* A set of natural numbers up to a bound that is not empty has a greatest
   element. *)
LEMMA GreatestNatural ==
    ASSUME NEW S, NEW b \in Nat, S \subseteq 1..b, S # {}
    PROVE  \E n \in S : \A m \in S : m <= n
<1> DEFINE T == {b - n : n \in S}
<1>1. T \in SUBSET Nat /\ T # {}
  <2>1. \A n \in S : b - n \in Nat
    OBVIOUS
  <2> QED BY <2>1
<1>2. PICK d \in T : \A e \in T : d <= e
  BY <1>1, LeastNatural
<1>3. PICK n \in S : d = b - n
  BY <1>2
<1>4. ASSUME NEW m \in S PROVE m <= n
  <2>1. b - m \in T
    OBVIOUS
  <2> QED BY <1>2, <1>3, <2>1
<1> QED BY <1>4

-----------------------------------------------------------------------------
(* What the operators return *)

(* What the committer takes for contiguous has been signalled. *)
LEMMA HighestContiguousProperties ==
    ASSUME NEW p \in Procs, NEW e \in 0..NumTrades, signalled[p] \subseteq 1..e
    PROVE  /\ HighestContiguous(p) \in 0..e
           /\ 1..HighestContiguous(p) \subseteq signalled[p]
<1> USE ClusterAssumption
<1> DEFINE Good(n) == 1..n \subseteq signalled[p] /\ n + 1 \notin signalled[p]
           Gaps == {n \in 0..NumTrades : n + 1 \notin signalled[p]}
<1>1. Gaps \in SUBSET Nat /\ e \in Gaps
  OBVIOUS
<1>2. PICK n \in Gaps : \A m \in Gaps : n <= m
  BY <1>1, LeastNatural
<1>3. Good(n)
  <2>1. ASSUME NEW i \in 1..n PROVE i \in signalled[p]
    <3>1. i - 1 \in 0..NumTrades /\ ~(n <= i - 1) /\ (i - 1) + 1 = i
      OBVIOUS
    <3> QED BY <1>2, <3>1
  <2> QED BY <2>1
<1>4. HighestContiguous(p) \in 0..NumTrades /\ Good(HighestContiguous(p))
  BY <1>2, <1>3 DEF HighestContiguous
<1>5. HighestContiguous(p) <= e
  <2> DEFINE h == HighestContiguous(p)
  <2>1. ASSUME h > e PROVE FALSE
    <3>1. h \in 1..h
      BY <1>4, <2>1
    <3> QED BY <1>4, <2>1, <3>1
  <2> HIDE DEF h
  <2> QED BY <1>4, <2>1
<1> QED BY <1>4, <1>5

(* A row after a save is what it was, or the trades of a kline that is saved. *)
LEMMA ReplacedProperties ==
    ASSUME NEW p \in Procs, NEW ks, klines[p] \in Seq(Kline), ks \subseteq DOMAIN klines[p],
           NEW w \in Windows
    PROVE  \/ Replaced(p, ks)[w] = rows[w]
           \/ \E k \in ks : /\ klines[p][k].w = w
                            /\ Replaced(p, ks)[w] = klines[p][k].trades
<1> DEFINE Of == {k \in ks : klines[p][k].w = w}
           Last(k) == /\ klines[p][k].w = w
                      /\ \A l \in ks : klines[p][l].w = w => l <= k
<1>1. CASE Of = {}
  <2>1. ~\E k \in ks : klines[p][k].w = w
    BY <1>1
  <2> QED BY <2>1 DEF Replaced
<1>2. CASE Of # {}
  <2>1. Len(klines[p]) \in Nat /\ DOMAIN klines[p] = 1..Len(klines[p])
    OBVIOUS
  <2>2. PICK k \in Of : \A l \in Of : l <= k
    BY <1>2, <2>1, GreatestNatural
  <2>3. k \in ks /\ Last(k)
    BY <2>2
  <2> DEFINE last == CHOOSE k_1 \in ks : Last(k_1)
  <2>4. last \in ks /\ Last(last)
    BY <2>3
  <2>5. Replaced(p, ks)[w] = klines[p][last].trades
    BY <2>3 DEF Replaced
  <2> HIDE DEF last
  <2> QED BY <2>4, <2>5
<1> QED BY <1>1, <1>2

(* The parts of a kline, and of one whose trades have changed. *)
LEMMA KlineParts ==
    ASSUME NEW k \in Kline
    PROVE  k.w \in Windows /\ k.trades \in Seq(Trades)
  BY DEF Kline

LEMMA KlineChanged ==
    ASSUME NEW k \in Kline, NEW ts \in Seq(Trades)
    PROVE  /\ [k EXCEPT !.trades = ts] \in Kline
           /\ [k EXCEPT !.trades = ts].trades = ts
           /\ [k EXCEPT !.trades = ts].w = k.w
<1> DEFINE S == Seq(Trades)
<1>1. k \in [w : Windows, trades : S] /\ ts \in S
  BY DEF Kline
<1> HIDE DEF S
<1>2. /\ [k EXCEPT !.trades = ts] \in [w : Windows, trades : S]
      /\ [k EXCEPT !.trades = ts].trades = ts
      /\ [k EXCEPT !.trades = ts].w = k.w
  BY <1>1
<1> QED BY <1>2 DEF S, Kline

(* A trade is added to the open kline when that is of its window, else to a new
   one. *)
LEMMA AddedForms ==
    ASSUME NEW p \in Procs, NEW t \in Trades, klines[p] \in Seq(Kline)
    PROVE  /\ Added(p, t) \in Seq(Kline)
           /\ \/ /\ Len(klines[p]) \in 1..Len(klines[p])
                 /\ klines[p][Len(klines[p])].w = Window[t]
                 /\ Len(Added(p, t)) = Len(klines[p])
                 /\ \A i \in 1..Len(klines[p]) :
                       i # Len(klines[p]) => Added(p, t)[i] = klines[p][i]
                 /\ Added(p, t)[Len(klines[p])].w = Window[t]
                 /\ Added(p, t)[Len(klines[p])].trades
                       = Append(klines[p][Len(klines[p])].trades, t)
              \/ /\ HasOpen(p) => klines[p][Len(klines[p])].w # Window[t]
                 /\ Len(Added(p, t)) = Len(klines[p]) + 1
                 /\ \A i \in 1..Len(klines[p]) : Added(p, t)[i] = klines[p][i]
                 /\ Added(p, t)[Len(klines[p]) + 1].w = Window[t]
                 /\ Added(p, t)[Len(klines[p]) + 1].trades = <<t>>
<1> DEFINE ks == klines[p]
           last == ks[Len(ks)]
           longer == [last EXCEPT !.trades = Append(@, t)]
           fresh == [w |-> Window[t], trades |-> <<t>>]
<1>1. CASE HasOpen(p) /\ ks[OpenOf(p)].w = Window[t]
  <2>1. Len(ks) \in 1..Len(ks) /\ last.w = Window[t]
    BY <1>1 DEF HasOpen, OpenOf
  <2>2. last \in Kline
    BY <2>1
  <2>3. longer \in Kline /\ longer.trades = Append(last.trades, t) /\ longer.w = last.w
    <3>1. Append(last.trades, t) \in Seq(Trades)
      BY <2>2, KlineParts, AppendProperties
    <3> QED BY <2>2, <3>1, KlineChanged
  <2>4. Added(p, t) = [ks EXCEPT ![Len(ks)] = longer]
    BY <1>1 DEF Added, OpenOf
  <2> HIDE DEF longer, last
  <2>5. /\ Added(p, t) \in Seq(Kline)
        /\ Len(Added(p, t)) = Len(ks)
        /\ \A i \in 1..Len(ks) : Added(p, t)[i] = IF i = Len(ks) THEN longer ELSE ks[i]
    BY <2>1, <2>3, <2>4, ExceptSeq
  <2> QED BY <2>1, <2>3, <2>5 DEF last
<1>2. CASE ~(HasOpen(p) /\ ks[OpenOf(p)].w = Window[t])
  <2>1. fresh \in Kline /\ fresh.trades = <<t>> /\ fresh.w = Window[t]
    BY DEF Kline, Windows
  <2>2. Added(p, t) = Append(ks, fresh)
    BY <1>2 DEF Added
  <2> HIDE DEF fresh
  <2>3. /\ Added(p, t) \in Seq(Kline)
        /\ Len(Added(p, t)) = Len(ks) + 1
        /\ \A i \in 1..Len(ks) : Added(p, t)[i] = ks[i]
        /\ Added(p, t)[Len(ks) + 1] = fresh
    BY <2>1, <2>2, AppendProperties
  <2> QED BY <1>2, <2>1, <2>3 DEF OpenOf
<1> QED BY <1>1, <1>2

(* A trade is added to the open kline or to a new one; no other changes. *)
LEMMA AddedProperties ==
    ASSUME NEW p \in Procs, NEW t \in Trades, klines[p] \in Seq(Kline)
    PROVE  /\ Added(p, t) \in Seq(Kline)
           /\ Len(klines[p]) <= Len(Added(p, t))
           /\ \A k \in DOMAIN Added(p, t) :
                 \/ k \in DOMAIN klines[p] /\ Added(p, t)[k] = klines[p][k]
                 \/ /\ k \in DOMAIN klines[p]
                    /\ Added(p, t)[k].trades = Append(klines[p][k].trades, t)
                 \/ Added(p, t)[k].trades = <<t>>
<1>1. Len(klines[p]) \in Nat /\ DOMAIN klines[p] = 1..Len(klines[p])
  OBVIOUS
<1>2. /\ Added(p, t) \in Seq(Kline)
      /\ DOMAIN Added(p, t) = 1..Len(Added(p, t))
  BY AddedForms
<1> QED BY <1>1, <1>2, AddedForms

-----------------------------------------------------------------------------
(* Type correctness *)

(* The types hold initially. *)
LEMMA InitType == Init => TypeOK
<1> SUFFICES ASSUME Init PROVE TypeOK
  OBVIOUS
<1>1. /\ groupOffset \in -1..0 /\ 0 \in 0..NumTrades
      /\ tasks \in [Procs -> Seq(1..0)]
      /\ seen \in [Procs -> SUBSET (1..0)] /\ signalled \in [Procs -> SUBSET (1..0)]
      /\ committed \in [Procs -> 0..0]
  BY ClusterAssumption DEF Init
<1>2. /\ klines \in [Procs -> Seq(Kline)]
      /\ done \in [Procs -> SUBSET Nat] /\ batch \in [Procs -> SUBSET SUBSET Nat]
      /\ \A p \in Procs : done[p] \cup UNION batch[p] \subseteq DOMAIN klines[p]
      /\ rows \in [Windows -> Seq(Trades)]
  BY DEF Init
<1>3. leader \subseteq Procs /\ faults \in 0..MaxFaults
  BY ClusterAssumption DEF Init
<1> QED BY <1>1, <1>2, <1>3 DEF Init, TypeOK

(* One more fault is within the bound. *)
LEMMA FaultType == TypeOK /\ Fault => faults' \in 0..MaxFaults
  BY ClusterAssumption DEF Fault, TypeOK

(* A restart leaves all but the rows well typed. *)
LEMMA RestartType ==
    ASSUME TypeOK, NEW p \in Procs, Restart(p), rows' \in [Windows -> Seq(Trades)]
    PROVE  TypeOK'
<1>1. owner' \in Procs /\ position' \in 0..logEnd
  BY DEF Restart, Assign, JoinPosition, TypeOK
<1>2. /\ reading' \in [Procs -> BOOLEAN] /\ stuck' \in [Procs -> BOOLEAN]
      /\ tasks' \in [Procs -> Seq(1..logEnd)]
      /\ seen' \in [Procs -> SUBSET (1..logEnd)]
      /\ signalled' \in [Procs -> SUBSET (1..logEnd)]
      /\ committed' \in [Procs -> 0..logEnd]
  BY DEF Restart, TypeOK
<1>3. /\ klines' \in [Procs -> Seq(Kline)]
      /\ done' \in [Procs -> SUBSET Nat] /\ batch' \in [Procs -> SUBSET SUBSET Nat]
  BY DEF Restart, TypeOK
<1>4. ASSUME NEW q \in Procs PROVE done'[q] \cup UNION batch'[q] \subseteq DOMAIN klines'[q]
  <2>1. CASE q = p
    BY <2>1 DEF Restart, TypeOK
  <2>2. CASE q # p
    <3>1. done'[q] = done[q] /\ batch'[q] = batch[q] /\ klines'[q] = klines[q]
      BY <2>2 DEF Restart, TypeOK
    <3> QED BY <3>1 DEF TypeOK
  <2> QED BY <2>1, <2>2
<1>5. faults' \in 0..MaxFaults
  BY FaultType DEF Restart
<1> QED BY <1>1, <1>2, <1>3, <1>4, <1>5 DEF Restart, TypeOK, history

(* Saved rows are sequences of trades. *)
LEMMA ReplacedType ==
    ASSUME TypeOK, NEW p \in Procs, NEW ks, ks \subseteq DOMAIN klines[p]
    PROVE  Replaced(p, ks) \in [Windows -> Seq(Trades)]
<1>1. klines[p] \in Seq(Kline)
  BY DEF TypeOK
<1>2. \A k \in ks : klines[p][k].trades \in Seq(Trades)
  BY <1>1, KlineParts
<1>3. ASSUME NEW w \in Windows PROVE Replaced(p, ks)[w] \in Seq(Trades)
  <2>1. rows[w] \in Seq(Trades)
    BY DEF TypeOK
  <2> QED BY <1>1, <1>2, <2>1, ReplacedProperties
<1>4. Replaced(p, ks) = [w \in Windows |-> Replaced(p, ks)[w]]
  BY DEF Replaced
<1> QED BY <1>3, <1>4

(* The entries of a batch hold klines that exist. *)
LEMMA EntriesExist ==
    ASSUME TypeOK, NEW p \in Procs, HasOpen(p)
    PROVE  /\ OpenOf(p) \in DOMAIN klines[p]
           /\ Entries(p) \subseteq SUBSET Nat
           /\ UNION Entries(p) \subseteq DOMAIN klines[p]
<1>1. klines[p] \in Seq(Kline) /\ done[p] \subseteq DOMAIN klines[p]
  BY DEF TypeOK
<1>2. OpenOf(p) \in DOMAIN klines[p] /\ DOMAIN klines[p] \subseteq Nat
  BY <1>1 DEF HasOpen, OpenOf
<1> QED BY <1>1, <1>2 DEF Entries

LEMMA SomeEntries ==
    ASSUME NEW S, NEW T, S \subseteq T
    PROVE  UNION S \subseteq UNION T
  OBVIOUS

(* A worker takes the first of the queued trades. *)
LEMMA TakeOutcome ==
    ASSUME TypeOK, NEW p \in Procs, Take(p)
    PROVE  /\ Head(tasks[p]) \in 1..logEnd /\ Head(tasks[p]) \in Trades
           /\ tasks' \in [Procs -> Seq(1..logEnd)]
           /\ seen' = [seen EXCEPT ![p] = @ \cup {Head(tasks[p])}]
           /\ seen' \in [Procs -> SUBSET (1..logEnd)]
           /\ UNCHANGED <<broker, reading, committed, batch, leader, rows, faults, forgotten>>
<1>1. tasks[p] \in Seq(1..logEnd) /\ tasks[p] # <<>>
  BY DEF Take, TypeOK
<1>2. Head(tasks[p]) \in 1..logEnd /\ Tail(tasks[p]) \in Seq(1..logEnd)
  BY <1>1, HeadTailProperties
<1>3. Head(tasks[p]) \in Trades
  BY <1>2, ClusterAssumption DEF Trades, TypeOK
<1>4. tasks' \in [Procs -> Seq(1..logEnd)] /\ seen' \in [Procs -> SUBSET (1..logEnd)]
  BY <1>2 DEF Take, TypeOK
<1> QED BY <1>2, <1>3, <1>4 DEF Take

LEMMA SignalType ==
    ASSUME TypeOK, NEW p \in Procs, Head(tasks[p]) \in 1..logEnd, Signal(p)
    PROVE  signalled' \in [Procs -> SUBSET (1..logEnd)]
  BY DEF Signal, TypeOK

(* Dropping a trade, and being stuck in recovery, keep the types. *)
LEMMA DropType ==
    ASSUME TypeOK, NEW p \in Procs, Drop(p) \/ Recover(p)
    PROVE  TypeOK'
<1>1. Take(p)
  BY DEF Drop, Recover
<1>2. /\ tasks' \in [Procs -> Seq(1..logEnd)] /\ seen' \in [Procs -> SUBSET (1..logEnd)]
      /\ Head(tasks[p]) \in 1..logEnd
      /\ UNCHANGED <<broker, reading, committed, batch, leader, rows, faults, forgotten>>
  BY <1>1, TakeOutcome
<1>3. signalled' \in [Procs -> SUBSET (1..logEnd)] /\ stuck' \in [Procs -> BOOLEAN]
  <2>1. CASE Drop(p)
    BY <1>2, <2>1, SignalType DEF Drop, TypeOK
  <2>2. CASE Recover(p)
    BY <2>2 DEF Recover, TypeOK
  <2> QED BY <2>1, <2>2
<1>4. UNCHANGED <<klines, done, handled>>
  BY DEF Drop, Recover
<1> QED BY <1>2, <1>3, <1>4 DEF TypeOK, broker

(* Handling a trade keeps the types. *)
LEMMA HandleType ==
    ASSUME TypeOK, NEW p \in Procs, Handle(p)
    PROVE  TypeOK'
<1> DEFINE t == Head(tasks[p])
<1>1. /\ t \in Trades /\ t \in 1..logEnd
      /\ tasks' \in [Procs -> Seq(1..logEnd)] /\ seen' \in [Procs -> SUBSET (1..logEnd)]
      /\ UNCHANGED <<broker, reading, committed, batch, leader, rows, faults, forgotten>>
  BY TakeOutcome DEF Handle
<1>2. klines[p] \in Seq(Kline)
  BY DEF TypeOK
<1>3. klines' = [klines EXCEPT ![p] = Added(p, t)] /\ UNCHANGED stuck
  BY DEF Handle
<1>4. signalled' \in [Procs -> SUBSET (1..logEnd)] /\ handled' \subseteq 1..logEnd
  BY <1>1, SignalType DEF Handle, TypeOK
<1>5. klines' \in [Procs -> Seq(Kline)]
  BY <1>1, <1>2, <1>3, AddedProperties DEF TypeOK
<1>6. OpenOf(p) \in Nat /\ (HasOpen(p) => OpenOf(p) \in DOMAIN klines[p])
  BY <1>2 DEF OpenOf, HasOpen
<1>7. /\ done' \in [Procs -> SUBSET Nat]
      /\ done'[p] \subseteq done[p] \cup (IF HasOpen(p) THEN {OpenOf(p)} ELSE {})
      /\ \A q \in Procs \ {p} : done'[q] = done[q]
  <2>1. done \in [Procs -> SUBSET Nat]
    BY DEF TypeOK
  <2>2. CASE done' = done
    BY <2>1, <2>2
  <2>3. CASE HasOpen(p) /\ done' = [done EXCEPT ![p] = @ \cup {OpenOf(p)}]
    BY <1>6, <2>1, <2>3
  <2> QED BY <2>2, <2>3 DEF Handle
<1>8. ASSUME NEW q \in Procs PROVE done'[q] \cup UNION batch'[q] \subseteq DOMAIN klines'[q]
  <2>1. done[q] \cup UNION batch[q] \subseteq DOMAIN klines[q] /\ batch' = batch
    BY <1>1 DEF TypeOK
  <2>2. CASE q = p
    <3>1. klines'[p] = Added(p, t)
      BY <1>3 DEF TypeOK
    <3>2. DOMAIN klines[p] \subseteq DOMAIN klines'[p]
      BY <1>1, <1>2, <3>1, AddedProperties
    <3> QED BY <1>6, <1>7, <2>1, <2>2, <3>2
  <2>3. CASE q # p
    <3>1. klines'[q] = klines[q]
      BY <1>3, <2>3 DEF TypeOK
    <3> QED BY <1>7, <2>1, <2>3, <3>1
  <2> QED BY <2>2, <2>3
<1> QED BY <1>1, <1>3, <1>4, <1>5, <1>7, <1>8 DEF TypeOK, broker

(* Every step keeps the types. *)
LEMMA NextType == TypeOK /\ [Next]_vars => TypeOK'
<1> SUFFICES ASSUME TypeOK, [Next]_vars PROVE TypeOK'
  OBVIOUS
<1> USE ClusterAssumption
<1>1. ASSUME Produce PROVE TypeOK'
  <2>1. /\ logEnd' \in 0..NumTrades /\ logEnd <= logEnd' /\ logEnd \in Nat
        /\ groupOffset \in -1..logEnd' /\ position \in 0..logEnd'
    BY <1>1 DEF Produce, TypeOK
  <2>2. /\ tasks \in [Procs -> Seq(1..logEnd')]
        /\ seen \in [Procs -> SUBSET (1..logEnd')]
        /\ signalled \in [Procs -> SUBSET (1..logEnd')]
        /\ committed \in [Procs -> 0..logEnd']
        /\ handled \subseteq 1..logEnd' /\ forgotten \subseteq 1..logEnd'
    <3>1. 1..logEnd \subseteq 1..logEnd' /\ 0..logEnd \subseteq 0..logEnd'
      BY <2>1
    <3>2. tasks \in [Procs -> Seq(1..logEnd')]
      <4> DEFINE S == 1..logEnd
                 T == 1..logEnd'
      <4>1. \A q \in Procs : tasks[q] \in Seq(S)
        BY DEF TypeOK
      <4>2. S \subseteq T
        BY <3>1
      <4> HIDE DEF S, T
      <4>3. \A q \in Procs : tasks[q] \in Seq(T)
        BY <4>1, <4>2
      <4> QED BY <4>3 DEF TypeOK, T
    <3> QED BY <3>1, <3>2 DEF TypeOK
  <2> QED BY <1>1, <2>1, <2>2 DEF Produce, TypeOK, process, worker, history
<1>2. ASSUME NEW p \in Procs, Handle(p) PROVE TypeOK'
  BY <1>2, HandleType
<1>12. ASSUME NEW p \in Procs, Drop(p) \/ Recover(p) PROVE TypeOK'
  BY <1>12, DropType
<1>13. ASSUME NEW p \in Procs, Fetch(p) PROVE TypeOK'
  <2>1. position + 1 \in 1..logEnd /\ position' \in 0..logEnd
    BY <1>13 DEF Fetch, TypeOK
  <2>2. tasks' \in [Procs -> Seq(1..logEnd)]
    BY <1>13, <2>1, AppendProperties DEF Fetch, TypeOK
  <2> QED BY <1>13, <2>1, <2>2 DEF Fetch, TypeOK, history
<1>14. ASSUME NEW p \in Procs, NEW t \in seen[p], Expire(p, t) PROVE TypeOK'
  <2>1. /\ seen' \in [Procs -> SUBSET (1..logEnd)]
        /\ forgotten' \subseteq 1..logEnd /\ faults' \in 0..MaxFaults
    BY <1>14, FaultType DEF Expire, TypeOK
  <2> QED BY <1>14, <2>1 DEF Expire, TypeOK, broker
<1>3. ASSUME NEW p \in Procs, Commit(p) PROVE TypeOK'
  <2>1. HighestContiguous(p) \in 0..logEnd
    BY HighestContiguousProperties DEF TypeOK
  <2>2. committed' \in [Procs -> 0..logEnd] /\ groupOffset' \in -1..logEnd
    BY <1>3, <2>1 DEF Commit, TypeOK
  <2> QED BY <1>3, <2>2 DEF Commit, TypeOK, worker, history
<1>4. ASSUME NEW p \in Procs, FetchError(p) PROVE TypeOK'
  <2>1. /\ tasks' \in [Procs -> Seq(1..logEnd)] /\ reading' \in [Procs -> BOOLEAN]
        /\ faults' \in 0..MaxFaults
    BY <1>4, FaultType DEF FetchError, TypeOK
  <2> QED BY <1>4, <2>1 DEF FetchError, TypeOK, broker, history
<1>5. ASSUME NEW p \in Procs, Collect(p) PROVE TypeOK'
  <2>1. Entries(p) \subseteq SUBSET Nat /\ UNION Entries(p) \subseteq DOMAIN klines[p]
    BY <1>5, EntriesExist DEF Collect
  <2>2. done' \in [Procs -> SUBSET Nat] /\ batch' \in [Procs -> SUBSET SUBSET Nat]
    BY <1>5, <2>1 DEF Collect, TypeOK
  <2>3. ASSUME NEW q \in Procs PROVE done'[q] \cup UNION batch'[q] \subseteq DOMAIN klines'[q]
    BY <1>5, <2>1 DEF Collect, TypeOK
  <2> QED BY <1>5, <2>2, <2>3 DEF Collect, TypeOK, broker, history
<1>6. ASSUME NEW p \in Procs, NEW entry \in batch[p], Save(p, entry) PROVE TypeOK'
  <2>1. rows' \in [Windows -> Seq(Trades)]
    <3>1. rows \in [Windows -> Seq(Trades)] /\ entry \subseteq DOMAIN klines[p]
      BY DEF TypeOK
    <3>2. Replaced(p, entry) \in [Windows -> Seq(Trades)]
      BY <3>1, ReplacedType
    <3> QED BY <1>6, <3>1, <3>2 DEF Save
  <2>2. batch' \in [Procs -> SUBSET SUBSET Nat]
    BY <1>6 DEF Save, TypeOK
  <2>3. ASSUME NEW q \in Procs PROVE done'[q] \cup UNION batch'[q] \subseteq DOMAIN klines'[q]
    BY <1>6 DEF Save, TypeOK, worker
  <2> QED BY <1>6, <2>1, <2>2, <2>3 DEF Save, TypeOK, broker, worker, history
<1>7. ASSUME NEW p \in Procs, Rebalance(p) PROVE TypeOK'
  <2>1. owner' \in Procs /\ position' \in 0..logEnd
    BY <1>7 DEF Rebalance, Assign, JoinPosition, TypeOK
  <2>2. faults' \in 0..MaxFaults
    BY <1>7, FaultType DEF Rebalance
  <2> QED BY <1>7, <2>1, <2>2 DEF Rebalance, TypeOK, process, worker, history
<1>8. ASSUME NEW p \in Procs, Crash(p) PROVE TypeOK'
  BY <1>8, RestartType DEF Crash, TypeOK
<1>9. ASSUME NEW p \in Procs, Shutdown(p) PROVE TypeOK'
  <2>1. CASE p \in leader /\ HasOpen(p)
    <3>1. PICK saved \in SUBSET Entries(p) : rows' = Replaced(p, UNION saved)
      BY <1>9, <2>1 DEF Shutdown
    <3>2. UNION saved \subseteq UNION Entries(p)
      BY SomeEntries
    <3>3. UNION saved \subseteq DOMAIN klines[p]
      BY <2>1, <3>2, EntriesExist
    <3>4. rows' \in [Windows -> Seq(Trades)]
      BY <3>1, <3>3, ReplacedType
    <3> QED BY <1>9, <3>4, RestartType DEF Shutdown
  <2>2. CASE ~(p \in leader /\ HasOpen(p))
    BY <1>9, <2>2, RestartType DEF Shutdown, TypeOK
  <2> QED BY <2>1, <2>2
<1>10. ASSUME NEW p \in Procs, ChangeLeader(p) PROVE TypeOK'
  <2>1. leader' \subseteq Procs /\ faults' \in 0..MaxFaults
    BY <1>10, FaultType DEF ChangeLeader, TypeOK
  <2> QED BY <1>10, <2>1 DEF ChangeLeader, TypeOK, broker, process, worker, history
<1>11. ASSUME UNCHANGED vars PROVE TypeOK'
  BY <1>11 DEF vars, TypeOK, broker, process, worker, history
<1> QED BY <1>1, <1>2, <1>3, <1>4, <1>5, <1>6, <1>7, <1>8, <1>9, <1>10, <1>11, <1>12, <1>13,
           <1>14 DEF Next

(* The processes, the broker and the rows have their types in every reachable
   state, for any number of processes, trades and faults: no offset is beyond
   the end of the log, and buffers and batches hold klines that exist. *)
THEOREM TypeCorrect == Spec => []TypeOK
<1> QED BY InitType, NextType, PTL DEF Spec

-----------------------------------------------------------------------------
(* The stored offset *)

(* A trade that a deduper knows has been handled, unless the worker is stuck in
   recovery with it; so the signalled ones are, and the offsets the committer
   stores, whoever owns the partition by then, pass handled trades only. *)
HandledInv ==
    /\ TypeOK
    /\ \A p \in Procs : /\ stuck[p] \/ seen[p] \subseteq handled
                       /\ signalled[p] \subseteq handled
    /\ CommittedHandled

LEMMA NextHandled == HandledInv /\ [Next]_vars => HandledInv'
<1> SUFFICES ASSUME HandledInv, [Next]_vars PROVE HandledInv'
  OBVIOUS
<1> USE ClusterAssumption
<1>0. /\ TypeOK /\ TypeOK' /\ CommittedHandled
      /\ \A p \in Procs : /\ stuck[p] \/ seen[p] \subseteq handled
                         /\ signalled[p] \subseteq handled
  BY NextType DEF HandledInv
<1>1. ASSUME groupOffset' = groupOffset, handled \subseteq handled'
      PROVE  CommittedHandled'
  BY <1>0, <1>1 DEF CommittedHandled
<1>2. ASSUME NEW p \in Procs,
             \A q \in Procs \ {p} : /\ stuck'[q] = stuck[q] /\ seen'[q] = seen[q]
                                   /\ signalled'[q] = signalled[q],
             handled \subseteq handled', groupOffset' = groupOffset,
             stuck'[p] \/ seen'[p] \subseteq handled', signalled'[p] \subseteq handled'
      PROVE  HandledInv'
  <2>1. ASSUME NEW q \in Procs
        PROVE  (stuck'[q] \/ seen'[q] \subseteq handled') /\ signalled'[q] \subseteq handled'
    <3>1. CASE q = p
      BY <1>2, <3>1
    <3>2. CASE q # p
      BY <1>0, <1>2, <3>2
    <3> QED BY <3>1, <3>2
  <2> QED BY <1>0, <1>1, <1>2, <2>1 DEF HandledInv
<1>3. ASSUME NEW p \in Procs, Drop(p) \/ Recover(p) \/ Handle(p) PROVE HandledInv'
  <2> DEFINE t == Head(tasks[p])
  <2>1. /\ Take(p) /\ ~stuck[p] /\ seen' = [seen EXCEPT ![p] = @ \cup {t}]
        /\ groupOffset' = groupOffset
    BY <1>3 DEF Drop, Recover, Handle, Take, broker
  <2>2. seen[p] \subseteq handled /\ signalled[p] \subseteq handled
    BY <1>0, <2>1
  <2>3. CASE Drop(p)
    <3>1. UNCHANGED <<stuck, handled>> /\ signalled' = [signalled EXCEPT ![p] = @ \cup {t}]
      BY <2>3 DEF Drop, Signal
    <3>2. t \in handled
      BY <2>2, <2>3 DEF Drop, Known
    <3>3. /\ \A q \in Procs \ {p} : /\ stuck'[q] = stuck[q] /\ seen'[q] = seen[q]
                                   /\ signalled'[q] = signalled[q]
          /\ stuck'[p] \/ seen'[p] \subseteq handled'
          /\ signalled'[p] \subseteq handled' /\ handled \subseteq handled'
      BY <1>0, <2>1, <2>2, <3>1, <3>2 DEF TypeOK
    <3> QED BY <1>2, <2>1, <3>3
  <2>4. CASE Recover(p)
    <3>1. /\ stuck' = [stuck EXCEPT ![p] = TRUE]
          /\ UNCHANGED <<signalled, handled>>
      BY <2>4 DEF Recover
    <3>2. /\ \A q \in Procs \ {p} : /\ stuck'[q] = stuck[q] /\ seen'[q] = seen[q]
                                   /\ signalled'[q] = signalled[q]
          /\ stuck'[p] \/ seen'[p] \subseteq handled'
          /\ signalled'[p] \subseteq handled' /\ handled \subseteq handled'
      BY <1>0, <2>1, <2>2, <3>1 DEF TypeOK
    <3> QED BY <1>2, <2>1, <3>2
  <2>5. CASE Handle(p)
    <3>1. /\ UNCHANGED stuck /\ signalled' = [signalled EXCEPT ![p] = @ \cup {t}]
          /\ handled' = handled \cup {t}
      BY <2>5 DEF Handle, Signal
    <3>2. /\ \A q \in Procs \ {p} : /\ stuck'[q] = stuck[q] /\ seen'[q] = seen[q]
                                   /\ signalled'[q] = signalled[q]
          /\ stuck'[p] \/ seen'[p] \subseteq handled'
          /\ signalled'[p] \subseteq handled' /\ handled \subseteq handled'
      BY <1>0, <2>1, <2>2, <3>1 DEF TypeOK
    <3> QED BY <1>2, <2>1, <3>2
  <2> QED BY <1>3, <2>3, <2>4, <2>5
<1>4. ASSUME NEW p \in Procs, Commit(p) PROVE HandledInv'
  <2>1. 1..HighestContiguous(p) \subseteq signalled[p]
    BY <1>0, HighestContiguousProperties DEF TypeOK
  <2>2. CommittedHandled'
    BY <1>0, <1>4, <2>1 DEF Commit, CommittedHandled, history
  <2>3. UNCHANGED <<stuck, seen, signalled, handled>>
    BY <1>4 DEF Commit, worker, history
  <2> QED BY <1>0, <2>2, <2>3 DEF HandledInv
<1>5. ASSUME NEW p \in Procs, Restart(p) PROVE HandledInv'
  <2>1. /\ stuck' = [stuck EXCEPT ![p] = FALSE]
        /\ seen' = [seen EXCEPT ![p] = {}] /\ signalled' = [signalled EXCEPT ![p] = {}]
        /\ handled' = handled /\ groupOffset' = groupOffset
    BY <1>5 DEF Restart, history
  <2>2. /\ \A q \in Procs \ {p} : /\ stuck'[q] = stuck[q] /\ seen'[q] = seen[q]
                                 /\ signalled'[q] = signalled[q]
        /\ stuck'[p] \/ seen'[p] \subseteq handled'
        /\ signalled'[p] \subseteq handled' /\ handled \subseteq handled'
    BY <1>0, <2>1 DEF TypeOK
  <2> QED BY <1>2, <2>1, <2>2
<1>6. ASSUME UNCHANGED <<groupOffset, stuck, seen, signalled, handled>> PROVE HandledInv'
  BY <1>0, <1>6 DEF HandledInv, CommittedHandled
<1>7. CASE UNCHANGED vars
  BY <1>6, <1>7 DEF vars, broker, process, worker, history
<1>8. CASE Produce
  BY <1>6, <1>8 DEF Produce, process, worker, history
<1>9. ASSUME NEW p \in Procs,
             \/ Fetch(p) \/ FetchError(p) \/ Collect(p)
             \/ (\E entry \in batch[p] : Save(p, entry))
             \/ Rebalance(p) \/ ChangeLeader(p)
      PROVE  HandledInv'
  BY <1>6, <1>9 DEF Fetch, FetchError, Collect, Save, Rebalance, ChangeLeader, broker, process,
                    worker, history
<1>10. ASSUME NEW p \in Procs, NEW t \in seen[p], Expire(p, t) PROVE HandledInv'
  <2>1. /\ seen' = [seen EXCEPT ![p] = @ \ {t}]
        /\ UNCHANGED <<groupOffset, stuck, signalled, handled>>
    BY <1>10 DEF Expire, broker
  <2>2. stuck[p] \/ seen[p] \ {t} \subseteq handled
    BY <1>0
  <2>3. /\ \A q \in Procs \ {p} : /\ stuck'[q] = stuck[q] /\ seen'[q] = seen[q]
                                 /\ signalled'[q] = signalled[q]
        /\ stuck'[p] \/ seen'[p] \subseteq handled'
        /\ signalled'[p] \subseteq handled' /\ handled \subseteq handled'
    BY <1>0, <2>1, <2>2 DEF TypeOK
  <2> QED BY <1>2, <2>1, <2>3
<1> QED BY <1>3, <1>4, <1>5, <1>7, <1>8, <1>9, <1>10 DEF Next, Crash, Shutdown

(* The stored offset never passes a trade no process has handled, whatever
   processes crash, stop, own the partition or commit after they have lost it. *)
THEOREM CommitsPassHandledOnly == Spec => []CommittedHandled
<1>1. Init => HandledInv
  BY InitType DEF Init, HandledInv, CommittedHandled
<1>2. HandledInv => CommittedHandled
  BY DEF HandledInv
<1> QED BY <1>1, <1>2, NextHandled, PTL DEF Spec

-----------------------------------------------------------------------------
(* Rows count a trade once, or it has been forgotten *)

(* No trade is in the sequence twice but those that dedupers have forgotten. *)
Once(ts) == \A i, j \in DOMAIN ts : i # j /\ ts[i] = ts[j] => ts[i] \in forgotten

(* A process adds a trade to a kline only when its deduper does not know it, and
   from then on it does, until it forgets it. *)
KlinesOnce ==
    \A p \in Procs : \A k \in DOMAIN klines[p] :
        /\ Once(klines[p][k].trades)
        /\ Counted(klines[p][k].trades) \subseteq seen[p] \cup forgotten

CountInv == TypeOK /\ KlinesOnce /\ RowsRepeatForgotten

(* A trade added to a sequence that does not count it, or that is forgotten. *)
LEMMA OnceAppend ==
    ASSUME NEW ts \in Seq(Trades), NEW t \in Trades, Once(ts),
           t \notin Counted(ts) \/ t \in forgotten
    PROVE  /\ Once(Append(ts, t))
           /\ Counted(Append(ts, t)) = Counted(ts) \cup {t}
<1> DEFINE longer == Append(ts, t)
<1>1. /\ Len(ts) \in Nat /\ DOMAIN ts = 1..Len(ts)
      /\ DOMAIN longer = 1..Len(ts) + 1
      /\ \A i \in 1..Len(ts) : longer[i] = ts[i]
      /\ longer[Len(ts) + 1] = t
  BY AppendProperties
<1> HIDE DEF longer
<1>2. t \in forgotten \/ \A i \in 1..Len(ts) : longer[i] # t
  BY <1>1 DEF Counted
<1>3. Once(longer)
  BY <1>1, <1>2 DEF Once
<1>4. Counted(longer) = Counted(ts) \cup {t}
  <2>1. ASSUME NEW x PROVE x \in Counted(longer) <=> x \in Counted(ts) \/ x = t
    BY <1>1 DEF Counted
  <2> QED BY <2>1
<1> QED BY <1>3, <1>4 DEF longer

(* Rows that are saved count each trade as often as klines do. *)
LEMMA SavedOnce ==
    ASSUME CountInv, NEW p \in Procs, NEW ks, ks \subseteq DOMAIN klines[p],
           rows' \in {rows, Replaced(p, ks)}, UNCHANGED forgotten
    PROVE  RowsRepeatForgotten'
<1>1. ASSUME NEW w \in Windows PROVE Once(rows'[w])
  <2>1. klines[p] \in Seq(Kline) /\ Once(rows[w])
    BY DEF CountInv, TypeOK, RowsRepeatForgotten, Once
  <2>2. \A k \in ks : Once(klines[p][k].trades)
    BY DEF CountInv, KlinesOnce
  <2>3. rows'[w] = rows[w] \/ \E k \in ks : rows'[w] = klines[p][k].trades
    BY <2>1, ReplacedProperties
  <2> QED BY <2>1, <2>2, <2>3
<1> QED BY <1>1 DEF RowsRepeatForgotten, Once

(* A process that has died knows nothing and has no klines. *)
LEMMA RestartOnce ==
    ASSUME CountInv, NEW p \in Procs, Restart(p)
    PROVE  KlinesOnce' /\ UNCHANGED forgotten
<1>1. /\ klines' = [klines EXCEPT ![p] = <<>>]
      /\ seen' = [seen EXCEPT ![p] = {}]
      /\ UNCHANGED forgotten
  BY DEF Restart, history
<1> SUFFICES ASSUME NEW q \in Procs, NEW k \in DOMAIN klines'[q]
             PROVE  /\ Once(klines'[q][k].trades)
                    /\ Counted(klines'[q][k].trades) \subseteq seen'[q] \cup forgotten
  BY <1>1 DEF KlinesOnce, Once
<1>2. q # p
  BY <1>1 DEF CountInv, TypeOK
<1>3. klines'[q] = klines[q] /\ seen'[q] = seen[q]
  BY <1>1, <1>2 DEF CountInv, TypeOK
<1> QED BY <1>3 DEF CountInv, KlinesOnce

LEMMA HandleOnce ==
    ASSUME CountInv, NEW p \in Procs, Handle(p)
    PROVE  KlinesOnce'
<1> DEFINE t == Head(tasks[p])
<1>1. /\ t \in Trades /\ UNCHANGED forgotten
      /\ seen' = [seen EXCEPT ![p] = @ \cup {t}]
      /\ t \notin seen[p]
      /\ klines' = [klines EXCEPT ![p] = Added(p, t)]
  BY TakeOutcome DEF CountInv, Handle, Known
<1> SUFFICES ASSUME NEW q \in Procs, NEW k \in DOMAIN klines'[q]
             PROVE  /\ Once(klines'[q][k].trades)
                    /\ Counted(klines'[q][k].trades) \subseteq seen'[q] \cup forgotten
  BY <1>1 DEF KlinesOnce, Once
<1>2. CASE q # p
  <2>1. klines'[q] = klines[q] /\ seen'[q] = seen[q]
    BY <1>1, <1>2 DEF CountInv, TypeOK
  <2> QED BY <2>1 DEF CountInv, KlinesOnce
<1>3. CASE q = p
  <2>1. /\ klines[p] \in Seq(Kline)
        /\ klines'[p] = Added(p, t) /\ seen'[p] = seen[p] \cup {t}
    BY <1>1 DEF CountInv, TypeOK
  <2>2. \/ k \in DOMAIN klines[p] /\ klines'[p][k] = klines[p][k]
        \/ /\ k \in DOMAIN klines[p]
           /\ klines'[p][k].trades = Append(klines[p][k].trades, t)
        \/ klines'[p][k].trades = <<t>>
    BY <1>1, <1>3, <2>1, AddedProperties
  <2>3. k \in DOMAIN klines[p] =>
          /\ klines[p][k].trades \in Seq(Trades)
          /\ Once(klines[p][k].trades)
          /\ Counted(klines[p][k].trades) \subseteq seen[p] \cup forgotten
    BY <2>1, KlineParts DEF CountInv, KlinesOnce
  <2>4. Once(<<t>>) /\ Counted(<<t>>) = {t}
    BY DEF Once, Counted
  <2>5. ASSUME k \in DOMAIN klines[p]
        PROVE  /\ Once(Append(klines[p][k].trades, t))
               /\ Counted(Append(klines[p][k].trades, t)) \subseteq seen[p] \cup {t} \cup forgotten
    <3>1. t \notin Counted(klines[p][k].trades) \/ t \in forgotten
      BY <1>1, <2>3, <2>5
    <3>2. klines[p][k].trades \in Seq(Trades) /\ Once(klines[p][k].trades)
      BY <2>3, <2>5
    <3> QED BY <1>1, <2>3, <2>5, <3>1, <3>2, OnceAppend
  <2> QED BY <1>3, <2>1, <2>2, <2>3, <2>4, <2>5
<1> QED BY <1>2, <1>3

(* What a deduper forgets is in `forgotten` from then on. *)
LEMMA ExpireOnce ==
    ASSUME CountInv, NEW p \in Procs, NEW t \in seen[p], Expire(p, t)
    PROVE  KlinesOnce' /\ RowsRepeatForgotten'
<1>1. /\ klines' = klines /\ rows' = rows
      /\ seen' = [seen EXCEPT ![p] = @ \ {t}]
      /\ forgotten' = forgotten \cup {t}
  BY DEF Expire
<1>2. \A q \in Procs : seen[q] \cup forgotten \subseteq seen'[q] \cup forgotten'
  BY <1>1 DEF CountInv, TypeOK
<1> QED BY <1>1, <1>2 DEF CountInv, KlinesOnce, RowsRepeatForgotten, Once

LEMMA NextCount == CountInv /\ [Next]_vars => CountInv'
<1> SUFFICES ASSUME CountInv, [Next]_vars PROVE CountInv'
  OBVIOUS
<1>0. TypeOK /\ TypeOK' /\ KlinesOnce /\ RowsRepeatForgotten
  BY NextType DEF CountInv
<1>1. ASSUME UNCHANGED <<klines, forgotten>>, \A p \in Procs : seen[p] \subseteq seen'[p]
      PROVE  KlinesOnce'
  <2> SUFFICES ASSUME NEW p \in Procs, NEW k \in DOMAIN klines[p]
               PROVE  /\ Once(klines[p][k].trades)'
                      /\ Counted(klines[p][k].trades) \subseteq seen'[p] \cup forgotten
    BY <1>1 DEF KlinesOnce
  <2> QED BY <1>0, <1>1 DEF KlinesOnce, Once
<1>2. ASSUME UNCHANGED <<rows, forgotten>> PROVE RowsRepeatForgotten'
  BY <1>0, <1>2 DEF RowsRepeatForgotten
<1>3. ASSUME NEW p \in Procs, Handle(p) PROVE CountInv'
  <2>1. UNCHANGED <<rows, forgotten>>
    BY <1>3 DEF Handle, Take
  <2> QED BY <1>0, <1>2, <1>3, <2>1, HandleOnce DEF CountInv
<1>4. ASSUME NEW p \in Procs, NEW entry \in batch[p], Save(p, entry) PROVE CountInv'
  <2>1. /\ entry \subseteq DOMAIN klines[p] /\ rows' \in {rows, Replaced(p, entry)}
        /\ UNCHANGED <<seen, klines, forgotten>>
    BY <1>0, <1>4 DEF TypeOK, Save, worker, history
  <2> QED BY <1>0, <1>1, <2>1, SavedOnce DEF CountInv
<1>5. ASSUME NEW p \in Procs, Crash(p) PROVE CountInv'
  BY <1>0, <1>2, <1>5, RestartOnce DEF Crash, CountInv
<1>6. ASSUME NEW p \in Procs, Shutdown(p) PROVE CountInv'
  <2>0. KlinesOnce' /\ UNCHANGED forgotten
    BY <1>6, RestartOnce DEF Shutdown
  <2>1. CASE p \in leader /\ HasOpen(p)
    <3>1. PICK saved \in SUBSET Entries(p) : rows' = Replaced(p, UNION saved)
      BY <1>6, <2>1 DEF Shutdown
    <3>2. UNION saved \subseteq UNION Entries(p)
      BY SomeEntries
    <3>3. UNION saved \subseteq DOMAIN klines[p]
      BY <1>0, <2>1, <3>2, EntriesExist
    <3>4. RowsRepeatForgotten'
      BY <2>0, <3>1, <3>3, SavedOnce
    <3> QED BY <1>0, <2>0, <3>4 DEF CountInv
  <2>2. CASE ~(p \in leader /\ HasOpen(p))
    <3>1. RowsRepeatForgotten'
      BY <1>2, <1>6, <2>0, <2>2 DEF Shutdown
    <3> QED BY <1>0, <2>0, <3>1 DEF CountInv
  <2> QED BY <2>1, <2>2
<1>7. ASSUME UNCHANGED <<seen, klines, rows, forgotten>> PROVE CountInv'
  BY <1>0, <1>1, <1>2, <1>7 DEF CountInv
<1>8. CASE Produce \/ UNCHANGED vars
  BY <1>7, <1>8 DEF Produce, vars, process, worker, history
<1>9. ASSUME NEW p \in Procs,
             \/ Fetch(p) \/ Commit(p) \/ FetchError(p) \/ Collect(p) \/ Rebalance(p)
             \/ ChangeLeader(p)
      PROVE  CountInv'
  BY <1>7, <1>9 DEF Fetch, Commit, FetchError, Collect, Rebalance, ChangeLeader, process,
                    worker, history
<1>10. ASSUME NEW p \in Procs, Drop(p) \/ Recover(p) PROVE CountInv'
  <2>1. /\ UNCHANGED <<klines, rows, forgotten>>
        /\ seen' = [seen EXCEPT ![p] = @ \cup {Head(tasks[p])}]
    BY <1>10 DEF Drop, Recover, Take
  <2>2. \A q \in Procs : seen[q] \subseteq seen'[q]
    BY <1>0, <2>1 DEF TypeOK
  <2> QED BY <1>0, <1>1, <1>2, <2>1, <2>2 DEF CountInv
<1>11. ASSUME NEW p \in Procs, NEW t \in seen[p], Expire(p, t) PROVE CountInv'
  BY <1>0, <1>11, ExpireOnce DEF CountInv
<1> QED BY <1>3, <1>4, <1>5, <1>6, <1>8, <1>9, <1>10, <1>11 DEF Next

(* A row counts a trade twice only when the deduper of a process that lived on
   has forgotten it: restarts, rebalances and commits of former owners, alone or
   together, never make a row count a trade twice. *)
THEOREM RowsAreCountedOnce == Spec => []RowsRepeatForgotten
<1>1. Init => CountInv
  BY InitType DEF Init, CountInv, KlinesOnce, RowsRepeatForgotten
<1>2. CountInv => RowsRepeatForgotten
  BY DEF CountInv
<1> QED BY <1>1, <1>2, NextCount, PTL DEF Spec
=============================================================================
