------------------------------ MODULE Aggregator ------------------------------
(***************************************************************************)
(* The kline aggregator of internal/kline: the workers that add trades to  *)
(* the open buckets of a symbol under its lock, the buffer of completed    *)
(* klines, the checkpoint goroutine that saves both, recovery after a      *)
(* restart and the final flush of Close, over the kline tables.            *)
(*                                                                         *)
(* A kline is abstracted to the set of trades it counts.  Klines are heap  *)
(* objects shared by pointer between buckets, buffer and checkpoint; every *)
(* kline of the heap was made by NewKline for one interval and one trade,  *)
(* so the pair <<interval, trade>> is its address.  An interval is its     *)
(* width.  A stored row keeps prices and volumes apart, because BatchSave  *)
(* reads a live kline without its lock and may see one part updated and    *)
(* the other not.  Reading a kline and committing its row is one step.     *)
(***************************************************************************)
EXTENDS Integers, Sequences, FiniteSets

CONSTANTS
    NumTrades,  \* bound on the trades, numbered in the order of dispatch
    TradeSym,   \* the symbol of each trade
    TradeTime,  \* the timestamp of each trade
    Symbols,    \* the symbols
    Intervals,  \* the interval widths
    Workers,    \* the goroutines that call ProcessTrade
    MayFail,    \* whether a BatchSave may fail
    MayMiss,    \* whether a LoadKline may return an error
    MayStop,    \* whether the process may be told to stop
    MaxCrashes, \* bound on the restarts of the process
    MaxChanges, \* bound on the changes of leadership
    NoTrade,    \* no trade
    NoKline,    \* the nil kline
    Free        \* the state of a lock nobody holds

Trades == 1..NumTrades

ASSUME TradesAssumption ==
    /\ NumTrades \in Nat
    /\ TradeSym \in [Trades -> Symbols]
    /\ TradeTime \in [Trades -> Nat]
    /\ NoTrade \notin Trades
ASSUME IntervalsAssumption == Intervals # {} /\ Intervals \subseteq Nat \ {0}
ASSUME KlineAssumption == NoKline \notin Intervals \X Trades
ASSUME WorkersAssumption == Workers # {} /\ Free \notin Workers
ASSUME BoundAssumption ==
    /\ {MayFail, MayMiss, MayStop} \subseteq BOOLEAN
    /\ MaxCrashes \in Nat
    /\ MaxChanges \in Nat

VARIABLES
    next,      \* the trade dispatched next
    \* The workers.
    wpc,       \* per worker, the step it is at
    wtrade,    \* per worker, the trade it processes
    wclosed,   \* per worker, the klines its trade completed
    \* The aggregator.
    lock,      \* per symbol, the worker that holds symbolBuckets.mu
    data,      \* per symbol and interval, the open kline
    content,   \* the heap: per kline, the trades it counts
    completed, \* per symbol, completedBuf: the klines each closing trade completed
    leader,    \* shouldWrite
    \* The checkpoint goroutine.
    ckpc,      \* the step it is at
    tovisit,   \* the symbols whose open buckets are still to be collected
    batch,     \* the entries still to be saved
    \* The main goroutine.
    stopping,  \* the root context is cancelled
    closepc,   \* the step Close is at
    toflush,   \* the symbols whose open buckets Close has still to flush
    crashes, changes,
    \* The database.
    rows,      \* per window, the trades its row counts
    \* History.
    begun,     \* the trades an update of the buckets was begun for
    ahead,     \* those a restarted process is still to count again
    anew,      \* the windows begun anew though a kline or a row of them counts trades
    lost       \* the trades of klines that were discarded

workers    == <<wpc, wtrade, wclosed>>
buckets    == <<lock, data, content, completed>>
checkpoint == <<ckpc, tovisit, batch>>
closing    == <<stopping, closepc, toflush>>
life       == <<crashes, changes>>
history    == <<begun, ahead, anew, lost>>
vars       == <<next, workers, buckets, leader, checkpoint, closing, life, rows, history>>

-----------------------------------------------------------------------------
(* Klines, windows and rows *)

Kline == Intervals \X Trades

(* The window of an interval a trade falls into: AlignFn and the primary key. *)
Window(t, iv) == <<TradeSym[t], iv, TradeTime[t] \div iv>>
Windows == {Window(t, iv) : t \in Trades, iv \in Intervals}
WindowOf(k) == Window(k[2], k[1])
InWindow(win) == {t \in Trades : Window(t, win[2]) = win}

Row == [px : SUBSET Trades, vol : SUBSET Trades]
NoRow == [px |-> {}, vol |-> {}]

(* The open klines of a symbol. *)
Open(s) == {data[s][iv] : iv \in Intervals} \ {NoKline}

(* Current of variants: the open kline whatever its window; every bucket made
   for the interval a captured loop variable ends with. *)
CurrentOfAnyWindow(t, iv) ==
    LET k == data[TradeSym[t]][iv]
    IN  IF k # NoKline THEN k ELSE <<iv, t>>

CurrentCaptured(t, iv) == <<CHOOSE last \in Intervals : \A i \in Intervals : i <= last, t>>

(* The kline a trade is added to: the open one, when the trade falls into its
   window, or else a new one. *)
Current(t, iv) ==
    LET k == data[TradeSym[t]][iv]
    IN  IF k # NoKline /\ WindowOf(k) = Window(t, iv) THEN k ELSE <<iv, t>>

(* Closed of a variant that replaces a bucket and forgets it. *)
NoneClosed(t) == {}

(* The open klines whose window the trade closes. *)
Closed(t) == {k \in Open(TradeSym[t]) : WindowOf(k) # Window(t, k[1])}

(* The trade a worker inside updateBuckets is adding to kline k, if any. *)
Adding(k) ==
    {wtrade[w] : w \in {v \in Workers : wpc[v] = "update" /\ Current(wtrade[v], k[1]) = k}}

(* An unlocked read of one part of a kline: late says of which klines the read
   sees the trade that is being added. *)
Read(k, late) == IF k \in late THEN content[k] \cup Adding(k) ELSE content[k]

(* An entry of a batch is a sequence of sets of klines of different intervals.
   Its klines are written in order: the last of a window is the one stored. *)
KlinesOf(e) == UNION {e[i] : i \in 1..Len(e)}
LastOf(e, win) ==
    CHOOSE k \in KlinesOf(e) :
        /\ WindowOf(k) = win
        /\ \E i \in 1..Len(e) :
              /\ k \in e[i]
              /\ \A j \in (i + 1)..Len(e) : \A l \in e[j] : WindowOf(l) # win

(* The klines of an entry that a worker is just updating. *)
Racing(e) == {k \in KlinesOf(e) : Adding(k) # {}}

(* BatchSave: one transaction of REPLACEs.  seen[k] is what is read of k. *)
Replaced(e, seen) ==
    [win \in Windows |->
        IF \E k \in KlinesOf(e) : WindowOf(k) = win THEN seen[LastOf(e, win)] ELSE rows[win]]

(* completedBuf after the completed klines of one more trade. *)
Buffered(s, ks) == IF ks = {} THEN completed[s] ELSE Append(completed[s], ks)

(* Found of a variant that starts every bucket anew. *)
FoundNothing(t, failed) == {}

(* The intervals whose row recovery finds: a LoadKline that fails is taken for
   one that finds no row. *)
Found(t, failed) == {iv \in Intervals \ failed : rows[Window(t, iv)] # NoRow}

(* History: the windows with a row that recovery for trade t missed; and those
   that t, after recovery, begins a kline for although the row, which nobody has
   looked up, or another kline of this process counts trades. *)
Missed(t, failed) ==
    {Window(t, iv) : iv \in {i \in failed : rows[Window(t, i)] # NoRow}}

Reopened(t) ==
    {win \in {Window(t, iv) : iv \in Intervals} :
        /\ Open(win[1]) # {}
        /\ \A k \in Open(win[1]) : WindowOf(k) # win
        /\ \/ \E k \in Kline : WindowOf(k) = win /\ content[k] # {}
           \/ ~(rows[win].px \cup rows[win].vol \subseteq ahead)}

(* History: the trades of klines that are in no bucket, buffer or hand. *)
Discarded(ks) ==
    UNION {content[k] : k \in {l \in ks :
        /\ l \notin Open(WindowOf(l)[1])
        /\ \A w \in Workers : l \notin wclosed[w]
        /\ \A s \in Symbols : l \notin KlinesOf(completed[s])}}

-----------------------------------------------------------------------------
Init ==
    /\ next = 1
    /\ wpc = [w \in Workers |-> "idle"]
    /\ wtrade = [w \in Workers |-> NoTrade]
    /\ wclosed = [w \in Workers |-> {}]
    /\ lock = [s \in Symbols |-> Free]
    /\ data = [s \in Symbols |-> [iv \in Intervals |-> NoKline]]
    /\ content = [k \in Kline |-> {}]
    /\ completed = [s \in Symbols |-> <<>>]
    /\ leader \in (IF MaxChanges > 0 THEN BOOLEAN ELSE {TRUE})
    /\ ckpc = "idle"
    /\ tovisit = {}
    /\ batch = {}
    /\ stopping = FALSE
    /\ closepc = "none"
    /\ toflush = {}
    /\ crashes = 0
    /\ changes = 0
    /\ rows = [win \in Windows |-> NoRow]
    /\ begun = {} /\ ahead = {} /\ anew = {} /\ lost = {}

-----------------------------------------------------------------------------
(* The workers: ProcessTrade *)

(* The consumer's worker takes the next trade and calls ProcessTrade. *)
TakeTrade(w) ==
    /\ wpc[w] = "idle"
    /\ next \in Trades
    /\ next' = next + 1
    /\ wtrade' = [wtrade EXCEPT ![w] = next]
    /\ wpc' = [wpc EXCEPT ![w] = "lock"]
    /\ UNCHANGED <<wclosed, buckets, leader, checkpoint, closing, life, rows, history>>

(* sb.mu.Lock(), and recovery when the symbol has no bucket yet. *)
LockSymbol(w) ==
    /\ wpc[w] = "lock"
    /\ LET s == TradeSym[wtrade[w]]
       IN  /\ lock[s] = Free
           /\ lock' = [lock EXCEPT ![s] = w]
           /\ IF Open(s) = {}
                THEN /\ wpc' = [wpc EXCEPT ![w] = "recover"]
                     /\ UNCHANGED history
                ELSE /\ wpc' = [wpc EXCEPT ![w] = "update"]
                     /\ begun' = begun \cup {wtrade[w]}
                     /\ UNCHANGED <<ahead, anew, lost>>
    /\ UNCHANGED <<next, wtrade, wclosed, data, content, completed, leader,
                   checkpoint, closing, life, rows>>

(* recoverLocked, one LoadKline per interval.  A goroutine that finds a row
   locks sb.mu, which its caller holds while it waits for the goroutine:
   neither ever returns. *)
Recover(w, failed) ==
    /\ wpc[w] = "recover"
    /\ failed # {} => MayMiss
    /\ IF Found(wtrade[w], failed) = {}
         THEN /\ wpc' = [wpc EXCEPT ![w] = "update"]
              /\ begun' = begun \cup {wtrade[w]}
              /\ anew' = anew \cup Missed(wtrade[w], failed)
              /\ UNCHANGED <<ahead, lost>>
         ELSE /\ wpc' = [wpc EXCEPT ![w] = "stuck"]
              /\ UNCHANGED history
    /\ UNCHANGED <<next, wtrade, wclosed, buckets, leader, checkpoint, closing,
                   life, rows>>

(* The loop of updateBuckets over the intervals, and the unlock: a bucket of
   another window is completed and replaced by a new one, and the trade is
   added. *)
UpdateBuckets(w) ==
    /\ wpc[w] = "update"
    /\ LET t == wtrade[w]
           s == TradeSym[t]
       IN  /\ anew' = anew \cup Reopened(t)
           /\ ahead' = ahead \ {t}
           /\ wclosed' = [wclosed EXCEPT ![w] = Closed(t)]
           /\ data' = [data EXCEPT ![s] = [iv \in Intervals |-> Current(t, iv)]]
           /\ content' = [k \in Kline |->
                 IF k = Current(t, k[1]) THEN content[k] \cup {t} ELSE content[k]]
           /\ lock' = [lock EXCEPT ![s] = Free]
    /\ wpc' = [wpc EXCEPT ![w] = "buffer"]
    /\ UNCHANGED <<next, wtrade, completed, leader, checkpoint, closing, life,
                   rows, begun, lost>>

(* The completed klines go to the buffer, or nowhere when this instance is not
   the leader, and ProcessTrade returns. *)
BufferCompleted(w) ==
    /\ wpc[w] = "buffer"
    /\ LET s == TradeSym[wtrade[w]]
       IN  completed' =
              IF leader THEN [completed EXCEPT ![s] = Buffered(s, wclosed[w])] ELSE completed
    /\ lost' = IF leader THEN lost ELSE lost \cup UNION {content[k] : k \in wclosed[w]}
    /\ wpc' = [wpc EXCEPT ![w] = "idle"]
    /\ wtrade' = [wtrade EXCEPT ![w] = NoTrade]
    /\ wclosed' = [wclosed EXCEPT ![w] = {}]
    /\ UNCHANGED <<next, lock, data, content, leader, checkpoint, closing, life,
                   rows, begun, ahead, anew>>

-----------------------------------------------------------------------------
(* The checkpoint goroutine *)

(* A tick: the buffer is drained, unless this instance is not the leader.  A
   last tick may still be chosen when the context is already cancelled. *)
DrainCompleted ==
    /\ ckpc = "idle"
    /\ leader
    /\ batch' = {completed[s] : s \in Symbols} \ {<<>>}
    /\ completed' = [s \in Symbols |-> <<>>]
    /\ tovisit' = Symbols
    /\ ckpc' = "collect"
    /\ UNCHANGED <<next, workers, lock, data, content, leader, closing, life,
                   rows, history>>

(* Under its lock, the pointers to a symbol's open klines are collected. *)
CollectOpen(s) ==
    /\ ckpc = "collect"
    /\ s \in tovisit
    /\ lock[s] = Free
    /\ batch' = IF Open(s) = {} THEN batch ELSE batch \cup {<<Open(s)>>}
    /\ tovisit' = tovisit \ {s}
    /\ ckpc' = IF tovisit' = {} THEN "save" ELSE "collect"
    /\ UNCHANGED <<next, workers, buckets, leader, closing, life, rows, history>>

(* An entry is saved, the entries in any order.  An error is only logged. *)
SaveEntry(e) ==
    /\ ckpc = "save"
    /\ e \in batch
    /\ \E px \in SUBSET Racing(e), vol \in SUBSET Racing(e) :
          rows' = Replaced(e, [k \in KlinesOf(e) |-> [px |-> Read(k, px), vol |-> Read(k, vol)]])
    /\ batch' = batch \ {e}
    /\ UNCHANGED <<next, workers, buckets, leader, ckpc, tovisit, closing, life, history>>

FailEntry(e) ==
    /\ ckpc = "save"
    /\ e \in batch
    /\ MayFail \/ stopping
    /\ batch' = batch \ {e}
    /\ lost' = lost \cup Discarded(KlinesOf(e))
    /\ UNCHANGED <<next, workers, buckets, leader, ckpc, tovisit, closing, life,
                   rows, begun, ahead, anew>>

EndCheckpoint ==
    /\ ckpc = "save"
    /\ batch = {}
    /\ ckpc' = "idle"
    /\ UNCHANGED <<next, workers, buckets, leader, tovisit, batch, closing, life,
                   rows, history>>

CheckpointExit ==
    /\ stopping
    /\ ckpc = "idle"
    /\ ckpc' = "exited"
    /\ UNCHANGED <<next, workers, buckets, leader, tovisit, batch, closing, life,
                   rows, history>>

-----------------------------------------------------------------------------
(* Shutdown *)

(* SIGTERM: the root context is cancelled. *)
Stop ==
    /\ MayStop
    /\ ~stopping
    /\ stopping' = TRUE
    /\ UNCHANGED <<next, workers, buckets, leader, checkpoint, closepc, toflush,
                   life, rows, history>>

StartClose ==
    /\ stopping
    /\ closepc = "none"
    /\ closepc' = IF leader THEN "completed" ELSE "done"
    /\ UNCHANGED <<next, workers, buckets, leader, checkpoint, stopping, toflush,
                   life, rows, history>>

(* Close flushes the buffer, under its lock, and empties it. *)
FlushCompleted(failed) ==
    /\ closepc = "completed"
    /\ failed # {} => MayFail
    /\ LET saved(win) == /\ win[1] \notin failed
                         /\ \E k \in KlinesOf(completed[win[1]]) : WindowOf(k) = win
           last(win) == content[LastOf(completed[win[1]], win)]
       IN  rows' = [win \in Windows |->
                IF saved(win) THEN [px |-> last(win), vol |-> last(win)] ELSE rows[win]]
    /\ completed' = [s \in Symbols |-> <<>>]
    /\ lost' = lost \cup
          UNION {content[k] : k \in UNION {KlinesOf(completed[s]) : s \in failed}}
    /\ toflush' = Symbols
    /\ closepc' = "open"
    /\ UNCHANGED <<next, workers, lock, data, content, leader, checkpoint, stopping,
                   life, begun, ahead, anew>>

(* Close saves the open klines of a symbol one by one, under its lock. *)
FlushOpen(s, failed) ==
    /\ closepc = "open"
    /\ s \in toflush
    /\ lock[s] = Free
    /\ failed # {} => MayFail
    /\ LET saved == {k \in Open(s) : k[1] \notin failed}
           kline(win) == CHOOSE k \in saved : WindowOf(k) = win
       IN  rows' = [win \in Windows |->
                IF \E k \in saved : WindowOf(k) = win
                  THEN [px |-> content[kline(win)], vol |-> content[kline(win)]]
                  ELSE rows[win]]
    /\ toflush' = toflush \ {s}
    /\ closepc' = IF toflush' = {} THEN "done" ELSE "open"
    /\ UNCHANGED <<next, workers, buckets, leader, checkpoint, stopping,
                   life, history>>

(* A trade in the rows of all its windows. *)
Stored(t) ==
    \A iv \in Intervals :
        t \in rows[Window(t, iv)].px \cap rows[Window(t, iv)].vol

(* The process dies, or exits after Close, and is started again: all but the
   tables is lost, and trades are given again from the stored offset on, which
   passes none that a worker has in hand. *)
Restart ==
    /\ crashes < MaxCrashes
    /\ crashes' = crashes + 1
    /\ \E from \in 1..next :
          /\ \A w \in Workers : wtrade[w] # NoTrade => from <= wtrade[w]
          /\ next' = from
          /\ ahead' = {t \in begun : from <= t}
          /\ lost' = lost \cup {t \in begun : t < from /\ ~Stored(t)}
    /\ wpc' = [w \in Workers |-> "idle"]
    /\ wtrade' = [w \in Workers |-> NoTrade]
    /\ wclosed' = [w \in Workers |-> {}]
    /\ lock' = [s \in Symbols |-> Free]
    /\ data' = [s \in Symbols |-> [iv \in Intervals |-> NoKline]]
    /\ content' = [k \in Kline |-> {}]
    /\ completed' = [s \in Symbols |-> <<>>]
    /\ ckpc' = "idle"
    /\ tovisit' = {}
    /\ batch' = {}
    /\ stopping' = FALSE
    /\ closepc' = "none"
    /\ toflush' = {}
    /\ UNCHANGED <<leader, changes, rows, begun, anew>>

(* The elector changes what shouldWrite returns. *)
ChangeLeader ==
    /\ changes < MaxChanges
    /\ changes' = changes + 1
    /\ leader' = ~leader
    /\ UNCHANGED <<next, workers, buckets, checkpoint, closing, crashes, rows, history>>

-----------------------------------------------------------------------------
WorkerStep(w) ==
    \/ TakeTrade(w) \/ LockSymbol(w)
    \/ \E failed \in SUBSET Intervals : Recover(w, failed)
    \/ UpdateBuckets(w) \/ BufferCompleted(w)

CheckpointStep ==
    \/ DrainCompleted
    \/ \E s \in Symbols : CollectOpen(s)
    \/ \E e \in batch : SaveEntry(e) \/ FailEntry(e)
    \/ EndCheckpoint \/ CheckpointExit

CloseStep ==
    \/ StartClose
    \/ \E failed \in SUBSET Symbols : FlushCompleted(failed)
    \/ \E s \in Symbols, failed \in SUBSET Intervals : FlushOpen(s, failed)

Next ==
    \/ \E w \in Workers : WorkerStep(w)
    \/ CheckpointStep \/ CloseStep
    \/ Stop \/ Restart \/ ChangeLeader

Spec == Init /\ [][Next]_vars

(* The goroutines are scheduled, their locks are granted in the end, and the
   saves of a symbol do not fail for ever. *)
EntriesOf(s) == {e \in batch : \E k \in KlinesOf(e) : WindowOf(k)[1] = s}

Fairness ==
    /\ \A w \in Workers : WF_vars(WorkerStep(w))
    /\ WF_vars(DrainCompleted) /\ WF_vars(EndCheckpoint)
    /\ \A s \in Symbols : SF_vars(CollectOpen(s))
    /\ WF_vars(\E e \in batch : SaveEntry(e) \/ FailEntry(e))
    /\ \A s \in Symbols : SF_vars(\E e \in EntriesOf(s) : SaveEntry(e))
    /\ WF_vars(CloseStep)

FairSpec == Spec /\ Fairness

-----------------------------------------------------------------------------
(* Properties *)

(* The type invariant. *)
TypeOK ==
    /\ next \in Nat
    /\ wpc \in [Workers -> {"idle", "lock", "recover", "stuck", "update", "buffer"}]
    /\ wtrade \in [Workers -> Trades \cup {NoTrade}]
    /\ \A w \in Workers : wpc[w] = "idle" <=> wtrade[w] = NoTrade
    /\ wclosed \in [Workers -> SUBSET Kline]
    /\ lock \in [Symbols -> Workers \cup {Free}]
    /\ data \in [Symbols -> [Intervals -> Kline \cup {NoKline}]]
    /\ \A s \in Symbols, iv \in Intervals : data[s][iv] # NoKline =>
          data[s][iv][1] = iv /\ TradeSym[data[s][iv][2]] = s
    /\ content \in [Kline -> SUBSET Trades]
    /\ completed \in [Symbols -> Seq(SUBSET Kline)]
    /\ leader \in BOOLEAN
    /\ ckpc \in {"idle", "collect", "save", "exited"}
    /\ tovisit \subseteq Symbols
    /\ batch \subseteq Seq(SUBSET Kline)
    /\ stopping \in BOOLEAN
    /\ closepc \in {"none", "completed", "open", "done"}
    /\ toflush \subseteq Symbols
    /\ crashes \in Nat
    /\ changes \in Nat
    /\ rows \in [Windows -> Row]
    /\ begun \subseteq Trades /\ ahead \subseteq begun /\ lost \subseteq Trades
    /\ anew \subseteq Windows

(* A row counts trades of its own window only, and only trades that were given
   to the aggregator: no interleaving of workers, checkpoint and close files a
   trade under another window, interval or symbol. *)
RowsSound ==
    \A win \in Windows : rows[win].px \cup rows[win].vol \subseteq begun \cap InWindow(win)

(* The trades on their way to the row of win. *)
OnTheWay(win) ==
    (UNION {content[k] : k \in
        {k \in Kline :
            /\ WindowOf(k) = win
            /\ \/ k \in Open(win[1])
               \/ \E w \in Workers : k \in wclosed[w]
               \/ k \in KlinesOf(completed[win[1]])
               \/ \E e \in batch : k \in KlinesOf(e)}})
    \cup {wtrade[w] : w \in {v \in Workers : wpc[v] = "update"}}

(* No trade falls between the buckets, the buffer, the batch and a last flush:
   in every interval it is in the stored row or on its way there, unless a kline
   that counts it is discarded by a failed save, a change of leadership or a
   crash, it is to be counted again, or its window is begun anew. *)
NothingDropped ==
    \A t \in begun \ (lost \cup ahead), iv \in Intervals :
        LET win == Window(t, iv)
        IN  win \notin anew => t \in (rows[win].px \cap rows[win].vol) \cup OnTheWay(win)

(* A trade that is begun is in the end in the rows of all its windows for good,
   saves that fail and crashes it is given again after notwithstanding, unless
   a kline of it is discarded, one of its windows is begun anew, or the process
   leads no more, shuts down, or has a worker stuck in recovery. *)
Excused(t) ==
    \/ t \in lost
    \/ \E iv \in Intervals : Window(t, iv) \in anew
    \/ ~leader \/ stopping
    \/ \E w \in Workers : wpc[w] = "stuck"

EventuallyStored == \A t \in Trades : t \in begun ~> Stored(t) \/ Excused(t)

(* A worker that recovers a symbol gets through, row found or not. *)
Recovering(w) == wpc[w] \in {"recover", "stuck"}
RecoveryEnds == \A w \in Workers : Recovering(w) ~> ~Recovering(w)

(* The aggregator implements the abstract store, which sees of it the trades it
   has begun to count and the rows of the tables: a row loses trades only that
   are to be counted again, or because its window was begun anew. *)
CandleStore == INSTANCE CandleStore
ImplementsCandleStore == CandleStore!Spec
=============================================================================
