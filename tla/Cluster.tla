------------------------------- MODULE Cluster -------------------------------
(***************************************************************************)
(* The service as main.go wires it, run by several processes of one        *)
(* consumer group over one table: each has a consumer with its deduper and *)
(* committer, an aggregator with its checkpoints, and an elector that      *)
(* tells it whether to write.  One partition carries the trades of one     *)
(* symbol, and one interval is kept.  Consumer, Aggregator and Elector     *)
(* model the parts in detail; here the one worker of a process handles the *)
(* trades its reader has queued, each in one step, and the processes meet  *)
(* in the stored offset, the assignment of the partition, the leadership   *)
(* and the rows.                                                           *)
(*                                                                         *)
(* A kline is the sequence of the trades added to it, so that a trade      *)
(* added twice shows.                                                      *)
(***************************************************************************)
EXTENDS Integers, Sequences, FiniteSets

CONSTANTS
    Procs,         \* the processes
    NumTrades,     \* bound on the trades, numbered from 1 by their offset plus 1
    Window,        \* the window each trade falls into
    InitialOffset, \* the offset stored at first, -1 for none
    ChanBuf,       \* how many trades a reader queues
    MaxFaults      \* bound on the faults of any kind: deaths and shutdowns, rebalances,
                   \* changes of leadership, expired trades, errors of FetchMessage

Trades == 1..NumTrades

ASSUME ClusterAssumption ==
    /\ IsFiniteSet(Procs) /\ Procs # {}
    /\ NumTrades \in Nat
    /\ Window \in [Trades -> Nat]
    /\ \A t, u \in Trades : t <= u => Window[t] <= Window[u]
    /\ InitialOffset \in {-1, 0}
    /\ ChanBuf \in Nat /\ MaxFaults \in Nat

VARIABLES
    \* The broker.
    logEnd,      \* trades produced
    groupOffset, \* trades before the offset stored for the group; -1 for none
    owner,       \* the process the partition is assigned to
    position,    \* trades before the next one its reader fetches
    \* Per process, all lost when it dies.
    reading,     \* whether Run of its consumer has not ended
    stuck,       \* whether its worker waits in recovery for ever
    tasks,       \* the trades its reader has queued, in the order of fetching
    seen,        \* the trades its deduper knows
    signalled,   \* the trades its worker has signalled complete
    committed,   \* trades before the offset it has committed
    klines,      \* the klines its aggregator has made; the last one is open
    done,        \* those in the buffer of completed ones
    batch,       \* the entries its checkpoint has still to save, sets of klines
    \* The election and the table.
    leader,      \* the processes that take themselves for the leader
    rows,        \* per window, the trades of its row; none for no row
    faults,      \* how many faults there were
    \* History.
    handled,     \* the trades some process has added to a kline
    forgotten    \* the trades that have expired in the deduper of a process

broker  == <<logEnd, groupOffset, owner, position>>
worker  == <<stuck, tasks, seen, signalled, klines, done>>
process == <<worker, reading, committed, batch>>
history == <<handled, forgotten>>
vars    == <<broker, process, leader, rows, faults, history>>

-----------------------------------------------------------------------------
Windows == {Window[t] : t \in Trades}
Kline == [w : Windows, trades : Seq(Trades)]

Counted(seq) == {seq[i] : i \in DOMAIN seq}
HasOpen(p) == klines[p] # <<>>
OpenOf(p) == Len(klines[p])

(* JoinPosition: the stored offset, or with none the end of the log. *)
JoinPosition == IF groupOffset = -1 THEN logEnd ELSE groupOffset

(* Known of a variant without a deduper, and the answer of the deduper. *)
NeverKnown(p, t) == FALSE
Known(p, t) == t \in seen[p]

(* HighestContiguous of a variant that takes the first missing trade in. *)
FirstMissing(p) ==
    CHOOSE n \in 1..NumTrades + 1 : 1..n - 1 \subseteq signalled[p] /\ n \notin signalled[p]

(* The trades from the first on that all are signalled by this process. *)
HighestContiguous(p) ==
    CHOOSE n \in 0..NumTrades : 1..n \subseteq signalled[p] /\ n + 1 \notin signalled[p]

(* Recovery of the first bucket of a process finds the row of its window. *)
FoundRow(t) == rows[Window[t]] # <<>>

(* The klines of p with trade t added to the open one, or to a new one when it
   falls into another window. *)
Added(p, t) ==
    IF HasOpen(p) /\ klines[p][OpenOf(p)].w = Window[t]
      THEN [klines[p] EXCEPT ![OpenOf(p)].trades = Append(@, t)]
      ELSE Append(klines[p], [w |-> Window[t], trades |-> <<t>>])

(* The entries of a batch: the completed klines, and the open one. *)
Entries(p) == {done[p], {OpenOf(p)}} \ {{}}

(* Saves of klines in the order they were made: the last of a window stays. *)
Replaced(p, ks) ==
    [w \in Windows |->
        IF \E k \in ks : klines[p][k].w = w
          THEN LET last == CHOOSE k \in ks : /\ klines[p][k].w = w
                                             /\ \A l \in ks : klines[p][l].w = w => l <= k
               IN  klines[p][last].trades
          ELSE rows[w]]

-----------------------------------------------------------------------------
Init ==
    /\ logEnd = 0
    /\ groupOffset = InitialOffset
    /\ owner \in Procs
    /\ position = 0
    /\ reading = [p \in Procs |-> TRUE]
    /\ stuck = [p \in Procs |-> FALSE]
    /\ tasks = [p \in Procs |-> <<>>]
    /\ seen = [p \in Procs |-> {}]
    /\ signalled = [p \in Procs |-> {}]
    /\ committed = [p \in Procs |-> 0]
    /\ klines = [p \in Procs |-> <<>>]
    /\ done = [p \in Procs |-> {}]
    /\ batch = [p \in Procs |-> {}]
    /\ leader \in {{p} : p \in Procs}
    /\ rows = [w \in Windows |-> <<>>]
    /\ faults = 0
    /\ handled = {}
    /\ forgotten = {}

Fault == faults < MaxFaults /\ faults' = faults + 1

(* The matching engine produces a trade. *)
Produce ==
    /\ logEnd < NumTrades
    /\ logEnd' = logEnd + 1
    /\ UNCHANGED <<groupOffset, owner, position, process, leader, rows, faults, history>>

(* The reader of the owner fetches the next trade and queues it. *)
Fetch(p) ==
    /\ owner = p /\ reading[p]
    /\ position < logEnd
    /\ Len(tasks[p]) < ChanBuf
    /\ position' = position + 1
    /\ tasks' = [tasks EXCEPT ![p] = Append(@, position + 1)]
    /\ UNCHANGED <<logEnd, groupOffset, owner, reading, stuck, seen, signalled, committed,
                   klines, done, batch, leader, rows, faults, history>>

(* The worker of p takes the next queued trade, whoever owns the partition by
   then.  One its deduper knows is dropped, and signalled all the same. *)
Take(p) ==
    /\ reading[p] /\ ~stuck[p]
    /\ tasks[p] # <<>>
    /\ tasks' = [tasks EXCEPT ![p] = Tail(@)]
    /\ seen' = [seen EXCEPT ![p] = @ \cup {Head(tasks[p])}]
    /\ UNCHANGED <<broker, reading, committed, batch, leader, rows, faults, forgotten>>

Signal(p) == signalled' = [signalled EXCEPT ![p] = @ \cup {Head(tasks[p])}]

Drop(p) ==
    /\ Take(p)
    /\ Known(p, Head(tasks[p]))
    /\ Signal(p)
    /\ UNCHANGED <<stuck, klines, done, handled>>

(* The first bucket of a process is recovered; recovery that finds a row never
   returns. *)
Recover(p) ==
    /\ Take(p)
    /\ ~Known(p, Head(tasks[p]))
    /\ ~HasOpen(p) /\ FoundRow(Head(tasks[p]))
    /\ stuck' = [stuck EXCEPT ![p] = TRUE]
    /\ UNCHANGED <<signalled, klines, done, handled>>

(* Else the trade is added to a kline.  One that is closed by it goes to the
   buffer only when the process leads. *)
Handle(p) ==
    /\ Take(p)
    /\ ~Known(p, Head(tasks[p]))
    /\ HasOpen(p) \/ ~FoundRow(Head(tasks[p]))
    /\ Signal(p)
    /\ klines' = [klines EXCEPT ![p] = Added(p, Head(tasks[p]))]
    /\ done' = IF HasOpen(p) /\ Len(klines'[p]) > OpenOf(p) /\ p \in leader
                 THEN [done EXCEPT ![p] = @ \cup {OpenOf(p)}] ELSE done
    /\ handled' = handled \cup {Head(tasks[p])}
    /\ UNCHANGED stuck

(* The deduper of p forgets a trade: its entries live for five minutes. *)
Expire(p, t) ==
    /\ Fault
    /\ seen' = [seen EXCEPT ![p] = @ \ {t}]
    /\ forgotten' = forgotten \cup {t}
    /\ UNCHANGED <<broker, reading, stuck, tasks, signalled, committed, klines, done, batch,
                   leader, rows, handled>>

(* The committer commits what is contiguous from the first trade on, whoever
   owns the partition by then and whatever is stored. *)
Commit(p) ==
    /\ reading[p]
    /\ HighestContiguous(p) > committed[p]
    /\ committed' = [committed EXCEPT ![p] = HighestContiguous(p)]
    /\ groupOffset' = HighestContiguous(p)
    /\ UNCHANGED <<logEnd, owner, position, worker, reading, batch, leader, rows, faults,
                   history>>

(* FetchMessage fails: Run returns, with its worker and its committer ended, and
   main.go logs it.  The process lives on and stays in the group, so the
   partition stays with it. *)
FetchError(p) ==
    /\ reading[p]
    /\ Fault
    /\ reading' = [reading EXCEPT ![p] = FALSE]
    /\ tasks' = [tasks EXCEPT ![p] = <<>>]
    /\ UNCHANGED <<broker, stuck, seen, signalled, committed, klines, done, batch, leader,
                   rows, history>>

(* A checkpoint of a leader drains the buffer and takes the open kline, for
   which it needs the lock a stuck worker holds.  It waits for its saves. *)
Collect(p) ==
    /\ p \in leader /\ ~stuck[p]
    /\ batch[p] = {} /\ HasOpen(p)
    /\ batch' = [batch EXCEPT ![p] = Entries(p)]
    /\ done' = [done EXCEPT ![p] = {}]
    /\ UNCHANGED <<broker, reading, stuck, tasks, seen, signalled, committed, klines, leader,
                   rows, faults, history>>

(* An entry is saved as it is by then, or its save fails, though p may lead no
   more. *)
Save(p, entry) ==
    /\ rows' \in {rows, Replaced(p, entry)}
    /\ batch' = [batch EXCEPT ![p] = @ \ {entry}]
    /\ UNCHANGED <<broker, worker, reading, committed, leader, faults, history>>

(* The partition goes to p, whose reader starts at JoinPosition. *)
Assign(p) ==
    /\ owner' = p
    /\ position' = JoinPosition

(* The group is rebalanced; the partition may stay where it was. *)
Rebalance(p) ==
    /\ Fault
    /\ Assign(p)
    /\ UNCHANGED <<logEnd, groupOffset, process, leader, rows, history>>

(* p is gone and starts anew; the partition it owned goes to some process. *)
Restart(p) ==
    /\ Fault
    /\ leader' = leader \ {p}
    /\ reading' = [reading EXCEPT ![p] = TRUE]
    /\ stuck' = [stuck EXCEPT ![p] = FALSE]
    /\ tasks' = [tasks EXCEPT ![p] = <<>>]
    /\ seen' = [seen EXCEPT ![p] = {}]
    /\ signalled' = [signalled EXCEPT ![p] = {}]
    /\ committed' = [committed EXCEPT ![p] = 0]
    /\ klines' = [klines EXCEPT ![p] = <<>>]
    /\ done' = [done EXCEPT ![p] = {}]
    /\ batch' = [batch EXCEPT ![p] = {}]
    /\ \/ owner # p /\ UNCHANGED <<owner, position>>
       \/ owner = p /\ \E q \in Procs : Assign(q)
    /\ UNCHANGED <<logEnd, groupOffset, history>>

Crash(p) == Restart(p) /\ UNCHANGED rows

(* Close of the aggregator of a leader saves the buffer and the open kline; each
   of the saves may fail. *)
Shutdown(p) ==
    /\ ~stuck[p]
    /\ Restart(p)
    /\ IF p \in leader /\ HasOpen(p)
         THEN \E saved \in SUBSET Entries(p) : rows' = Replaced(p, UNION saved)
         ELSE UNCHANGED rows

(* An elector tells its process that it leads, or that it leads no more. *)
ChangeLeader(p) ==
    /\ Fault
    /\ leader' = IF p \in leader THEN leader \ {p} ELSE leader \cup {p}
    /\ UNCHANGED <<broker, process, rows, history>>

Next ==
    \/ Produce
    \/ \E p \in Procs :
          \/ Fetch(p) \/ Drop(p) \/ Recover(p) \/ Handle(p)
          \/ \E t \in seen[p] : Expire(p, t)
          \/ Commit(p) \/ FetchError(p)
          \/ Collect(p) \/ \E entry \in batch[p] : Save(p, entry)
          \/ Rebalance(p) \/ Crash(p) \/ Shutdown(p) \/ ChangeLeader(p)

Spec == Init /\ [][Next]_vars

-----------------------------------------------------------------------------
(* Properties *)

(* The type invariant. *)
TypeOK ==
    /\ logEnd \in 0..NumTrades /\ groupOffset \in -1..logEnd
    /\ owner \in Procs /\ position \in 0..logEnd
    /\ reading \in [Procs -> BOOLEAN] /\ stuck \in [Procs -> BOOLEAN]
    /\ tasks \in [Procs -> Seq(1..logEnd)]
    /\ seen \in [Procs -> SUBSET (1..logEnd)]
    /\ signalled \in [Procs -> SUBSET (1..logEnd)]
    /\ committed \in [Procs -> 0..logEnd]
    /\ klines \in [Procs -> Seq(Kline)]
    /\ done \in [Procs -> SUBSET Nat] /\ batch \in [Procs -> SUBSET SUBSET Nat]
    /\ \A p \in Procs : done[p] \cup UNION batch[p] \subseteq DOMAIN klines[p]
    /\ leader \subseteq Procs
    /\ rows \in [Windows -> Seq(Trades)]
    /\ faults \in 0..MaxFaults
    /\ handled \subseteq 1..logEnd /\ forgotten \subseteq 1..logEnd

(* Whatever is delivered again after rebalances, restarts and commits of former
   owners, to processes whose dedupers know nothing of it, a row counts a trade
   twice only when it has expired in the deduper of a process that lived on. *)
RowsRepeatForgotten ==
    \A w \in Windows : \A i, j \in DOMAIN rows[w] :
        i # j /\ rows[w][i] = rows[w][j] => rows[w][i] \in forgotten

(* The stored offset never passes a trade that no process has handled, however
   the partition moves between them, once an offset is stored at the start. *)
CommittedHandled ==
    InitialOffset = 0 => 1..groupOffset \subseteq handled

(* No row counts a trade twice, as the repository says of its deduper and its
   commits.  An entry of the deduper lives for five minutes and an open kline
   for up to a year: a trade that is delivered again later is added again. *)
RowsCountOnce ==
    \A w \in Windows : \A i, j \in DOMAIN rows[w] : i # j => rows[w][i] # rows[w][j]
=============================================================================
