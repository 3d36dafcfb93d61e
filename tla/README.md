# Verification of quote-ticker

quote-ticker consumes trade ticks from a Kafka topic, aggregates them into klines of
seven intervals, checkpoints the klines to per-symbol tables of a SQL database, serves
them over HTTP and pushes every trade to WebSocket subscribers. Several instances may
run; a leader elected over etcd writes. This directory holds TLA+ models of its
concurrent core, the TLC configurations that check them and TLAPS proofs.

Paths below are relative to the repository, line numbers are those of its sources.

## 1. The system

| component | state | operations | interacts with |
|---|---|---|---|
| Kafka consumer, `internal/kafka` | tasks and completed channels, deduper, per-partition `committed` and `pending`, the group's stored offset | fetch, enqueue, process (dedup, handle), signal, collect, flush commits, shutdown | broker; calls the trade handler |
| aggregator, `internal/kline/aggregator.go` | per-symbol mutex and open klines, completed buffer, dirty set | ProcessTrade, recovery, checkpoint every 500ms, Close | called by consumer workers; calls the repository; asks the elector |
| repository, `internal/repository/kline_repo.go`, `table_manager.go` | kline tables of a SQL database, table cache | BatchSave (REPLACE, then warm the cache), LoadKline, Query (cache, else table, then warm the cache) | called by aggregator, continuity checker, HTTP |
| kline cache, `internal/repository/cache.go` | a TTL cache of sorted slices of kline pointers | put, get | called by the repository only |
| elector, `internal/elector` | leader flag, leader context, etcd session | election loop, step-down | etcd; starts the continuity checker |
| continuity checker, `internal/kline/continuity.go` | none of its own; drains the dirty set | gap detection, backfill from 1m klines | repository, aggregator |
| hub, `internal/ws` | broadcast channels, writers' maps, connections, totals | broadcast, fan-out, subscribe, unsubscribe, removal | called by the trade handler; peers |
| intervals, kline and trade, decimal | none | alignment and close times; update and average; fixed-point arithmetic and its text | used by the aggregator, the checker, the repository |
| service, `cmd/server/main.go` | the wiring of all of these, in several processes of one consumer group | start, shutdown | broker, etcd, database |
| HTTP API, configuration, metrics, generated messages | none | | |

What is hard: several consumer workers race on one symbol and on the deduper; offsets
are committed by one goroutine out of completions that arrive in any order; klines are
shared by pointer between buckets, buffer and checkpoint, and read without their lock;
checkpoint, Close and workers overlap at shutdown; recovery reads what an earlier life
saved; leases expire before their holders know; removal of a connection races with
fan-out; the cache changes slices in place that others hold, and is taken for the table;
the checker merges and replaces rows beside the checkpoints that write them; processes
that die take their deduper and their klines along and leave their offset and their rows;
figures overflow, lose digits and go through text. `PROJECT.json` lists each hazard with its line and the properties about it.

## 2. Modules

| module | models |
|---|---|
| `OffsetLog` | promise of the committer: stored offsets move forward over finished messages only |
| `Consumer` | `internal/kafka`: reader, workers, deduper, committer, rebalance, restart |
| `CandleStore` | promise of aggregator and checkpoints: a row counts trades of its window, and loses only those that are counted again, unless its window is begun anew |
| `Aggregator` | `internal/kline/aggregator.go` with BatchSave and LoadKline of the repository |
| `Elector` | `internal/elector` over a model of etcd's leases and mutex, with the continuity checkers leadership starts and ends |
| `Hub` | `internal/ws/hub.go` |
| `KlineCache` | `cache.go`: put and get over the cells of a shared slice |
| `Continuity` | `continuity.go` with Query and the warming of the cache, beside the aggregator and the API |
| `Cluster` | `main.go`: consumer, aggregator and leadership of several processes composed over one group and one table |
| `Decimal` | `internal/decimal`: machine integers, arithmetic, text |
| `Candle` | `internal/model` and the merge of the checker: trades, figures of a kline, the row, on `Decimal` |
| `Intervals` | `interval.go`, calcCloseTime and intervalMs over a calendar and a clock |
| `MC...` | the instances of each for TLC; `MCCandle` runs `Candle` and `Intervals` |
| `ConsumerProofs`, `AggregatorProofs`, `ElectorProofs`, `HubProofs`, `KlineCacheProofs`, `ContinuityProofs`, `ClusterProofs` | theorems about the module each is named for |
| `KlineProofs` | theorems about `Decimal`, `Candle` and `Intervals` |

`Consumer` implements `OffsetLog` and `Aggregator` implements `CandleStore`. `Candle`
extends `Decimal`. `Cluster` composes coarser versions of what `Consumer`, `Aggregator`
and `Elector` model in detail, and `Continuity` does so with `Aggregator` and
`KlineCache`: a put or get of the cache, and the handling of a trade, is one step there,
because what those modules ask is asked about the order of such steps.

Every action is named for the function or the part of a function it models, and the
`map` of `PROJECT.json` gives its lines. Operators introduced as "of a variant" are the
plausible mistakes the properties have been tried against; no action uses them.

### Consumer

A message is `<<partition, offset>>` with a trade id. One action is the stretch of code
between two points where goroutines interact: a channel operation, a call of the
deduper's store, the handler, a commit. `deduper.Seen` is two actions, its Get
(`SkipDuplicate`, `NotSeen`) and its Set (`Record`), because another worker can run in
between. `FlushCommits` is one pass over all partitions; for each commit the environment
chooses among stored and acknowledged, not stored, and stored but reported as an error.
`JoinPosition` is where the client resumes after a rebalance or a restart: the stored
offset, or the end of the log. `Stop` covers both ways `Run` winds down. `FlushCommits`
passes the client a message without a topic (consumer.go:129); whether the client takes it
for one of the reader's topic is outside the repository and is the constant
`TopicImplied`. History variables: `finished` (process returned nil), `applied` (how often
the handler ran), `forgotten` (how often a deduper lost a trade, by its TTL or a restart).

Not distinguished: the contents of ticks, beyond whether they can be decoded; partial
assignment in a rebalance (the consumer keeps its partitions, the case in which its maps
meet redelivered offsets).

### Aggregator

A kline is the set of trades it counts. Klines are heap objects shared by pointer, so the
model has a heap `content`, and `<<interval, first trade>>` is the address of a kline:
NewKline is called at most once for each interval and trade. An interval is its width. A
row has two parts, `px` and `vol`, because BatchSave reads the fields of a live kline
without the lock that `Update` runs under: for each kline that is being updated, each
part of the row may or may not show the trade.

`LockSymbol`, `Recover`, `UpdateBuckets` and `BufferCompleted` are ProcessTrade: the part
before the lock is got, recovery, the loop under the lock, and the append after the
unlock. `recoverLocked` runs one goroutine per interval; one that finds a row locks the
mutex its caller holds, hence the state `stuck`. A checkpoint is `DrainCompleted`, one
`CollectOpen` per symbol, one `SaveEntry` or `FailEntry` per entry in any order, and
`EndCheckpoint`. Reading the klines of an entry and committing its transaction are one
step. Nothing is lost by it: a checkpoint waits for its saves before the next one starts,
an open kline is in one entry of a batch at most, and saves that are still running when
Close writes have a cancelled context, so they fail.

`Restart` empties all but the tables, and trades are given again from the group's stored
offset on, which may lie anywhere up to the first trade a worker has in hand: committed
trades are not given again, whether a checkpoint has stored them or not. `ChangeLeader` is
the answer of `isLeader` changing at any time. Four history variables say what the code
does not promise, so that the properties can except it by name: `ahead`, the trades a
restarted process is still to count again; `lost`, the trades of klines that were discarded
(a failed save of completed klines, a follower, a crash after the commit); `anew`, the
windows begun anew although a row or another kline of them counts trades (a load that
failed, a row nobody looked up, a late trade that opens its window again); `begun`, the
trades an update of the buckets was begun for.

### Elector

A session is `<<instance, number>>`. etcd is what the code relies on: a lease with a key
per session, keys ordered by revision, the oldest owns the mutex. `LeaseExpires` and
`KeepAliveEnds` are independent: etcd drops a lease, and the client closes `session.Done`,
in either order. Sessions are opened with the root context, so a cancelled root context
ends their keepalive, can make the revoke of the deferred Close fail, and cancels the
leader context. A process that crashes comes back with its old lease still alive. Of what
leadership guards, the checkers are there: one runs until its context is cancelled. The
checkpoints, which ask for leadership once and then save, are those of `Aggregator`.

### Hub

A connection belongs to one writer for good, so the maps of all writers are one set
`subs`, and `subbed` is the set the connections keep themselves. A writer holds its lock
for reading from `StartSending` to `EndSending`; subscribe, unsubscribe and removal need
it free. `totalMu` is held over two steps by removal only, which waits for a writer's
lock while it has it. Peers are unconstrained: they send any request in any order, repeat
it, go away at any time, and may never read. `repeated` is history: the symbols some request
of which was a repetition, or an unsubscribe without subscription.

### KlineCache

A slice is an array, an offset, a length; its capacity is what the array has left. The
array of an entry is shared by whoever got it from the store, so `put` is one action per
cell: `Probe` is one comparison of `sort.Search`, `AppendNil` the append (in place when
there is room, else in an array of twice the capacity), `ShiftCell` one cell of `copy`
from the end, `FillGap` the assignment, `SetEntry` the cut and the store. `get` is probes,
`ScanCell` and `CopyCell`, each of which reads its cell before it asks for the limit.
Reading a nil cell is a panic. Any number of puts may run at a time. `known`, `based`,
`calm` and `overlap` are history: the klines the entry stands for, those of a put under
way, whether a get has had the slice for itself, and whether two puts ever ran at a time.

### Continuity

One symbol, a narrow interval (1m) and a wide one; a kline is the set of its trades. The
cache holds live pointers, put there by checkpoints, and copies, put there by queries and
merges. The checker is split where another goroutine can come between: `BeginCheck` (drain
of the dirty set, first query), `WarmWide`, `QueryNarrow` and `WarmNarrow` per missing
window, `SaveMerged`, `WarmMerged`. Queries of the API, and the query of `checkInterval`,
which only logs, are `AskTable` and `WarmAsked`. Saves and queries may fail, entries
expire, klines are evicted. The clock moves on when the aggregator has seen the trades
of the present.

### Cluster

Each process has what dies with it (queued trades, deduper, completions, committed offset,
klines, buffer, batch); the broker, leadership and rows survive. A kline is the sequence of
the trades added, so that one counted twice shows. `Fetch` is the reader of the owner;
`Drop`, `Recover` and `Handle` are the worker taking a queued trade, whoever owns the
partition by then: known to the deduper, stuck in recovery of a row, or added to a kline.
`Expire` is the deduper's TTL. `Collect` and `Save` are a checkpoint, between which
leadership may be lost, and whose two entries (completed klines, open kline) are saved
apart, each of them or none; `Shutdown` is Close; `FetchError` ends Run of a process that
lives on. Trades are in the order of their windows, as the matching engine sends them. A
process has one worker, as config.yaml ships it; several, the failures of commits and of
loads are left to `Consumer` and `Aggregator`. `handled` and `forgotten` are history.

### Decimal, Candle, Intervals

`D` is the integers of a given width; `Wrap` is what the machine keeps. A text is a sign,
an integer part and digits; `Malformed` is one that does not parse, the text of the
smallest integer included. `Column` is the DECIMAL column, which gives more digits back.
`Candle` keeps one wide kline, the narrow klines of the same trades, and the last saved
row. `Intervals` has a clock that ticks through a calendar built from the Gregorian rules.

## 3. Runs

Passing runs, one for each question:

| run | properties | shows |
|---|---|---|
| `MCConsumer_commit` | TypeOK, CommittedFinished, CommittedInHand, NothingSkipped, RepeatsBounded, CommitsAdvance, GroupOffsetMonotone, ImplementsOffsetLog | 3 messages, one a copy of another and one undecodable, 2 workers, channels of one and two, expiring dedup entries, 1 restart, 1 rebalance, shutdown, any result of any commit: commits cover finished messages only, whose trades are handled or in a worker's hands, and never move back; no restart skips a message once an offset is stored; a trade is handled once per worker for each time it is forgotten; commits advance unless a completion they wait for never comes; refinement |
| `MCAggregator_store` | TypeOK, EventuallyStored | 3 trades, two symbols, two intervals, one worker, saves and loads that fail now and then, a restart: every trade reaches the rows of all its windows, but for what was discarded, begun anew or is stuck |
| `MCAggregator_faults` | RowsSound, NothingDropped, ImplementsCandleStore | 3 trades, two workers, failing saves and loads, a restart with redelivery, a change of leadership, shutdown: a row counts its own trades only, no trade is between two chairs, a row loses trades only to be counted again or in a window begun anew; refinement |
| `MCElector_lock` | TypeOK, OneLeaderWithLease, OnlyLeadersCheck, Failover | 2 instances, 4 sessions each, 2 faults, shutdown of the second |
| `MCHub_fanout` | TypeOK, NoSendOnClosed, TotalsRight, LeavingEnds | two connections of one writer, three requests and one, repeated ones included, channels of one, peers that leave or read nothing |
| `MCKlineCache_race` | TypeOK, ReadersSeeKlines, ServedBeforeTo, QuietSorted, CalmGetExact | three puts of two putters, with inserts in front and in the middle, growth, eviction and expiry, against gets of three ranges; the putters are symmetric |
| `MCContinuity_backfill` | TypeOK, OwnTradesOnly, PassedWindowsHaveRows | one check of two wide windows of two narrow ones each, beside checkpoints, queries, two failures or expiries |
| `MCCluster_failover` | TypeOK, RowsRepeatForgotten, CommittedHandled | two processes, three trades in two windows, two queued trades, saves that may fail, any three faults among crashes, shutdowns, rebalances, changes of leadership, expiries and an error of the reader; the processes are symmetric |
| `MCCandle_figures` | KlineRight, MergeAgrees, RowReadsBack, AverageBetween, WindowsTile, WindowsTurn | all sequences of three trades of six kinds in 16-bit integers, and the clock from 1970 to March 1972 |

Runs that find a disagreement between the code and what the repository says of it (the
`findings` of `PROJECT.json` quote the lines):

| run | violated | in short |
|---|---|---|
| `MCAggregator_v_recover` | RecoveryEnds | recovery deadlocks on a row it finds (aggregator.go:179) |
| `MCCluster_v_count` | RowsCountOnce | a trade whose dedup entry has expired (deduper.go:33, consumer.go:58) is delivered again after a rebalance and counted twice in its open kline; PERFORMANCE.md:230 and README.md:206 promise that none is |
| `MCCandle_v_average` | AverageIsQuotient | the average wraps when amount * 10^16 exceeds 64 bits (decimal.go:115), which is from about 922 units of the quote currency on |

### What the properties except

Most promises the repository makes of the consumer, the aggregator and the cache hold only
with exceptions, and the properties state these instead of bounding them away: the faults
and the second actor are in the runs, and the antecedent or an alternative of the property
names the case. Where the exception contradicts a sentence of the repository, `findings`
quotes it.

* `CommitsAdvance` excepts a partition in which the completion of the next offset to commit
  is gone. Every committer starts with `committed = -1` (consumer.go:109), so a session that
  resumes above offset 0 waits for offset 0 for ever and commits nothing, its pending map
  grows, and every later restart reads everything since the first life again; a completion
  that is dropped (consumer.go:228) or an undecodable message (consumer.go:217) ends the
  commits of its partition likewise. PERFORMANCE.md:131 says that the highest contiguous
  processed offset is what is committed.
* The commit carries no topic (consumer.go:129). consumer.go:128 says that the client uses
  partition and offset only; kafka-go, as published, keeps commits by the topic of the
  message, so that the group's offset would never be stored. The library is not part of the
  repository. `TopicImplied = FALSE` in `MCConsumer_commit` violates CommitsAdvance and
  nothing else.
* `RepeatsBounded` is a bound, not the "no double count" of PERFORMANCE.md:230: copies of a
  trade pass `Get` of the deduper at several workers before one does `Set` (deduper.go:30),
  and it forgets. `RowsRepeatForgotten` says that in a process with one worker it takes an
  expiry; `MCCluster_v_count` shows that expiry.
* `CommittedInHand` ends with a crash: a trade is recorded as seen before it is handled
  (deduper.go:33), so with two workers a copy may be committed early, and a crash then
  loses the trade. With one worker, as shipped, it does not (`CommittedApplied`, proved).
* a rebalance in `NothingSkipped`: with no stored offset yet, StartOffset LastOffset
  (consumer.go:48) moves the reader to the end of the log.
* `lost`, in NothingDropped and EventuallyStored: completed klines of a failed save are not
  retried (aggregator.go:288, 330), which PERFORMANCE.md:231 says they are; those a follower
  completes are not buffered (aggregator.go:115); trades that were committed but not yet in a
  checkpoint are lost with the process, since no offset waits for a save.
* `anew`, in ImplementsCandleStore, NothingDropped and EventuallyStored: rows are looked up
  only for the first trade of a symbol in a process (aggregator.go:135), and a failed load
  counts as no row (aggregator.go:174). So a process that is given the trades of two windows
  again, of which only the later one has a row, begins the later one over that row; a late
  trade taken by the slower of two workers opens its window again (aggregator.go:147), and
  its row of one trade replaces the complete one; a new leader saves windows it has counted
  in part as a follower. The repository's README.md:282-285 says that a new leader restores
  the checkpoint from the database; what recovery does with a row it finds is
  `MCAggregator_v_recover`.
* `ahead`, likewise: a row shrinks when trades are given again and counted again from the
  first one on, until the last of them is counted.
* `TotalsRight` of a symbol ends with a repeated request: a repeated subscribe counts twice
  in `subTotal` and once in the writer's map (hub.go:192), for good.
* a lease in `OneLeaderWithLease`: between the expiry of a lease and the close of
  `session.Done` (elector.go:110) two instances may answer IsLeader with true.
* `overlap` in the four properties of `MCKlineCache_race`: two puts into one slice lose
  klines, and one may meet the nil pointer of the other's gap, which panics; a get beside
  them may serve a nil. Both are reachable: a checkpoint saves the completed and the open
  klines of a symbol in parallel (aggregator.go:324-334), and both warm the cache, as
  queries do (kline_repo.go:203). cache.go:16 says that an item is sorted. Without an
  overlap, a get that meets one put may still serve a kline twice, or serve one before its
  range.
* no property says that a backfill loses nothing, since it does: when the cache holds part
  of the narrow klines of a window (a get takes that part for the whole, cache.go:117), or
  part of them is in the table, the merge replaces a complete wide row by a smaller one
  (continuity.go:199). The same follows from a limit of `2 * checkWindow` on the oldest rows
  (continuity.go:152), and from 600 one-minute klines of a 10-hour window against 500
  cached ones. The repository's README.md:244 says that missing windows are aggregated
  again; the checker takes windows for missing that are not.
* `KlineRight` says that totals stop at the largest number, which is what `Add` does
  (decimal.go:84); decimal.go:82 says that it panics.
* `AverageBetween` is for dividends that fit; `MCCandle_v_average` is about the others.

Further facts the models state and no run checks: a process whose FetchMessage failed keeps
its partition until it ends (consumer.go:192, main.go:178); a stuck recovery blocks
checkpoints and Close with it; a partition that the group assigns to a follower has its
klines counted there and saved by nobody, since all instances share one group id; a former
leader finishes a checkpoint it began, over the rows of its successor (aggregator.go:268),
and a former owner may move the stored offset back (consumer.go:129); a price that does not parse counts as 0
and is the low of its kline (trade.go:22); products beyond 64 bits wrap (decimal.go:102); the
smallest integer has no readable text.

### Bounds

Consumer: three messages let two workers finish out of order, with a repeated trade and an
undecodable message behind; one restart is a first commit and a session that resumes above
it, one rebalance delivers again what is in flight; buffers of one and two make both
channels full and both empty.
Aggregator: three trades of one symbol, two of which share a window, make one window
closed, one open, and a late trade when the workers change the order; the three of two
symbols over two intervals fill buffer and batch with several entries. A restart gives any
of them again; recovery that finds a row is stuck, so a row that was loaded is never stored
again, and rows are stored again only in windows that a process began without. Elector: four sessions are a term, two
lost ones and a new one; two faults are the loss of a lease during the recovery from
another. Hub: one slot per channel and two trades make every channel full; three requests
are a subscribe, its repetition and an unsubscribe, beside a subscribe of another
connection. KlineCache: three klines kept
and three puts of one or two fill the array, overwrite, insert at every place, grow, evict
and overlap. Continuity: four narrow windows are two wide ones, one of them open; a cache of two
klines evicts. Cluster: three trades are one that a second closes and a third one that
shares the second's window, so that a row can count one of two or one twice; three faults
give the partition away and back with an expiry in between, or a leadership, a crash and a
rebalance. Candle: sixteen bits with two digits have the same paths as sixty-four with eight
(a product above and below the bound for big integers, a total that saturates, a dividend
that wraps); three trades make two merges of one and two. Intervals: the clock passes the
ends of two years, a leap February and every month, with half a day for an hour.
`CHECK_DEADLOCK FALSE` is given where a run may really end: processes that have stopped,
bounds that are used up, or goroutines that wait for a lock for ever.

### Fairness

Goroutines that can run are scheduled (weak fairness per goroutine). Strong fairness is
assumed in three places: the committer's ticker fires every 500ms and its commits do not
fail for ever (`MCConsumer_commit`); a mutex that is free again and again is granted, which
Go's mutexes guarantee by their starvation mode (`CollectOpen`, `Removal`); and the
database does not fail every save of a symbol's klines (`SaveEntry`, per symbol, in
`MCAggregator_store`). In the elector, etcd
expires leases nobody keeps alive and the client learns of it; no assumption is made about
how soon. Nothing is assumed of WebSocket peers or of when leases are lost.

## 4. Proofs

TLAPS checks the following for all values of the constants, from the named assumptions in
the modules (finite bounds are naturals, symbols and workers are disjoint from the model
values that stand for nothing).

`ConsumerProofs`
* `TypeCorrect`: `Spec => []TypeOK`.
* `CommitsAreSafe`: `[]CommittedFinished`. Not inductive by itself, because it says nothing
  of the offsets that will be committed next. The strengthening is `FinishedInv`:
  `TrackedFinished` adds that all that is committed, pending, in the completed channel or
  about to be signalled has finished. `HighestContiguousProperties` characterises the
  search for the highest contiguous offset, by the least offset that is missing.
* `OffsetsNeverMoveBack`: `GroupOffsetMonotone`. The invariant `OffsetAccounted` explains
  why a committer that restarts at -1 never moves a stored offset back: it either accounts
  for every offset under the stored one, or waits for offset 0, which has gone past, and
  commits nothing.
  It is also the reason why the commits of a restarted consumer end (section 3, the first of
  the exceptions).
* `ConsumerImplementsOffsetLog`: every step is a step of `OffsetLog` or a stutter.
* `CommitsAreInHand`: `CommittedInHand`, for any number of workers. `InHandInv` adds that what
  the deduper knows is applied or in hand (`SeenApplied`), and so is what has finished,
  skipped copies included (`FinishedInHand`).
* `SingleWorkerCommitsApplied`: with one worker, committed messages have been handled, crashes
  included.
* `RestartsSkipNothing`: `NothingSkipped`, for any number of workers and crashes. The
  invariant `SkipInv` adds that nothing was read that was not produced, and says what is
  the case before a partition has a stored offset: either every message of its log is
  accounted for, or the reader joined past the first one, and then nothing is ever
  committed.
* `RepeatsAreBounded`: `RepeatsBounded`. By `RepeatInv` a trade the deduper does not know has
  been applied, or is about to be, no more often than its `Budget` of workers times
  forgettings; once it is known, only workers that have found it unknown before can apply it.

`AggregatorProofs`
* `TypeCorrect`, for any number of workers: the klines of a bucket are of its symbol and
  interval, which holds because the only klines ever put there are the open one and a new one (`CurrentProperties`).
* `RowsAreSound`, likewise: `RowsSound`. What is saved is read from klines, not from trades, so the
  invariant `SoundInv` speaks of the heap: a kline, and the trade a worker is just adding to
  it, count trades of its window that were given to the aggregator (`ContentSound`,
  `AddingSound`). A row is written from a kline of its window, whatever parts of an update
  the save has seen (`SavedRows`, `FlushedCompleted`, `FlushedOpen`).

  The next two rest on `HeapShape`, an invariant for any number of workers and trades in any
  order: two klines of the heap that count something are of one window only if it was begun
  anew (`LiveInv`), buckets of a symbol are opened together (`OpenInv`), and nothing completed
  is open, nor an open kline in two entries of a batch (`HandInv`), again but for such windows.
* `StoreImplemented`: the refinement of `CandleStore`, with failing saves and loads, restarts
  that give trades again, shutdown and changes of leadership. A row is replaced by what a
  save read of a live kline, so the invariant `StoreInv` bounds the row from above: it
  counts no more than the kline of its window, what is still ahead, and, once the kline is
  saved, perhaps the trade being added (`RowInv`); and where a kline is about to be made
  after recovery there is no row, or the window was begun anew (`FreshInv`).
* `NothingIsDropped`: `NothingDropped`, under the same faults. By `DropInv` each trade that was
  begun, and is neither lost nor ahead, is being added, in the row, or counted by a kline that
  is open, in a worker's hands, buffered or in the batch (`CountedInv`).

`ElectorProofs`
* `TypeCorrect`, `CheckersAreTold`, `LeadersOwnTheLock`, `OneLeaseHoldingLeader`: from the
  invariant `LockInv`: revisions of keys are distinct and under the next one
  (`KeysOrdered`), and an instance that has got the lock owns it while its lease lasts
  (`WinnerOwns`); a key created later is younger, so it takes the mutex from nobody.

`HubProofs`
* `TypeCorrect` and `NeverSendsOnClosed`: a connection that is past its removal is in no
  writer's map and in no fan-out under way, because removal needs the writer's lock.
* `WritersAndConnectionsAgree`: what a writer's map and a connection's own record say of
  its subscriptions is the same until it is removed.
* `TotalsAreRight`: `TotalsRight`, for a symbol until one of its requests is repeated. Inductive with the fact that a subscription is in the writer's map before it
  is counted (`BookedFirst`); the proof counts sets of connections.

`KlineCacheProofs`
* `TypeCorrect`, for any number of putters and getters: from `Shape`, which bounds the
  search, the shift and the copy by the slice and the slice by its array, and
  `NewArrayUnused`: among as many arrays as there are goroutines and two more one is free.

  The rest is for any number of putters, getters, klines and sizes until two puts overlap:
  `CacheInv` holds as long as `overlap` is false, and says that at most one put is under way
  (`Single`). `PutInv` says what the putter has in hand: its slice without the gap is a row
  that stands for the klines put (`Stands`: in order, each in its last version, and what is
  missing is older than the newest MaxItems). `AtWork`: what others read ends before the
  last cell of that slice, and so before the nil pointer. `HeldInv`: what is read is klines.
  A step of the putter lets a cell that is read only grow older (`Ages`), which is what the
  readers' part of the invariant, `TakenInv`, needs.
* `NoGapIsRead`: `ReadersSeeKlines`. `RangesAreKept`: `ServedBeforeTo`.
* `EntryIsNewest`: `QuietSorted`, by `StandsNewest`: what a row stands for and its newest
  MaxItems klines are the same set.
* `GetsAreExact`: `CalmGetExact`. The strengthening `ServeInv` adds that the entry is in
  order even in the middle of a put, though perhaps with one kline twice (`LevelInv`, by
  `RowLevel`), and what the search, the scan and the copy of a get have established as long
  as no write disturbs it (`CalmInv`).

`ContinuityProofs`, for any number of trades, ratio of the intervals, size of the cache and
window looked back
* `TypeCorrect`, `NothingMisfiled` (`OwnTradesOnly`) and `PassedAreFilled`
  (`PassedWindowsHaveRows`) are parts of one invariant, `CheckInv`: rows and cached klines count trades of their window, and a cached
  kline has a row (`RowsInv`, `CacheInv` with `Holds`); what the checker has fetched is of
  the window it works on (`FetchInv`), what it merges counts something and only what is of
  that window (`MergeInv`), and a window it no longer misses has a row (`DueInv`).

`ClusterProofs`
* `TypeCorrect`: the search for the highest contiguous offset returns one that exists,
  buffers and batches hold klines that exist.
* `CommitsPassHandledOnly`: what a deduper knows has been handled (`HandledInv`), and a
  committer stores only what its deduper knows from the first trade on, so it does not
  matter whose turn it is to commit.
* `RowsAreCountedOnce`: `RowsRepeatForgotten`. A kline holds a trade twice only if it has been
  forgotten, and every trade it holds its deduper knows or has forgotten (`KlinesOnce`); a row
  is one of these klines as it was when it was saved.

`KlineProofs`, the windows
* `WindowsAlwaysTile`, `WindowsAlwaysTurn`: for every set of widths that divide a day, and
  over the calendar. Every time has a window with an end (`IsWindow`): the times in it and
  no others are aligned to its start, and close time and length agree with its end. For
  weeks it rests on the one Monday among seven days, for months and years on the searches
  for the year and month of a day, which find exactly one (`YearExists`, `YearUnique`,
  `MonthOfProperties`).

`KlineProofs`, the figures, for integers of any width and any number of digits
* `AddSaturates`: `Add` is the clamped sum. `MulIsExact`: for the price and quantity of a
  trade `Mul` is the rounded product, with big integers and without.
* `FiguresAreSound`: every figure fits, no total turns negative, open, high, low, close and
  count are those of the trades, the takers' part does not exceed the whole, and a save
  changes the average only. It needs of the ticks what `TicksAssumption` says, which the
  run evaluates: texts of numbers that are not negative, with a product that fits.
* `KlineAlwaysRight`: `KlineRight`. The invariant `TotalsRight` says that the totals are the
  clamped sums over the trades; a total that has stopped stays where the clamped sum is
  (`Saturated`), and a recursive sum over one trade more is one addition more
  (`TotalProperties`).
* `MergeAlwaysAgrees`: `MergeAgrees`. The invariant `MergeInv`: the narrow klines are merged
  into a kline that is `Alike` the wide one, which differs at most in its close and average.
  Sums that stop at the largest number may be grouped in any way (`AddGroups`), so including
  a kline that took a trade more is including it and taking the trade (`IncludeUpdate`).
* `RowsReadBack`: `RowReadsBack`, with `RowInv`: the stored row is of a kline that had the
  figures of the trades handled by then. The text of a number is read digit by digit as its
  quotients by the powers of ten (`FractionIs`), with zeros at the end or without.
* `AverageIsBetween`: `AverageBetween`, from `Weighed`: amount times scale lies between the
  volume at the lowest price, but for one unit lost by each trade, and the volume at the
  highest. `Weighed` also shows that no average is the smallest integer, the one number
  without a text, although its dividend may wrap.

  These are facts about recursive definitions over sequences of any length. They do without
  induction: a recursive function exists, is unique and has a property because the least
  index at which it would fail (`LeastNatural`) cannot be.

The strengthenings are proved and stated in the proof modules; the runs check what follows
from them.

Every safety property of the passing runs is a theorem, invariants and action properties, with
no assumption beyond those on the constants. Model-checked only: the liveness properties
`CommitsAdvance`, `EventuallyStored`, `Failover` and `LeavingEnds` (fairness and ENABLED are
out of the prover's reach), and the three runs of section 3 that refute what the sources say
of themselves. What the properties except is false without the exception, and section 3 says
where.

## 5. Not modelled, and the plan

Left out, because nothing in the system depends on it:

* HTTP handlers and router: stateless; a request becomes a query of the repository, which is
  an action of `Continuity`.
* configuration, metrics, generated messages: reading of a file, gauges, generated code.
* the stale-symbol alert of the aggregator, which sets gauges, and `Snapshot`, which only
  reads; creation and update times of klines, which nothing reads.
* of the hub: the `conns` map and its gauge, the choice of a writer for a new connection
  (each has one for good), ping and pong deadlines (a peer may go away at any time).
* of `main.go`: opening of databases and servers, and the HTTP server's shutdown.

Not stated: that `Consumer`, `Aggregator` and `Elector` implement the coarser processes
`Cluster` composes. Both translate the same lines, and the instances are checked apart.
