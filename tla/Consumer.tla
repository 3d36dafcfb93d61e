------------------------------- MODULE Consumer -------------------------------
(***************************************************************************)
(* The Kafka consumer of internal/kafka: the reader goroutine, the pool of *)
(* workers with their deduplication of trade ids, and the centralised      *)
(* offset committer, over a partitioned log that keeps one stored offset   *)
(* per partition for the consumer group.                                   *)
(*                                                                         *)
(* The broker, the group protocol and the client library are external:     *)
(* they are the actions Produce, Rebalance and the outcomes of a commit,   *)
(* modelled from the way consumer.go uses them.  A message is a pair       *)
(* <<partition, offset>>; what it carries is its trade id.                 *)
(***************************************************************************)
EXTENDS Integers, Sequences, FiniteSets

CONSTANTS
    Partitions,    \* the partitions of the topic
    Workers,       \* the worker goroutines of one consumer (config.parallel)
    MaxLog,        \* bound on the messages of one partition
    InitialLog,    \* messages in each partition before the group first joins
    TradeIds,      \* the trade ids
    TradeId,       \* the trade id each message carries
    Poison,        \* the messages that proto.Unmarshal rejects
    ChanBuf,       \* capacity of the tasks channel (16384 in the code)
    CompletedBuf,  \* capacity of the completed channel (16384 in the code)
    TopicImplied,  \* whether the client takes a message without a topic, which is
                   \* what flushCommits passes it, for one of the reader's topic
    CommitResults, \* what can become of a commit: "acked", "failed", "unacked"
    MaxCrashes,    \* bound on the restarts of the process
    MaxRebalances, \* bound on the rebalances of the group
    MayExpire,     \* whether the deduper's TTL may run out during a run
    MayStop,       \* whether the context of Run may be cancelled
    NoMsg          \* no message

Message == Partitions \X (0..(MaxLog - 1))

ASSUME PartitionsAssumption == Partitions # {}
ASSUME WorkersAssumption == Workers # {} /\ IsFiniteSet(Workers)
ASSUME LogAssumption == MaxLog \in Nat \ {0} /\ InitialLog \in [Partitions -> 0..MaxLog]
ASSUME MessageAssumption ==
    /\ TradeId \in [Message -> TradeIds]
    /\ Poison \subseteq Message
    /\ NoMsg \notin Message
ASSUME BufferAssumption == ChanBuf \in Nat /\ CompletedBuf \in Nat
ASSUME FaultAssumption ==
    /\ TopicImplied \in BOOLEAN
    /\ CommitResults \subseteq {"acked", "failed", "unacked"}
    /\ MaxCrashes \in Nat
    /\ MaxRebalances \in Nat
    /\ MayExpire \in BOOLEAN
    /\ MayStop \in BOOLEAN

VARIABLES
    \* The broker.
    logEnd,      \* per partition, the offset the next message will get
    groupOffset, \* per partition, the stored offset: the next one to read, -1 when none
    \* The reader goroutine.
    position,    \* per partition, the offset FetchMessage returns next
    fetched,     \* the message fetched and not yet sent to tasks
    tasks,       \* the channel from the reader to the workers
    \* The workers.
    wpc,         \* per worker, the step it is at
    wmsg,        \* per worker, its message
    seen,        \* the trade ids the deduper remembers
    \* The committer.
    completed,   \* the channel from the workers to the committer
    committed,   \* per partition, partOffsets.committed
    pending,     \* per partition, partOffsets.pending
    committerUp, \* the committer goroutine has not returned
    \* The life of the process.
    stopping,    \* the context of Run is cancelled
    crashes, rebalances,
    \* History, of every incarnation of the process.
    finished,    \* the messages for which process returned nil
    applied,     \* per trade id, how often the handler ran
    forgotten    \* per trade id, how often a deduper lost it, by its TTL or a restart

broker    == <<logEnd, groupOffset>>
reader    == <<position, fetched, tasks>>
workers   == <<wpc, wmsg, seen>>
committer == <<completed, committed, pending, committerUp>>
life      == <<stopping, crashes, rebalances>>
history   == <<finished, applied, forgotten>>
vars      == <<broker, reader, workers, committer, life, history>>

Steps == {"idle", "process", "record", "handle", "signal", "exited"}

-----------------------------------------------------------------------------
(* Helpers *)

(* JoinPosition of a variant that forgets the stored offset. *)
JoinAtEnd(p) == logEnd[p]

(* Where a (re)joining group member starts to read a partition: at the stored
   offset, or with none at the end of the log (StartOffset: LastOffset). *)
JoinPosition(p) == IF groupOffset[p] = -1 THEN logEnd[p] ELSE groupOffset[p]

(* HighestContiguous of variants: the highest signalled offset, gaps or not;
   the first missing offset instead of the one before it. *)
HighestSignalled(p) ==
    CHOOSE k \in {committed[p]} \cup pending[p] :
        \A o \in {committed[p]} \cup pending[p] : o <= k

FirstMissing(p) ==
    CHOOSE next \in (committed[p] + 1)..MaxLog :
        /\ next \notin pending[p]
        /\ (committed[p] + 1)..(next - 1) \subseteq pending[p]

(* The highest offset up to which every offset above the last committed one
   has been signalled complete. *)
HighestContiguous(p) ==
    (CHOOSE next \in (committed[p] + 1)..MaxLog :
        /\ next \notin pending[p]
        /\ (committed[p] + 1)..(next - 1) \subseteq pending[p]) - 1

(* Advances of variants: without the check, and with an off-by-one. *)
AlwaysAdvances(p) == HighestContiguous(p) >= -1
AdvancesByTwo(p) == HighestContiguous(p) > committed[p] + 1

(* flushCommits leaves out the partitions with nothing new to commit. *)
Advances(p) == HighestContiguous(p) > committed[p]

(* Seen of a variant that never remembers. *)
NeverSeen(w) == FALSE

(* deduper.Seen, first half: store.Get. *)
Seen(w) == TradeId[wmsg[w]] \in seen

(* The channel of completions takes a message only when it has room. *)
HasRoom == Len(completed) < CompletedBuf

-----------------------------------------------------------------------------
Init ==
    /\ logEnd = InitialLog
    /\ groupOffset = [p \in Partitions |-> -1]
    /\ position = InitialLog
    /\ fetched = NoMsg
    /\ tasks = <<>>
    /\ wpc = [w \in Workers |-> "idle"]
    /\ wmsg = [w \in Workers |-> NoMsg]
    /\ seen = {}
    /\ completed = <<>>
    /\ committed = [p \in Partitions |-> -1]
    /\ pending = [p \in Partitions |-> {}]
    /\ committerUp = TRUE
    /\ stopping = FALSE
    /\ crashes = 0
    /\ rebalances = 0
    /\ finished = {}
    /\ applied = [i \in TradeIds |-> 0]
    /\ forgotten = [i \in TradeIds |-> 0]

-----------------------------------------------------------------------------
(* The broker and the group *)

(* The matching engine appends a trade. *)
Produce(p) ==
    /\ logEnd[p] < MaxLog
    /\ logEnd' = [logEnd EXCEPT ![p] = @ + 1]
    /\ UNCHANGED <<groupOffset, reader, workers, committer, life, history>>

(* The group rebalances and this consumer gets its partitions back: the client
   resumes at the join position, while the goroutines and the committer's maps
   keep what they hold. *)
Rebalance ==
    /\ ~stopping
    /\ rebalances < MaxRebalances
    /\ rebalances' = rebalances + 1
    /\ position' = [p \in Partitions |-> JoinPosition(p)]
    /\ UNCHANGED <<broker, fetched, tasks, workers, committer, stopping,
                   crashes, history>>

-----------------------------------------------------------------------------
(* The reader goroutine *)

FetchMessage(p) ==
    /\ ~stopping
    /\ fetched = NoMsg
    /\ position[p] < logEnd[p]
    /\ fetched' = <<p, position[p]>>
    /\ position' = [position EXCEPT ![p] = @ + 1]
    /\ UNCHANGED <<broker, tasks, workers, committer, life, history>>

(* tasks <- task: blocks while the channel is full. *)
Enqueue ==
    /\ fetched # NoMsg
    /\ Len(tasks) < ChanBuf
    /\ tasks' = Append(tasks, fetched)
    /\ fetched' = NoMsg
    /\ UNCHANGED <<broker, position, workers, committer, life, history>>

(* The other branch of the select: the reader returns with its message. *)
ReaderExit ==
    /\ stopping
    /\ fetched # NoMsg
    /\ fetched' = NoMsg
    /\ UNCHANGED <<broker, position, tasks, workers, committer, life, history>>

-----------------------------------------------------------------------------
(* The workers *)

TakeTask(w) ==
    /\ wpc[w] = "idle"
    /\ tasks # <<>>
    /\ wmsg' = [wmsg EXCEPT ![w] = Head(tasks)]
    /\ tasks' = Tail(tasks)
    /\ wpc' = [wpc EXCEPT ![w] = "process"]
    /\ UNCHANGED <<broker, position, fetched, seen, committer, life, history>>

(* proto.Unmarshal fails: the error is logged and the offset never signalled. *)
Undecodable(w) ==
    /\ wpc[w] = "process"
    /\ wmsg[w] \in Poison
    /\ wpc' = [wpc EXCEPT ![w] = "idle"]
    /\ wmsg' = [wmsg EXCEPT ![w] = NoMsg]
    /\ UNCHANGED <<broker, reader, seen, committer, life, history>>

(* The deduper knows the trade: process returns nil without handling it. *)
SkipDuplicate(w) ==
    /\ wpc[w] = "process"
    /\ wmsg[w] \notin Poison
    /\ Seen(w)
    /\ finished' = finished \cup {wmsg[w]}
    /\ wpc' = [wpc EXCEPT ![w] = "signal"]
    /\ UNCHANGED <<broker, reader, wmsg, seen, committer, life, applied, forgotten>>

(* The deduper does not know the trade.  Get and Set are two calls. *)
NotSeen(w) ==
    /\ wpc[w] = "process"
    /\ wmsg[w] \notin Poison
    /\ ~Seen(w)
    /\ wpc' = [wpc EXCEPT ![w] = "record"]
    /\ UNCHANGED <<broker, reader, wmsg, seen, committer, life, history>>

(* deduper.Seen, second half: store.Set. *)
Record(w) ==
    /\ wpc[w] = "record"
    /\ seen' = seen \cup {TradeId[wmsg[w]]}
    /\ wpc' = [wpc EXCEPT ![w] = "handle"]
    /\ UNCHANGED <<broker, reader, wmsg, committer, life, history>>

(* The handler runs.  The one main.go installs always returns nil. *)
Handle(w) ==
    /\ wpc[w] = "handle"
    /\ applied' = [applied EXCEPT ![TradeId[wmsg[w]]] = @ + 1]
    /\ finished' = finished \cup {wmsg[w]}
    /\ wpc' = [wpc EXCEPT ![w] = "signal"]
    /\ UNCHANGED <<broker, reader, wmsg, seen, committer, life, forgotten>>

(* completed <- msg, or the default branch when the channel is full: the
   completion is dropped. *)
SignalCompletion(w) ==
    /\ wpc[w] = "signal"
    /\ completed' = IF HasRoom THEN Append(completed, wmsg[w]) ELSE completed
    /\ wpc' = [wpc EXCEPT ![w] = "idle"]
    /\ wmsg' = [wmsg EXCEPT ![w] = NoMsg]
    /\ UNCHANGED <<broker, reader, seen, committed, pending, committerUp, life,
                   history>>

(* Only between two tasks does a worker look at its context. *)
WorkerExit(w) ==
    /\ stopping
    /\ wpc[w] = "idle"
    /\ wpc' = [wpc EXCEPT ![w] = "exited"]
    /\ UNCHANGED <<broker, reader, wmsg, seen, committer, life, history>>

(* The TTL of a trade id runs out. *)
Expire(i) ==
    /\ MayExpire
    /\ i \in seen
    /\ seen' = seen \ {i}
    /\ forgotten' = [forgotten EXCEPT ![i] = @ + 1]
    /\ UNCHANGED <<broker, reader, wpc, wmsg, committer, life, finished, applied>>

-----------------------------------------------------------------------------
(* The committer *)

(* A completion is received and noted in the partition's pending map. *)
Collect ==
    /\ committerUp
    /\ completed # <<>>
    /\ LET m == Head(completed)
       IN  pending' = [pending EXCEPT ![m[1]] = @ \cup {m[2]}]
    /\ completed' = Tail(completed)
    /\ UNCHANGED <<broker, reader, workers, committed, committerUp, life, history>>

(* One pass over the partitions.  result says what becomes of each commit:
   acked; failed, nothing stored; unacked, stored but reported as an error.
   The message passed to the client names a partition and an offset and no
   topic: a client that does not imply one stores nothing. *)
FlushCommits(result) ==
    /\ TopicImplied \/ \A p \in Partitions : result[p] = "failed"
    /\ groupOffset' = [p \in Partitions |->
          IF Advances(p) /\ result[p] # "failed"
            THEN HighestContiguous(p) + 1 ELSE groupOffset[p]]
    /\ committed' = [p \in Partitions |->
          IF Advances(p) /\ result[p] = "acked"
            THEN HighestContiguous(p) ELSE committed[p]]
    /\ pending' = [p \in Partitions |->
          IF Advances(p) /\ result[p] = "acked"
            THEN {o \in pending[p] : o > HighestContiguous(p)} ELSE pending[p]]

CommitterTick(result) ==
    /\ committerUp
    /\ FlushCommits(result)
    /\ UNCHANGED <<logEnd, reader, workers, completed, committerUp, life, history>>

(* The context is done: a last flush, and the committer returns. *)
CommitterExit(result) ==
    /\ committerUp
    /\ stopping
    /\ FlushCommits(result)
    /\ committerUp' = FALSE
    /\ UNCHANGED <<logEnd, reader, workers, completed, life, history>>

-----------------------------------------------------------------------------
(* The process *)

(* SIGTERM, or FetchMessage returned an error: Run cancels its context. *)
Stop ==
    /\ MayStop
    /\ ~stopping
    /\ stopping' = TRUE
    /\ UNCHANGED <<broker, reader, workers, committer, crashes, rebalances, history>>

(* The process dies, or exits once it is stopping, and is started again. *)
Restart ==
    /\ crashes < MaxCrashes
    /\ crashes' = crashes + 1
    /\ position' = [p \in Partitions |-> JoinPosition(p)]
    /\ fetched' = NoMsg
    /\ tasks' = <<>>
    /\ wpc' = [w \in Workers |-> "idle"]
    /\ wmsg' = [w \in Workers |-> NoMsg]
    /\ seen' = {}
    /\ completed' = <<>>
    /\ committed' = [p \in Partitions |-> -1]
    /\ pending' = [p \in Partitions |-> {}]
    /\ committerUp' = TRUE
    /\ stopping' = FALSE
    /\ forgotten' = [i \in TradeIds |-> forgotten[i] + 1]
    /\ UNCHANGED <<broker, rebalances, finished, applied>>

-----------------------------------------------------------------------------
WorkerStep(w) ==
    \/ TakeTask(w) \/ Undecodable(w) \/ SkipDuplicate(w) \/ NotSeen(w)
    \/ Record(w) \/ Handle(w) \/ SignalCompletion(w) \/ WorkerExit(w)

CommitterStep ==
    \/ Collect
    \/ \E result \in [Partitions -> CommitResults] :
          CommitterTick(result) \/ CommitterExit(result)

Next ==
    \/ \E p \in Partitions : Produce(p) \/ FetchMessage(p)
    \/ Enqueue \/ ReaderExit
    \/ \E w \in Workers : WorkerStep(w)
    \/ CommitterStep
    \/ \E i \in TradeIds : Expire(i)
    \/ Rebalance \/ Stop \/ Restart

Spec == Init /\ [][Next]_vars

(* Every goroutine that can run is scheduled, and the commits the ticker
   retries every 500ms do not fail for ever, if the client can store any. *)
AllAcked == [p \in Partitions |-> "acked"]

Fairness ==
    /\ \A p \in Partitions : WF_vars(FetchMessage(p))
    /\ WF_vars(Enqueue)
    /\ \A w \in Workers : WF_vars(WorkerStep(w))
    /\ WF_vars(Collect)
    /\ SF_vars(CommitterTick(AllAcked))

FairSpec == Spec /\ Fairness

-----------------------------------------------------------------------------
(* Properties *)

(* The messages this process has fetched and not yet disposed of. *)
InFlight(m) ==
    \/ m = fetched
    \/ \E k \in 1..Len(tasks) : tasks[k] = m
    \/ \E w \in Workers : wmsg[w] = m

(* The type invariant. *)
TypeOK ==
    /\ logEnd \in [Partitions -> 0..MaxLog]
    /\ groupOffset \in [Partitions -> -1..MaxLog]
    /\ position \in [Partitions -> 0..MaxLog]
    /\ fetched \in Message \cup {NoMsg}
    /\ tasks \in Seq(Message)
    /\ wpc \in [Workers -> Steps]
    /\ wmsg \in [Workers -> Message \cup {NoMsg}]
    /\ \A w \in Workers : wpc[w] \in {"idle", "exited"} <=> wmsg[w] = NoMsg
    /\ seen \subseteq TradeIds
    /\ completed \in Seq(Message)
    /\ committed \in [Partitions -> -1..(MaxLog - 1)]
    /\ pending \in [Partitions -> SUBSET (0..(MaxLog - 1))]
    /\ committerUp \in BOOLEAN
    /\ stopping \in BOOLEAN
    /\ crashes \in Nat
    /\ rebalances \in Nat
    /\ finished \subseteq Message
    /\ applied \in [TradeIds -> Nat]
    /\ forgotten \in [TradeIds -> Nat]

(* The stored offset covers finished messages only, in whatever order the
   workers finish, commits fail, the group rebalances and the process
   restarts: the promise of the centralised committer. *)
CommittedFinished ==
    \A p \in Partitions : \A o \in 0..(groupOffset[p] - 1) : <<p, o>> \in finished

(* A worker is about to run the handler for trade i. *)
InHand(i) == \E w \in Workers : wpc[w] = "handle" /\ TradeId[wmsg[w]] = i

(* A copy skipped as a duplicate may be committed before the trade it repeats
   has been handled, but then another worker has it in its hands: only a crash
   at that moment can lose a trade under the stored offset. *)
CommittedInHand ==
    crashes = 0 =>
        \A p \in Partitions : \A o \in 0..(groupOffset[p] - 1) :
            applied[TradeId[<<p, o>>]] > 0 \/ InHand(TradeId[<<p, o>>])

(* The trade of every message under the stored offset has gone through the
   handler, so a restart loses none: so it is with one worker only. *)
CommittedApplied ==
    \A p \in Partitions : \A o \in 0..(groupOffset[p] - 1) :
        applied[TradeId[<<p, o>>]] > 0

(* No flush ever moves a stored offset back, the first flush of a restarted
   process, whose committed starts at -1 again, included. *)
GroupOffsetMonotone ==
    [][\A p \in Partitions : groupOffset'[p] >= groupOffset[p]]_vars

(* How often a trade can be counted: once per worker, since the deduper looks
   up and records in two calls, and as often again each time its TTL or a
   restart makes the process forget the trade, however many copies of it are
   delivered. *)
RepeatsBounded ==
    \A i \in TradeIds : applied[i] <= Cardinality(Workers) * (1 + forgotten[i])

(* Once a partition has a stored offset, a message of its log is finished,
   undecodable, in flight, or still ahead of the reader: no restart skips it.
   Only a rebalance can, when it comes before the first commit and moves the
   reader, still at work, to the end of the log. *)
NothingSkipped ==
    \A p \in Partitions : groupOffset[p] # -1 /\ rebalances = 0 /\ ~stopping =>
        \A o \in 0..(logEnd[p] - 1) :
            \/ <<p, o>> \in finished \cup Poison
            \/ InFlight(<<p, o>>)
            \/ position[p] <= o

(* The message of p at offset o is behind the reader, and the committer neither
   has heard of it nor ever will: it could not be decoded, its completion was
   dropped, or it is under the offset this process began to read at. *)
Gone(p, o) ==
    /\ position[p] > o
    /\ o \notin pending[p]
    /\ ~InFlight(<<p, o>>)
    /\ \A k \in 1..Len(completed) : completed[k] # <<p, o>>

(* Every produced message is in the end under the stored offset, unless one
   between it and the last offset this process has committed is gone: failing
   commits, workers out of order, expiry, rebalances and crashes alone do not
   hold it up.  A process that began above offset 0 misses offset 0, and one
   lost message below is enough to commit nothing any more. *)
CommitsAdvance ==
    \A p \in Partitions : \A n \in 1..MaxLog :
        logEnd[p] >= n ~>
            \/ groupOffset[p] >= n
            \/ stopping
            \/ \E o \in (committed[p] + 1)..(n - 1) : Gone(p, o)

(* Why CommittedFinished is kept: whatever the committer knows of, or is about
   to be told of, has finished. *)
TrackedFinished ==
    /\ \A p \in Partitions : \A o \in 0..committed[p] \cup pending[p] :
          <<p, o>> \in finished
    /\ \A k \in 1..Len(completed) : completed[k] \in finished
    /\ \A w \in Workers : wpc[w] = "signal" => wmsg[w] \in finished

(* The first message of p is behind the reader and nowhere in this process. *)
FirstGone(p) ==
    /\ position[p] >= 1
    /\ committed[p] = -1
    /\ 0 \notin pending[p]
    /\ ~InFlight(<<p, 0>>)
    /\ \A k \in 1..Len(completed) : completed[k] # <<p, 0>>

(* Why stored offsets never move back: either the committer accounts for every
   offset under the stored one, or it can commit nothing any more, because the
   offset 0 it waits for will not come. *)
OffsetAccounted ==
    \A p \in Partitions :
        \/ groupOffset[p] = -1
        \/ /\ groupOffset[p] >= 1
           /\ \/ 0..(groupOffset[p] - 1) \subseteq 0..committed[p] \cup pending[p]
              \/ FirstGone(p)

(* With one worker, the trade of every finished message has been handled, and
   so has every trade the deduper knows but the one about to be. *)
FinishedApplied == \A m \in finished : applied[TradeId[m]] > 0

SeenApplied == \A i \in seen : applied[i] > 0 \/ InHand(i)

(* With any number of workers and no crash, the trade of every finished message
   has been handled or is about to be. *)
FinishedInHand ==
    crashes = 0 => \A m \in finished : applied[TradeId[m]] > 0 \/ InHand(TradeId[m])

(* The consumer implements the abstract committer, which sees of it the messages
   that have finished and the offsets stored with the broker. *)
OffsetLog == INSTANCE OffsetLog WITH
    finished    <- finished,
    groupOffset <- groupOffset
ImplementsOffsetLog == OffsetLog!Spec
=============================================================================
