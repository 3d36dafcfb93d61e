---------------------------- MODULE ConsumerProofs ----------------------------
(***************************************************************************)
(* Proofs about the Kafka consumer, for any number of partitions, workers  *)
(* and messages and any capacity of the channels: type correctness, that   *)
(* stored offsets cover finished messages only and never move back, that   *)
(* the consumer implements OffsetLog, that restarts skip no message, and   *)
(* what one worker adds to that.                                           *)
(***************************************************************************)
EXTENDS Consumer, FiniteSetTheorems, WellFoundedInduction, TLAPS

-----------------------------------------------------------------------------
(* What HighestContiguous returns *)

(* highestContiguous stops at the first offset that is not pending: nothing
   between the last committed offset and its result is missing. *)
LEMMA HighestContiguousProperties ==
    ASSUME NEW p \in Partitions, TypeOK
    PROVE  /\ HighestContiguous(p) \in committed[p]..(MaxLog - 1)
           /\ (committed[p] + 1)..HighestContiguous(p) \subseteq pending[p]
           /\ HighestContiguous(p) + 1 \notin pending[p]
<1> DEFINE c == committed[p] + 1
           Gaps == {k \in c..MaxLog : k \notin pending[p]}
           Good(k) == /\ k \notin pending[p]
                      /\ c..(k - 1) \subseteq pending[p]
<1>1. /\ MaxLog \in Nat /\ committed[p] \in -1..(MaxLog - 1)
      /\ c \in Nat /\ c <= MaxLog
      /\ pending[p] \subseteq 0..(MaxLog - 1)
  BY LogAssumption DEF TypeOK
<1>2. Gaps \subseteq Nat /\ Gaps # {}
  <2>1. MaxLog \in Gaps
    BY <1>1
  <2> QED BY <2>1, <1>1
<1>3. PICK k \in Gaps : \A j \in Gaps : ~(<<j, k>> \in OpToRel(<, Nat))
  BY <1>2, NatLessThanWellFounded, WFMin
<1>4. \A j \in Gaps : ~(j < k)
  BY <1>2, <1>3 DEF OpToRel
<1>5. k \in c..MaxLog /\ Good(k)
  BY <1>1, <1>4
<1>6. \E next \in c..MaxLog : Good(next)
  BY <1>5
<1> DEFINE first == CHOOSE next \in c..MaxLog : Good(next)
<1>7. first \in c..MaxLog /\ Good(first)
  BY <1>6
<1>8. HighestContiguous(p) = first - 1
  BY DEF HighestContiguous
<1>9. first - 1 \in committed[p]..(MaxLog - 1) /\ (first - 1) + 1 = first
  BY <1>1, <1>7
<1> HIDE DEF first
<1> QED BY <1>1, <1>7, <1>8, <1>9

-----------------------------------------------------------------------------
(* Type correctness *)

(* A pass of flushCommits leaves the offsets and the pending maps well typed. *)
LEMMA FlushCommitsType ==
    ASSUME TypeOK, NEW result, FlushCommits(result)
    PROVE  /\ groupOffset' \in [Partitions -> -1..MaxLog]
           /\ committed' \in [Partitions -> -1..(MaxLog - 1)]
           /\ pending' \in [Partitions -> SUBSET (0..(MaxLog - 1))]
<1>1. ASSUME NEW p \in Partitions
      PROVE  /\ groupOffset[p] \in -1..MaxLog
             /\ committed[p] \in -1..(MaxLog - 1)
             /\ pending[p] \subseteq 0..(MaxLog - 1)
             /\ HighestContiguous(p) \in -1..(MaxLog - 1)
             /\ HighestContiguous(p) + 1 \in -1..MaxLog
  <2>1. /\ groupOffset[p] \in -1..MaxLog
        /\ committed[p] \in -1..(MaxLog - 1)
        /\ pending[p] \subseteq 0..(MaxLog - 1)
    BY DEF TypeOK
  <2>2. HighestContiguous(p) \in committed[p]..(MaxLog - 1)
    BY HighestContiguousProperties
  <2> QED BY <2>1, <2>2, LogAssumption
<1> QED BY <1>1 DEF FlushCommits

(* A message is a partition and an offset below the bound of the log. *)
LEMMA MessageParts ==
    ASSUME NEW m \in Message
    PROVE  m[1] \in Partitions /\ m[2] \in 0..(MaxLog - 1)
  BY DEF Message

(* The types hold initially. *)
LEMMA InitType == Init => TypeOK
<1> SUFFICES ASSUME Init PROVE TypeOK
  OBVIOUS
<1>1. /\ logEnd \in [Partitions -> 0..MaxLog]
      /\ groupOffset \in [Partitions -> -1..MaxLog]
      /\ position \in [Partitions -> 0..MaxLog]
      /\ committed \in [Partitions -> -1..(MaxLog - 1)]
      /\ pending \in [Partitions -> SUBSET (0..(MaxLog - 1))]
  BY LogAssumption DEF Init
<1>2. /\ fetched \in Message \cup {NoMsg}
      /\ tasks \in Seq(Message)
      /\ completed \in Seq(Message)
      /\ finished \subseteq Message
  BY DEF Init
<1>3. /\ wpc \in [Workers -> Steps]
      /\ wmsg \in [Workers -> Message \cup {NoMsg}]
      /\ \A w \in Workers : wpc[w] \in {"idle", "exited"} <=> wmsg[w] = NoMsg
  BY DEF Init, Steps
<1>4. seen \subseteq TradeIds /\ applied \in [TradeIds -> Nat]
  BY DEF Init
<1> QED BY <1>1, <1>2, <1>3, <1>4 DEF Init, TypeOK

(* Every step keeps the types. *)
LEMMA NextType == TypeOK /\ [Next]_vars => TypeOK'
<1> SUFFICES ASSUME TypeOK, [Next]_vars PROVE TypeOK'
  OBVIOUS
<1> USE LogAssumption, MessageAssumption
<1>1. ASSUME NEW p \in Partitions, Produce(p) PROVE TypeOK'
  <2>1. logEnd[p] + 1 \in 0..MaxLog
    BY <1>1 DEF TypeOK, Produce
  <2>2. logEnd' \in [Partitions -> 0..MaxLog]
    BY <1>1, <2>1 DEF TypeOK, Produce
  <2> QED
    BY <1>1, <2>2 DEF TypeOK, Produce, reader, workers, committer, life, history
<1>2. ASSUME NEW p \in Partitions, FetchMessage(p) PROVE TypeOK'
  <2>1. position[p] \in 0..(MaxLog - 1) /\ position[p] + 1 \in 0..MaxLog
    BY <1>2 DEF TypeOK, FetchMessage
  <2>2. <<p, position[p]>> \in Message
    BY <2>1 DEF Message
  <2> QED
    BY <1>2, <2>1, <2>2
       DEF TypeOK, FetchMessage, broker, workers, committer, life, history
<1>3. CASE Enqueue
  BY <1>3 DEF TypeOK, Enqueue, broker, workers, committer, life, history
<1>4. CASE ReaderExit
  BY <1>4 DEF TypeOK, ReaderExit, broker, workers, committer, life, history
<1>5. ASSUME NEW w \in Workers, TakeTask(w) PROVE TypeOK'
  <2>1. Head(tasks) \in Message /\ tasks' \in Seq(Message)
    BY <1>5 DEF TypeOK, TakeTask
  <2>2. Head(tasks) # NoMsg
    BY <2>1
  <2>3. /\ wpc' \in [Workers -> Steps]
        /\ wmsg' \in [Workers -> Message \cup {NoMsg}]
        /\ \A x \in Workers : wpc'[x] \in {"idle", "exited"} <=> wmsg'[x] = NoMsg
    BY <1>5, <2>1, <2>2 DEF TypeOK, Steps, TakeTask
  <2> QED
    BY <1>5, <2>1, <2>3 DEF TypeOK, TakeTask, broker, committer, life, history
<1>6. ASSUME NEW w \in Workers, Undecodable(w) PROVE TypeOK'
  BY <1>6 DEF TypeOK, Steps, Undecodable, broker, reader, committer, life, history
<1>7. ASSUME NEW w \in Workers, SkipDuplicate(w) PROVE TypeOK'
  BY <1>7 DEF TypeOK, Steps, SkipDuplicate, broker, reader, committer, life
<1>8. ASSUME NEW w \in Workers, NotSeen(w) PROVE TypeOK'
  BY <1>8 DEF TypeOK, Steps, NotSeen, broker, reader, committer, life, history
<1>9. ASSUME NEW w \in Workers, Record(w) PROVE TypeOK'
  <2>1. TradeId[wmsg[w]] \in TradeIds
    BY <1>9 DEF TypeOK, Record
  <2>2. seen' \subseteq TradeIds
    BY <1>9, <2>1 DEF TypeOK, Record
  <2>3. /\ wpc' \in [Workers -> Steps]
        /\ \A v \in Workers : wpc'[v] \in {"idle", "exited"} <=> wmsg'[v] = NoMsg
    BY <1>9 DEF TypeOK, Steps, Record
  <2> QED
    BY <1>9, <2>2, <2>3 DEF TypeOK, Record, broker, reader, committer, life, history
<1>10. ASSUME NEW w \in Workers, Handle(w) PROVE TypeOK'
  <2>1. wmsg[w] \in Message
    BY <1>10 DEF TypeOK, Handle
  <2>2. TradeId[wmsg[w]] \in TradeIds
    BY <2>1
  <2>3. applied' \in [TradeIds -> Nat]
    BY <1>10, <2>2 DEF TypeOK, Handle
  <2> QED
    BY <1>10, <2>1, <2>3 DEF TypeOK, Steps, Handle, broker, reader, committer, life
<1>11. ASSUME NEW w \in Workers, SignalCompletion(w) PROVE TypeOK'
  <2>1. wmsg[w] \in Message
    BY <1>11 DEF TypeOK, SignalCompletion
  <2>2. completed' \in Seq(Message)
    BY <1>11, <2>1 DEF TypeOK, SignalCompletion
  <2> QED
    BY <1>11, <2>2 DEF TypeOK, Steps, SignalCompletion, broker, reader, life, history
<1>12. ASSUME NEW w \in Workers, WorkerExit(w) PROVE TypeOK'
  BY <1>12 DEF TypeOK, Steps, WorkerExit, broker, reader, committer, life, history
<1>13. ASSUME NEW i \in TradeIds, Expire(i) PROVE TypeOK'
  BY <1>13 DEF TypeOK, Expire, broker, reader, committer, life, history
<1>14. CASE Collect
  <2>1. Head(completed) \in Message /\ Tail(completed) \in Seq(Message)
    BY <1>14 DEF TypeOK, Collect
  <2>2. Head(completed)[1] \in Partitions /\ Head(completed)[2] \in 0..(MaxLog - 1)
    BY <2>1, MessageParts
  <2>3. pending' \in [Partitions -> SUBSET (0..(MaxLog - 1))]
    BY <1>14, <2>2 DEF TypeOK, Collect
  <2> QED
    BY <1>14, <2>1, <2>3 DEF TypeOK, Collect, broker, reader, workers, life, history
<1>15. ASSUME NEW result, CommitterTick(result) PROVE TypeOK'
  BY <1>15, FlushCommitsType
     DEF TypeOK, CommitterTick, reader, workers, life, history
<1>16. ASSUME NEW result, CommitterExit(result) PROVE TypeOK'
  BY <1>16, FlushCommitsType
     DEF TypeOK, CommitterExit, reader, workers, life, history
<1>17. CASE Rebalance
  BY <1>17 DEF TypeOK, Rebalance, JoinPosition, broker, workers, committer, history
<1>18. CASE Stop
  BY <1>18 DEF TypeOK, Stop, broker, reader, workers, committer, history
<1>19. CASE Restart
  <2>1. /\ position' \in [Partitions -> 0..MaxLog]
        /\ committed' \in [Partitions -> -1..(MaxLog - 1)]
        /\ pending' \in [Partitions -> SUBSET (0..(MaxLog - 1))]
    BY <1>19 DEF TypeOK, Restart, JoinPosition
  <2>2. /\ fetched' \in Message \cup {NoMsg}
        /\ tasks' \in Seq(Message)
        /\ completed' \in Seq(Message)
        /\ seen' \subseteq TradeIds
    BY <1>19 DEF Restart
  <2>3. /\ wpc' \in [Workers -> Steps]
        /\ wmsg' \in [Workers -> Message \cup {NoMsg}]
        /\ \A w \in Workers : wpc'[w] \in {"idle", "exited"} <=> wmsg'[w] = NoMsg
    BY <1>19 DEF Restart, Steps
  <2>4. /\ logEnd' \in [Partitions -> 0..MaxLog]
        /\ groupOffset' \in [Partitions -> -1..MaxLog]
        /\ rebalances' \in Nat
        /\ finished' \subseteq Message
        /\ applied' \in [TradeIds -> Nat]
        /\ forgotten' \in [TradeIds -> Nat]
    BY <1>19 DEF TypeOK, Restart, broker
  <2>5. committerUp' = TRUE /\ stopping' = FALSE
    BY <1>19 DEF Restart
  <2>6. crashes' \in Nat
    BY <1>19 DEF TypeOK, Restart
  <2> QED BY <2>1, <2>2, <2>3, <2>4, <2>5, <2>6 DEF TypeOK
<1>20. CASE UNCHANGED vars
  BY <1>20 DEF TypeOK, vars, broker, reader, workers, committer, life, history
<1> QED
  BY <1>1, <1>2, <1>3, <1>4, <1>5, <1>6, <1>7, <1>8, <1>9, <1>10, <1>11, <1>12,
     <1>13, <1>14, <1>15, <1>16, <1>17, <1>18, <1>19, <1>20
     DEF Next, WorkerStep, CommitterStep

(* The consumer is type correct for all values of its constants. *)
THEOREM TypeCorrect == Spec => []TypeOK
  BY InitType, NextType, PTL DEF Spec

-----------------------------------------------------------------------------
(* Stored offsets cover finished messages only *)

(* What a pass of flushCommits does to one partition: nothing, or it stores the
   offset after the highest contiguous one, with or without the committer
   learning of it. *)
LEMMA FlushCommitsAt ==
    ASSUME NEW result, FlushCommits(result), NEW p \in Partitions
    PROVE  \/ /\ groupOffset'[p] = groupOffset[p]
              /\ committed'[p] = committed[p]
              /\ pending'[p] = pending[p]
           \/ /\ HighestContiguous(p) > committed[p]
              /\ groupOffset'[p] = HighestContiguous(p) + 1
              /\ \/ /\ committed'[p] = HighestContiguous(p)
                    /\ pending'[p] = {o \in pending[p] : o > HighestContiguous(p)}
                 \/ /\ committed'[p] = committed[p]
                    /\ pending'[p] = pending[p]
  BY DEF FlushCommits, Advances

FinishedInv == TypeOK /\ TrackedFinished /\ CommittedFinished

(* A pass of flushCommits keeps the invariant: it stores and commits offsets
   that were committed or pending. *)
LEMMA FlushCommitsFinished ==
    ASSUME FinishedInv, NEW result, FlushCommits(result), UNCHANGED finished
    PROVE  \A p \in Partitions :
              /\ \A o \in 0..committed'[p] \cup pending'[p] : <<p, o>> \in finished'
              /\ \A o \in 0..(groupOffset'[p] - 1) : <<p, o>> \in finished'
<1> TAKE p \in Partitions
<1> DEFINE h == HighestContiguous(p)
<1>1. /\ h \in committed[p]..(MaxLog - 1)
      /\ (committed[p] + 1)..h \subseteq pending[p]
      /\ committed[p] \in -1..(MaxLog - 1)
      /\ groupOffset[p] \in -1..MaxLog
      /\ pending[p] \subseteq Nat
      /\ MaxLog \in Nat
  <2>1. TypeOK
    BY DEF FinishedInv
  <2>2. /\ h \in committed[p]..(MaxLog - 1)
        /\ (committed[p] + 1)..h \subseteq pending[p]
    BY <2>1, HighestContiguousProperties
  <2> QED
    BY <2>1, <2>2, LogAssumption DEF TypeOK
<1>2. /\ \A o \in 0..committed[p] \cup pending[p] : <<p, o>> \in finished
      /\ \A o \in 0..(groupOffset[p] - 1) : <<p, o>> \in finished
  BY DEF FinishedInv, TrackedFinished, CommittedFinished
<1> HIDE DEF h
<1>3. 0..h \subseteq 0..committed[p] \cup pending[p]
  BY <1>1
<1>4. CASE /\ groupOffset'[p] = groupOffset[p]
           /\ committed'[p] = committed[p]
           /\ pending'[p] = pending[p]
  BY <1>2, <1>4
<1>5. CASE /\ groupOffset'[p] = h + 1
           /\ \/ /\ committed'[p] = h
                 /\ pending'[p] = {o \in pending[p] : o > h}
              \/ /\ committed'[p] = committed[p]
                 /\ pending'[p] = pending[p]
  <2>1. 0..(groupOffset'[p] - 1) = 0..h
    BY <1>1, <1>5
  <2>2. 0..committed'[p] \cup pending'[p] \subseteq 0..committed[p] \cup pending[p]
    BY <1>3, <1>5
  <2> QED BY <1>2, <1>3, <2>1, <2>2
<1> QED BY <1>4, <1>5, FlushCommitsAt DEF h

(* The invariant holds initially. *)
LEMMA InitFinished == Init => FinishedInv
<1> SUFFICES ASSUME Init PROVE FinishedInv
  OBVIOUS
<1>1. TypeOK
  BY InitType
<1>2. TrackedFinished /\ CommittedFinished
  BY DEF Init, TrackedFinished, CommittedFinished
<1> QED BY <1>1, <1>2 DEF FinishedInv

(* Every step keeps the invariant. *)
LEMMA NextFinished == FinishedInv /\ [Next]_vars => FinishedInv'
<1> SUFFICES ASSUME FinishedInv, [Next]_vars
             PROVE  TrackedFinished' /\ CommittedFinished'
  BY NextType DEF FinishedInv
<1> USE DEF FinishedInv
<1>1. ASSUME NEW p \in Partitions, Produce(p) \/ FetchMessage(p)
      PROVE  TrackedFinished' /\ CommittedFinished'
  BY <1>1 DEF Produce, FetchMessage, TrackedFinished, CommittedFinished,
              broker, workers, committer, history
<1>2. CASE Enqueue \/ ReaderExit
  BY <1>2 DEF Enqueue, ReaderExit, TrackedFinished, CommittedFinished,
              broker, workers, committer, history
<1>3. ASSUME NEW w \in Workers,
             TakeTask(w) \/ Undecodable(w) \/ NotSeen(w) \/ Record(w) \/ WorkerExit(w)
      PROVE  TrackedFinished' /\ CommittedFinished'
  <2>1. UNCHANGED <<broker, committer, finished>>
    BY <1>3 DEF TakeTask, Undecodable, NotSeen, Record, WorkerExit, history
  <2>2. \A v \in Workers : wpc'[v] = "signal" => wpc[v] = "signal" /\ wmsg'[v] = wmsg[v]
    BY <1>3 DEF TypeOK, TakeTask, Undecodable, NotSeen, Record, WorkerExit
  <2> QED BY <2>1, <2>2 DEF TrackedFinished, CommittedFinished, broker, committer
<1>4. ASSUME NEW w \in Workers, SkipDuplicate(w) \/ Handle(w)
      PROVE  TrackedFinished' /\ CommittedFinished'
  <2>1. UNCHANGED <<broker, committer, wmsg>> /\ finished' = finished \cup {wmsg[w]}
    BY <1>4 DEF SkipDuplicate, Handle
  <2>2. \A v \in Workers : wpc'[v] = "signal" => wpc[v] = "signal" \/ v = w
    BY <1>4 DEF TypeOK, SkipDuplicate, Handle
  <2> QED BY <2>1, <2>2 DEF TrackedFinished, CommittedFinished, broker, committer
<1>5. ASSUME NEW w \in Workers, SignalCompletion(w)
      PROVE  TrackedFinished' /\ CommittedFinished'
  <2>1. UNCHANGED <<broker, committed, pending, finished>>
    BY <1>5 DEF SignalCompletion, history
  <2>2. wmsg[w] \in finished /\ completed \in Seq(Message) /\ wmsg[w] \in Message
    BY <1>5 DEF TypeOK, TrackedFinished, SignalCompletion
  <2>3. completed' = completed \/ completed' = Append(completed, wmsg[w])
    BY <1>5 DEF SignalCompletion
  <2>4. \A k \in 1..Len(completed') : completed'[k] \in finished'
    BY <2>1, <2>2, <2>3 DEF TrackedFinished
  <2>5. \A v \in Workers : wpc'[v] = "signal" => wpc[v] = "signal" /\ wmsg'[v] = wmsg[v]
    BY <1>5 DEF TypeOK, SignalCompletion
  <2> QED BY <2>1, <2>4, <2>5 DEF TrackedFinished, CommittedFinished, broker
<1>6. CASE Collect
  <2>1. UNCHANGED <<broker, wpc, wmsg, committed, finished>>
    BY <1>6 DEF Collect, workers, history
  <2>2. /\ completed \in Seq(Message) /\ completed # <<>>
        /\ Head(completed) \in finished /\ Head(completed) \in Message
    BY <1>6 DEF Collect, TypeOK, TrackedFinished
  <2>3. Head(completed) = <<Head(completed)[1], Head(completed)[2]>>
    BY <2>2 DEF Message
  <2>4. \A k \in 1..Len(completed') : completed'[k] \in finished'
    BY <1>6, <2>1, <2>2 DEF Collect, TrackedFinished
  <2>5. ASSUME NEW p \in Partitions, NEW o \in pending'[p]
        PROVE  <<p, o>> \in finished
    <3>1. o \in pending[p] \/ (p = Head(completed)[1] /\ o = Head(completed)[2])
      BY <1>6 DEF Collect, TypeOK
    <3> QED BY <2>2, <2>3, <3>1 DEF TrackedFinished
  <2> QED BY <2>1, <2>4, <2>5 DEF TrackedFinished, CommittedFinished, broker
<1>7. ASSUME NEW result, CommitterTick(result) \/ CommitterExit(result)
      PROVE  TrackedFinished' /\ CommittedFinished'
  <2>1. FlushCommits(result) /\ UNCHANGED <<completed, workers, finished>>
    BY <1>7 DEF CommitterTick, CommitterExit, history
  <2> QED
    BY <2>1, FlushCommitsFinished DEF TrackedFinished, CommittedFinished, workers
<1>8. ASSUME NEW i \in TradeIds, Expire(i)
      PROVE  TrackedFinished' /\ CommittedFinished'
  BY <1>8 DEF Expire, TrackedFinished, CommittedFinished, broker, committer, history
<1>9. CASE Rebalance \/ Stop
  BY <1>9 DEF Rebalance, Stop, TrackedFinished, CommittedFinished,
              broker, workers, committer, history
<1>10. CASE Restart
  BY <1>10 DEF Restart, TrackedFinished, CommittedFinished, broker, history
<1>11. CASE UNCHANGED vars
  BY <1>11 DEF vars, TrackedFinished, CommittedFinished,
               broker, workers, committer, history
<1> QED
  BY <1>1, <1>2, <1>3, <1>4, <1>5, <1>6, <1>7, <1>8, <1>9, <1>10, <1>11
     DEF Next, WorkerStep, CommitterStep

(* A stored offset covers finished messages only, whatever the order in which
   the workers finish, the failures of commits, rebalances and restarts. *)
THEOREM CommitsAreSafe == Spec => []CommittedFinished
<1>1. FinishedInv => CommittedFinished
  BY DEF FinishedInv
<1> QED BY <1>1, InitFinished, NextFinished, PTL DEF Spec

-----------------------------------------------------------------------------
(* Stored offsets never move back *)

(* The first message of p is not held by any goroutine or channel. *)
FirstAbsent(p) ==
    /\ ~InFlight(<<p, 0>>)
    /\ \A k \in 1..Len(completed) : completed[k] # <<p, 0>>

OffsetInv == TypeOK /\ OffsetAccounted

(* The offset 0 names a message in every partition. *)
LEMMA FirstIsMessage == \A p \in Partitions : <<p, 0>> \in Message /\ <<p, 0>> # NoMsg
  BY LogAssumption, MessageAssumption DEF Message

(* The invariant is kept by a step that does not touch the offsets and brings
   the first message of a partition back to no place it was gone from. *)
LEMMA OffsetAccountedKept ==
    ASSUME OffsetAccounted,
           UNCHANGED <<groupOffset, committed, pending>>,
           \A p \in Partitions : position[p] >= 1 /\ FirstAbsent(p)
                                => position'[p] >= 1 /\ FirstAbsent(p)'
    PROVE  OffsetAccounted'
  BY DEF OffsetAccounted, FirstGone, FirstAbsent

(* A pass of flushCommits keeps the invariant and moves no offset back. *)
LEMMA FlushCommitsOffsets ==
    ASSUME OffsetInv, NEW result, FlushCommits(result),
           UNCHANGED <<position, fetched, tasks, wmsg, completed>>
    PROVE  /\ OffsetAccounted'
           /\ \A p \in Partitions : groupOffset'[p] >= groupOffset[p]
<1> SUFFICES ASSUME NEW p \in Partitions
             PROVE  /\ groupOffset'[p] >= groupOffset[p]
                    /\ \/ groupOffset'[p] = -1
                       \/ /\ groupOffset'[p] >= 1
                          /\ \/ 0..(groupOffset'[p] - 1)
                                   \subseteq 0..committed'[p] \cup pending'[p]
                             \/ FirstGone(p)'
  BY DEF OffsetAccounted
<1> DEFINE h == HighestContiguous(p)
<1>1. TypeOK
  BY DEF OffsetInv
<1>2. /\ h \in committed[p]..(MaxLog - 1)
      /\ (committed[p] + 1)..h \subseteq pending[p]
      /\ h + 1 \notin pending[p]
  BY <1>1, HighestContiguousProperties
<1>3. /\ committed[p] \in -1..(MaxLog - 1)
      /\ groupOffset[p] \in -1..MaxLog
      /\ pending[p] \subseteq Nat
      /\ MaxLog \in Nat
  BY <1>1, LogAssumption DEF TypeOK
<1>4. \/ groupOffset[p] = -1
      \/ /\ groupOffset[p] >= 1
         /\ \/ 0..(groupOffset[p] - 1) \subseteq 0..committed[p] \cup pending[p]
            \/ FirstGone(p)
  BY DEF OffsetInv, OffsetAccounted
<1>5. CASE /\ groupOffset'[p] = groupOffset[p]
           /\ committed'[p] = committed[p]
           /\ pending'[p] = pending[p]
  <2>1. FirstGone(p) => FirstGone(p)'
    BY <1>5 DEF FirstGone, InFlight
  <2> QED BY <1>3, <1>4, <1>5, <2>1
<1>6. CASE /\ HighestContiguous(p) > committed[p]
           /\ groupOffset'[p] = HighestContiguous(p) + 1
           /\ \/ /\ committed'[p] = HighestContiguous(p)
                 /\ pending'[p] = {o \in pending[p] : o > HighestContiguous(p)}
              \/ /\ committed'[p] = committed[p]
                 /\ pending'[p] = pending[p]
  <2> HIDE DEF h
  <2>1. /\ h > committed[p] /\ groupOffset'[p] = h + 1
        /\ \/ committed'[p] = h
           \/ committed'[p] = committed[p] /\ pending'[p] = pending[p]
    BY <1>6 DEF h
  <2>2. h \in Nat /\ 0..(groupOffset'[p] - 1) = 0..h
    BY <1>2, <1>3, <2>1
  <2>3. 0..h \subseteq 0..committed'[p] \cup pending'[p]
    BY <1>2, <1>3, <2>1, <2>2
  <2>4. committed[p] = -1 => 0 \in pending[p]
    BY <1>2, <1>3, <2>1, <2>2
  <2>5. ~FirstGone(p)
    BY <2>4 DEF FirstGone
  <2>6. 0..(groupOffset[p] - 1) \subseteq 0..committed[p] \cup pending[p]
        => h + 1 >= groupOffset[p]
    <3>1. h + 1 \notin 0..committed[p] \cup pending[p]
      BY <1>2, <1>3, <2>1
    <3> QED BY <1>3, <2>2, <3>1
  <2>7. groupOffset'[p] >= groupOffset[p]
    BY <1>3, <1>4, <2>1, <2>2, <2>5, <2>6
  <2> QED BY <2>1, <2>2, <2>3, <2>7
<1> QED BY <1>5, <1>6, FlushCommitsAt

(* The invariant holds initially. *)
LEMMA InitOffset == Init => OffsetInv
  BY InitType DEF Init, OffsetInv, OffsetAccounted

(* Every step keeps the invariant, and no step moves a stored offset back. *)
LEMMA NextOffset ==
    OffsetInv /\ [Next]_vars
        => OffsetInv' /\ \A p \in Partitions : groupOffset'[p] >= groupOffset[p]
<1> DEFINE Good == /\ OffsetAccounted'
                   /\ \A p \in Partitions : groupOffset'[p] >= groupOffset[p]
<1> SUFFICES ASSUME TypeOK, OffsetAccounted, [Next]_vars PROVE Good
  BY NextType DEF OffsetInv
<1>0. \A p \in Partitions : groupOffset[p] >= groupOffset[p]
  BY LogAssumption DEF TypeOK
<1>1. ASSUME NEW q \in Partitions, Produce(q) PROVE Good
  <2>1. UNCHANGED <<groupOffset, committed, pending, position, fetched, tasks, wmsg, completed>>
    BY <1>1 DEF Produce, reader, workers, committer
  <2> QED BY <1>0, <2>1, OffsetAccountedKept DEF FirstAbsent, InFlight
<1>2. ASSUME NEW q \in Partitions, FetchMessage(q) PROVE Good
  <2>1. UNCHANGED <<groupOffset, committed, pending, tasks, wmsg, completed>>
    BY <1>2 DEF FetchMessage, broker, workers, committer
  <2>2. ASSUME NEW p \in Partitions, position[p] >= 1 /\ FirstAbsent(p)
        PROVE  position'[p] >= 1 /\ FirstAbsent(p)'
    <3>1. position'[p] >= 1
      BY <1>2, <2>2, LogAssumption DEF FetchMessage, TypeOK
    <3>2. fetched' # <<p, 0>>
      BY <1>2, <2>2, LogAssumption DEF FetchMessage, TypeOK
    <3> QED BY <2>1, <2>2, <3>1, <3>2 DEF FirstAbsent, InFlight
  <2> QED BY <1>0, <2>1, <2>2, OffsetAccountedKept
<1>3. CASE Enqueue
  <2>1. UNCHANGED <<groupOffset, committed, pending, position, wmsg, completed>>
    BY <1>3 DEF Enqueue, broker, workers, committer
  <2>2. /\ \A k \in 1..Len(tasks') :
              tasks'[k] = fetched \/ \E j \in 1..Len(tasks) : tasks'[k] = tasks[j]
        /\ fetched' = NoMsg
    <3>1. tasks \in Seq(Message) /\ fetched \in Message
      BY <1>3 DEF Enqueue, TypeOK
    <3>2. tasks' = Append(tasks, fetched) /\ fetched' = NoMsg
      BY <1>3 DEF Enqueue
    <3> QED BY <3>1, <3>2
  <2> QED
    BY <1>0, <2>1, <2>2, FirstIsMessage, OffsetAccountedKept DEF FirstAbsent, InFlight
<1>4. CASE ReaderExit
  <2>1. /\ UNCHANGED <<groupOffset, committed, pending, position, tasks, wmsg, completed>>
        /\ fetched' = NoMsg
    BY <1>4 DEF ReaderExit, broker, workers, committer
  <2> QED
    BY <1>0, <2>1, FirstIsMessage, OffsetAccountedKept DEF FirstAbsent, InFlight
<1>5. ASSUME NEW w \in Workers, TakeTask(w) PROVE Good
  <2>1. UNCHANGED <<groupOffset, committed, pending, position, fetched, completed>>
    BY <1>5 DEF TakeTask, broker, committer
  <2>2. /\ \A k \in 1..Len(tasks') : \E j \in 1..Len(tasks) : tasks'[k] = tasks[j]
        /\ Head(tasks) = tasks[1] /\ 1 \in 1..Len(tasks)
    BY <1>5 DEF TakeTask, TypeOK
  <2>3. \A v \in Workers : wmsg'[v] = wmsg[v] \/ wmsg'[v] = Head(tasks)
    BY <1>5 DEF TakeTask, TypeOK
  <2> QED BY <1>0, <2>1, <2>2, <2>3, OffsetAccountedKept DEF FirstAbsent, InFlight
<1>6. ASSUME NEW w \in Workers, SignalCompletion(w) PROVE Good
  <2>1. UNCHANGED <<groupOffset, committed, pending, position, fetched, tasks>>
    BY <1>6 DEF SignalCompletion, broker, reader
  <2>2. \A v \in Workers : wmsg'[v] = wmsg[v] \/ wmsg'[v] = NoMsg
    BY <1>6 DEF SignalCompletion, TypeOK
  <2>3. \A k \in 1..Len(completed') :
           \/ \E v \in Workers : completed'[k] = wmsg[v]
           \/ \E j \in 1..Len(completed) : completed'[k] = completed[j]
    BY <1>6 DEF SignalCompletion, TypeOK
  <2> QED
    BY <1>0, <2>1, <2>2, <2>3, FirstIsMessage, OffsetAccountedKept
       DEF FirstAbsent, InFlight
<1>7. ASSUME NEW w \in Workers,
             \/ Undecodable(w) \/ SkipDuplicate(w) \/ NotSeen(w)
             \/ Record(w) \/ Handle(w) \/ WorkerExit(w)
      PROVE  Good
  <2>1. UNCHANGED <<groupOffset, committed, pending, position, fetched, tasks, completed>>
    BY <1>7 DEF Undecodable, SkipDuplicate, NotSeen, Record, Handle, WorkerExit,
                broker, reader, committer
  <2>2. \A v \in Workers : wmsg'[v] = wmsg[v] \/ wmsg'[v] = NoMsg
    BY <1>7 DEF Undecodable, SkipDuplicate, NotSeen, Record, Handle, WorkerExit, TypeOK
  <2> QED
    BY <1>0, <2>1, <2>2, FirstIsMessage, OffsetAccountedKept DEF FirstAbsent, InFlight
<1>8. CASE Collect
  <2>1. UNCHANGED <<groupOffset, position, fetched, tasks, wmsg, committed>>
    BY <1>8 DEF Collect, broker, reader, workers
  <2>2. /\ \A k \in 1..Len(completed') : \E j \in 1..Len(completed) : completed'[k] = completed[j]
        /\ Head(completed) = completed[1] /\ 1 \in 1..Len(completed)
        /\ Head(completed) \in Message
    BY <1>8 DEF Collect, TypeOK
  <2>3. Head(completed) = <<Head(completed)[1], Head(completed)[2]>>
    BY <2>2 DEF Message
  <2>4. \A p \in Partitions : pending'[p] =
            IF p = Head(completed)[1] THEN pending[p] \cup {Head(completed)[2]}
                                      ELSE pending[p]
    BY <1>8 DEF Collect, TypeOK
  <2>5. ASSUME NEW p \in Partitions, FirstGone(p) PROVE FirstGone(p)'
    <3>1. Head(completed) # <<p, 0>>
      BY <2>2, <2>5 DEF FirstGone
    <3>2. 0 \notin pending'[p]
      BY <2>3, <2>4, <2>5, <3>1 DEF FirstGone
    <3>3. \A k \in 1..Len(completed') : completed'[k] # <<p, 0>>
      BY <2>2, <2>5 DEF FirstGone
    <3> QED BY <2>1, <2>5, <3>2, <3>3 DEF FirstGone, InFlight
  <2>6. \A p \in Partitions : pending[p] \subseteq pending'[p]
    BY <2>4
  <2> QED BY <1>0, <2>1, <2>5, <2>6 DEF OffsetAccounted
<1>9. ASSUME NEW result, CommitterTick(result) \/ CommitterExit(result) PROVE Good
  <2>1. FlushCommits(result) /\ UNCHANGED <<position, fetched, tasks, wmsg, completed>>
    BY <1>9 DEF CommitterTick, CommitterExit, reader, workers
  <2> QED BY <2>1, FlushCommitsOffsets DEF OffsetInv
<1>10. ASSUME NEW i \in TradeIds, Expire(i) PROVE Good
  <2>1. UNCHANGED <<groupOffset, committed, pending, position, fetched, tasks, wmsg, completed>>
    BY <1>10 DEF Expire, broker, reader, committer
  <2> QED BY <1>0, <2>1, OffsetAccountedKept DEF FirstAbsent, InFlight
<1>11. CASE Rebalance
  <2>1. UNCHANGED <<groupOffset, committed, pending, fetched, tasks, wmsg, completed>>
    BY <1>11 DEF Rebalance, broker, workers, committer
  <2>2. \A p \in Partitions : groupOffset[p] >= 1 => position'[p] >= 1
    BY <1>11 DEF Rebalance, JoinPosition, TypeOK
  <2>3. \A p \in Partitions : groupOffset[p] >= 1 /\ FirstGone(p) => FirstGone(p)'
    BY <2>1, <2>2 DEF FirstGone, InFlight
  <2> QED BY <1>0, <2>1, <2>3 DEF OffsetAccounted
<1>12. CASE Stop
  <2>1. UNCHANGED <<groupOffset, committed, pending, position, fetched, tasks, wmsg, completed>>
    BY <1>12 DEF Stop, broker, reader, workers, committer
  <2> QED BY <1>0, <2>1, OffsetAccountedKept DEF FirstAbsent, InFlight
<1>13. CASE Restart
  <2>1. UNCHANGED groupOffset
    BY <1>13 DEF Restart, broker
  <2>2. \A p \in Partitions : groupOffset[p] >= 1 => position'[p] >= 1
    BY <1>13 DEF Restart, JoinPosition, TypeOK
  <2>3. ASSUME NEW p \in Partitions, position'[p] >= 1 PROVE FirstGone(p)'
    BY <1>13, <2>3, FirstIsMessage DEF Restart, FirstGone, InFlight
  <2> QED BY <1>0, <2>1, <2>2, <2>3 DEF OffsetAccounted
<1>14. CASE UNCHANGED vars
  <2>1. UNCHANGED <<groupOffset, committed, pending, position, fetched, tasks, wmsg, completed>>
    BY <1>14 DEF vars, broker, reader, workers, committer
  <2> QED BY <1>0, <2>1, OffsetAccountedKept DEF FirstAbsent, InFlight
<1> QED
  BY <1>1, <1>2, <1>3, <1>4, <1>5, <1>6, <1>7, <1>8, <1>9, <1>10, <1>11, <1>12,
     <1>13, <1>14
     DEF Next, WorkerStep, CommitterStep

(* No flush moves a stored offset back, whatever happens to the commits and
   however often the group rebalances and the process restarts. *)
THEOREM OffsetsNeverMoveBack == Spec => GroupOffsetMonotone
  BY InitOffset, NextOffset, PTL DEF Spec, GroupOffsetMonotone

-----------------------------------------------------------------------------
(* The consumer implements the abstract committer *)

(* Every step of the consumer is a step of OffsetLog or leaves its variables
   unchanged: a message finishes, or offsets move over finished messages. *)
LEMMA NextImplements ==
    FinishedInv /\ FinishedInv' /\ OffsetInv /\ [Next]_vars
        => [OffsetLog!Next]_(OffsetLog!vars)
<1> SUFFICES ASSUME FinishedInv, FinishedInv', OffsetInv, [Next]_vars
             PROVE  OffsetLog!Next \/ UNCHANGED OffsetLog!vars
  OBVIOUS
<1>1. ASSUME NEW w \in Workers, SkipDuplicate(w) \/ Handle(w)
      PROVE  OffsetLog!Next
  <2>1. wmsg[w] \in Message
    BY <1>1 DEF FinishedInv, TypeOK, SkipDuplicate, Handle
  <2>2. OffsetLog!Finish(wmsg[w])
    BY <1>1 DEF SkipDuplicate, Handle, OffsetLog!Finish, broker
  <2> QED BY <2>1, <2>2 DEF OffsetLog!Next, OffsetLog!Message, Message
<1>2. ASSUME NEW result, CommitterTick(result) \/ CommitterExit(result)
      PROVE  OffsetLog!Next
  <2>1. \A p \in Partitions : groupOffset'[p] >= groupOffset[p]
    BY NextOffset
  <2>2. groupOffset' \in [Partitions -> -1..MaxLog]
    BY DEF FinishedInv, TypeOK
  <2>3. UNCHANGED finished
    BY <1>2 DEF CommitterTick, CommitterExit, history
  <2>4. OffsetLog!Commit(groupOffset')
    BY <2>1, <2>3 DEF OffsetLog!Commit, FinishedInv, CommittedFinished
  <2> QED BY <2>2, <2>4 DEF OffsetLog!Next
<1>3. ASSUME \/ \E p \in Partitions : Produce(p) \/ FetchMessage(p)
             \/ Enqueue \/ ReaderExit
             \/ \E w \in Workers :
                   \/ TakeTask(w) \/ Undecodable(w) \/ NotSeen(w)
                   \/ Record(w) \/ SignalCompletion(w) \/ WorkerExit(w)
             \/ Collect
             \/ \E i \in TradeIds : Expire(i)
             \/ Rebalance \/ Stop \/ Restart
             \/ UNCHANGED vars
      PROVE  UNCHANGED OffsetLog!vars
  BY <1>3 DEF Produce, FetchMessage, Enqueue, ReaderExit, TakeTask, Undecodable,
              NotSeen, Record, SignalCompletion, WorkerExit, Collect, Expire,
              Rebalance, Stop, Restart, vars, broker, history, OffsetLog!vars
<1> QED
  BY <1>1, <1>2, <1>3 DEF Next, WorkerStep, CommitterStep

(* The consumer implements OffsetLog: seen from outside it is a set of finished
   messages and stored offsets that move forward over them. *)
THEOREM ConsumerImplementsOffsetLog == Spec => ImplementsOffsetLog
<1>1. Init => OffsetLog!Init
  BY DEF Init, OffsetLog!Init
<1>2. QED
  BY <1>1, InitFinished, NextFinished, InitOffset, NextOffset, NextImplements, PTL
     DEF Spec, ImplementsOffsetLog, OffsetLog!Spec

-----------------------------------------------------------------------------
(* With one worker, committed implies applied *)

AppliedInv == FinishedInv /\ FinishedApplied /\ SeenApplied

(* Handlers only add to what has been applied. *)
LEMMA AppliedGrows ==
    ASSUME TypeOK, [Next]_vars
    PROVE  \A i \in TradeIds : applied[i] > 0 => applied'[i] > 0
<1>1. ASSUME NEW w \in Workers, Handle(w)
      PROVE  \A i \in TradeIds : applied[i] > 0 => applied'[i] > 0
  BY <1>1 DEF Handle, TypeOK
<1>2. ASSUME NEW w \in Workers,
             \/ TakeTask(w) \/ Undecodable(w) \/ SkipDuplicate(w) \/ NotSeen(w)
             \/ Record(w) \/ SignalCompletion(w) \/ WorkerExit(w)
      PROVE  UNCHANGED applied
  BY <1>2 DEF TakeTask, Undecodable, SkipDuplicate, NotSeen, Record,
              SignalCompletion, WorkerExit, history
<1>3. CASE \/ \E p \in Partitions : Produce(p) \/ FetchMessage(p)
           \/ Enqueue \/ ReaderExit \/ CommitterStep
           \/ \E i \in TradeIds : Expire(i)
           \/ Rebalance \/ Stop \/ Restart \/ UNCHANGED vars
  <2>1. UNCHANGED applied
    BY <1>3 DEF Produce, FetchMessage, Enqueue, ReaderExit, CommitterStep, Collect,
                CommitterTick, CommitterExit, Expire, Rebalance, Stop, Restart,
                vars, history
  <2> QED BY <2>1
<1> QED BY <1>1, <1>2, <1>3 DEF Next, WorkerStep

(* With one worker every step keeps the invariant: when it finds a trade among
   the seen ones, no other worker can still be about to handle it. *)
LEMMA NextApplied ==
    ASSUME \A v, w \in Workers : v = w,
           AppliedInv, [Next]_vars
    PROVE  AppliedInv'
<1> USE MessageAssumption
<1>1. TypeOK /\ FinishedInv' /\ FinishedApplied /\ SeenApplied
  BY NextFinished DEF AppliedInv, FinishedInv
<1>2. /\ \A i \in TradeIds : applied[i] > 0 => applied'[i] > 0
      /\ finished \subseteq Message /\ seen \subseteq TradeIds
      /\ \A m \in Message : TradeId[m] \in TradeIds
  BY <1>1, AppliedGrows DEF TypeOK
<1> DEFINE Good == FinishedApplied' /\ SeenApplied'
<1>3. ASSUME UNCHANGED finished PROVE FinishedApplied'
  BY <1>1, <1>2, <1>3 DEF FinishedApplied
<1>4. ASSUME seen' \subseteq seen,
             \A w \in Workers : wpc[w] = "handle" => wpc'[w] = "handle" /\ wmsg'[w] = wmsg[w]
      PROVE  SeenApplied'
  BY <1>1, <1>2, <1>4 DEF SeenApplied, InHand
<1>5. ASSUME NEW w \in Workers,
             \/ TakeTask(w) \/ Undecodable(w) \/ NotSeen(w)
             \/ SignalCompletion(w) \/ WorkerExit(w)
      PROVE  Good
  BY <1>1, <1>3, <1>4, <1>5
     DEF TypeOK, TakeTask, Undecodable, NotSeen, SignalCompletion, WorkerExit, history
<1>6. ASSUME NEW w \in Workers, SkipDuplicate(w) PROVE Good
  <2>1. /\ wmsg[w] \in Message /\ TradeId[wmsg[w]] \in seen
        /\ finished' = finished \cup {wmsg[w]}
        /\ UNCHANGED <<seen, applied, wmsg>>
        /\ wpc[w] = "process"
    BY <1>1, <1>6 DEF SkipDuplicate, Seen, TypeOK
  <2>2. \A v \in Workers : wpc[v] # "handle"
    BY <2>1
  <2>3. applied[TradeId[wmsg[w]]] > 0
    BY <1>1, <2>1, <2>2 DEF SeenApplied, InHand
  <2>4. FinishedApplied'
    BY <1>1, <2>1, <2>3 DEF FinishedApplied
  <2> QED BY <1>4, <2>1, <2>2, <2>4
<1>7. ASSUME NEW w \in Workers, Record(w) PROVE Good
  <2>1. /\ seen' = seen \cup {TradeId[wmsg[w]]}
        /\ wpc'[w] = "handle"
        /\ UNCHANGED <<finished, applied, wmsg>>
        /\ \A v \in Workers : wpc[v] = "handle" => wpc'[v] = "handle"
    BY <1>1, <1>7 DEF Record, TypeOK, history
  <2> QED BY <1>1, <1>3, <2>1 DEF SeenApplied, InHand
<1>8. ASSUME NEW w \in Workers, Handle(w) PROVE Good
  <2>1. /\ wmsg[w] \in Message
        /\ finished' = finished \cup {wmsg[w]}
        /\ applied' = [applied EXCEPT ![TradeId[wmsg[w]]] = @ + 1]
        /\ UNCHANGED <<seen, wmsg>>
        /\ \A v \in Workers : v # w => wpc'[v] = wpc[v]
    BY <1>1, <1>8 DEF Handle, TypeOK
  <2>2. applied'[TradeId[wmsg[w]]] > 0
    BY <1>1, <1>2, <2>1 DEF TypeOK
  <2>3. FinishedApplied'
    BY <1>1, <1>2, <2>1, <2>2 DEF FinishedApplied
  <2>4. SeenApplied'
    BY <1>1, <1>2, <2>1, <2>2 DEF SeenApplied, InHand
  <2> QED BY <2>3, <2>4
<1>9. ASSUME \/ \E p \in Partitions : Produce(p) \/ FetchMessage(p)
             \/ Enqueue \/ ReaderExit \/ CommitterStep
             \/ \E i \in TradeIds : Expire(i)
             \/ Rebalance \/ Stop \/ UNCHANGED vars
      PROVE  Good
  <2>1. UNCHANGED <<finished, wpc, wmsg>> /\ seen' \subseteq seen
    BY <1>9 DEF Produce, FetchMessage, Enqueue, ReaderExit, CommitterStep, Collect,
                CommitterTick, CommitterExit, Expire, Rebalance, Stop,
                vars, workers, history
  <2> QED BY <1>3, <1>4, <2>1
<1>10. ASSUME Restart PROVE Good
  BY <1>3, <1>10 DEF Restart, history, SeenApplied
<1>11. Good
  BY <1>5, <1>6, <1>7, <1>8, <1>9, <1>10 DEF Next, WorkerStep
<1> QED BY <1>1, <1>11 DEF AppliedInv

(* With one worker a stored offset covers messages whose trades have gone
   through the handler, so that a restart loses none of them. *)
THEOREM SingleWorkerCommitsApplied ==
    ASSUME \A v, w \in Workers : v = w
    PROVE  Spec => []CommittedApplied
<1>1. Init => AppliedInv
  BY InitFinished DEF Init, AppliedInv, FinishedApplied, SeenApplied
<1>2. AppliedInv /\ [Next]_vars => AppliedInv'
  BY NextApplied
<1>3. AppliedInv => CommittedApplied
  BY DEF AppliedInv, FinishedInv, CommittedFinished, FinishedApplied, CommittedApplied
<1> QED BY <1>1, <1>2, <1>3, PTL DEF Spec

-----------------------------------------------------------------------------
(* With any number of workers, committed implies applied or in hand *)

(* What has been applied stays so, and a worker about to apply a trade does, or
   dies with the process. *)
LEMMA HandKept ==
    ASSUME TypeOK, [Next]_vars, ~Restart, NEW i \in TradeIds,
           applied[i] > 0 \/ InHand(i)
    PROVE  applied'[i] > 0 \/ InHand(i)'
<1>1. applied[i] > 0 => applied'[i] > 0
  BY AppliedGrows
<1>2. ASSUME NEW v \in Workers, wpc[v] = "handle", TradeId[wmsg[v]] = i
      PROVE  applied'[i] > 0 \/ InHand(i)'
  <2>1. ASSUME wpc'[v] = "handle", wmsg'[v] = wmsg[v] PROVE InHand(i)'
    BY <1>2, <2>1 DEF InHand
  <2>2. ASSUME Handle(v) PROVE applied'[i] > 0
    BY <1>2, <2>2 DEF Handle, TypeOK
  <2>3. ASSUME NEW w \in Workers, WorkerStep(w), ~(w = v /\ Handle(w))
        PROVE  wpc'[v] = "handle" /\ wmsg'[v] = wmsg[v]
    BY <1>2, <2>3 DEF WorkerStep, TakeTask, Undecodable, SkipDuplicate, NotSeen, Record,
                      Handle, SignalCompletion, WorkerExit, TypeOK
  <2>4. ASSUME \/ \E p \in Partitions : Produce(p) \/ FetchMessage(p)
               \/ Enqueue \/ ReaderExit \/ CommitterStep
               \/ \E j \in TradeIds : Expire(j)
               \/ Rebalance \/ Stop \/ UNCHANGED vars
        PROVE  wpc'[v] = "handle" /\ wmsg'[v] = wmsg[v]
    BY <1>2, <2>4 DEF Produce, FetchMessage, Enqueue, ReaderExit, CommitterStep, Collect,
                CommitterTick, CommitterExit, Expire, Rebalance, Stop, vars, workers
  <2> QED BY <2>1, <2>2, <2>3, <2>4 DEF Next
<1> QED BY <1>1, <1>2 DEF InHand

InHandInv == FinishedInv /\ SeenApplied /\ FinishedInHand

(* Every step keeps the invariant: a copy is skipped only when its trade is
   recorded, and then it has been applied or is in the hands of a worker. *)
LEMMA NextInHand == InHandInv /\ [Next]_vars => InHandInv'
<1> SUFFICES ASSUME InHandInv, [Next]_vars PROVE SeenApplied' /\ FinishedInHand'
  BY NextFinished DEF InHandInv
<1>1. /\ TypeOK /\ SeenApplied /\ FinishedInHand
      /\ finished \subseteq Message /\ seen \subseteq TradeIds /\ crashes \in Nat
      /\ \A m \in Message : TradeId[m] \in TradeIds
  BY MessageAssumption DEF InHandInv, FinishedInv, TypeOK
<1>2. CASE Restart
  <2>1. seen' = {} /\ crashes' # 0
    BY <1>1, <1>2 DEF Restart
  <2> QED BY <2>1 DEF SeenApplied, FinishedInHand
<1>3. CASE ~Restart
  <2>1. \A i \in TradeIds : applied[i] > 0 \/ InHand(i) => applied'[i] > 0 \/ InHand(i)'
    BY <1>1, <1>3, HandKept
  <2>2. \/ UNCHANGED <<seen, finished>>
        \/ seen' \subseteq seen /\ finished' = finished
        \/ \E w \in Workers : SkipDuplicate(w) \/ Record(w) \/ Handle(w)
    BY <1>3 DEF Next, WorkerStep, Produce, FetchMessage, Enqueue, ReaderExit, TakeTask,
                Undecodable, NotSeen, SignalCompletion, WorkerExit, CommitterStep, Collect,
                CommitterTick, CommitterExit, Expire, Rebalance, Stop, vars, workers,
                history
  <2>3. crashes' = 0 => crashes = 0
    <3>1. ASSUME NEW w \in Workers, WorkerStep(w) PROVE crashes' = crashes
      BY <3>1 DEF WorkerStep, TakeTask, Undecodable, SkipDuplicate, NotSeen, Record,
                  Handle, SignalCompletion, WorkerExit, life
    <3> QED
      BY <1>3, <3>1 DEF Next, Produce, FetchMessage, Enqueue, ReaderExit, CommitterStep,
                  Collect, CommitterTick, CommitterExit, Expire, Rebalance, Stop, vars, life
  <2>4. CASE seen' \subseteq seen /\ finished' = finished
    <3>1. SeenApplied'
      BY <1>1, <2>1, <2>4 DEF SeenApplied
    <3> QED BY <1>1, <2>1, <2>3, <2>4, <3>1 DEF FinishedInHand
  <2>5. ASSUME NEW w \in Workers, SkipDuplicate(w) PROVE SeenApplied' /\ FinishedInHand'
    <3>1. /\ TradeId[wmsg[w]] \in seen /\ seen' = seen
          /\ finished' = finished \cup {wmsg[w]}
      BY <2>5 DEF SkipDuplicate, Seen
    <3>2. SeenApplied'
      BY <1>1, <2>1, <3>1 DEF SeenApplied
    <3>3. applied[TradeId[wmsg[w]]] > 0 \/ InHand(TradeId[wmsg[w]])
      BY <1>1, <3>1 DEF SeenApplied
    <3> QED BY <1>1, <2>1, <2>3, <3>1, <3>2, <3>3 DEF FinishedInHand
  <2>6. ASSUME NEW w \in Workers, Record(w) PROVE SeenApplied' /\ FinishedInHand'
    <3>1. /\ seen' = seen \cup {TradeId[wmsg[w]]} /\ finished' = finished
          /\ wpc'[w] = "handle" /\ wmsg' = wmsg
      BY <1>1, <2>6 DEF Record, TypeOK, history
    <3>2. \A i : i = TradeId[wmsg[w]] => InHand(i)'
      BY <3>1 DEF InHand
    <3>3. SeenApplied'
      <4>1. \A i \in seen' : i \in seen \/ i = TradeId[wmsg[w]]
        BY <3>1
      <4> QED BY <1>1, <2>1, <3>2, <4>1 DEF SeenApplied
    <3> QED BY <1>1, <2>1, <2>3, <3>1, <3>3 DEF FinishedInHand
  <2>7. ASSUME NEW w \in Workers, Handle(w) PROVE SeenApplied' /\ FinishedInHand'
    <3>1. /\ wmsg[w] \in Message /\ seen' = seen
          /\ finished' = finished \cup {wmsg[w]}
      BY <1>1, <2>7 DEF Handle, TypeOK
    <3>2. applied'[TradeId[wmsg[w]]] > 0
      BY <1>1, <2>7, <3>1 DEF Handle, TypeOK
    <3>3. SeenApplied'
      BY <1>1, <2>1, <3>1 DEF SeenApplied
    <3> QED BY <1>1, <2>1, <2>3, <3>1, <3>2, <3>3 DEF FinishedInHand
  <2> QED BY <2>2, <2>4, <2>5, <2>6, <2>7
<1> QED BY <1>2, <1>3

(* As long as the process does not crash, the trade of every message under a
   stored offset has been applied or is in the hands of a worker, for any number
   of workers and copies. *)
THEOREM CommitsAreInHand == Spec => []CommittedInHand
<1>1. Init => InHandInv
  BY InitFinished DEF Init, InHandInv, SeenApplied, FinishedInHand
<1>2. InHandInv => CommittedInHand
  BY DEF InHandInv, FinishedInv, CommittedFinished, FinishedInHand, CommittedInHand
<1> QED BY <1>1, <1>2, NextInHand, PTL DEF Spec

-----------------------------------------------------------------------------
(* Nothing is skipped *)

(* Every message of p's log is done with, in flight or ahead of the reader. *)
Accounted(p) ==
    \A o \in 0..(logEnd[p] - 1) :
        \/ <<p, o>> \in finished \cup Poison
        \/ InFlight(<<p, o>>)
        \/ position[p] <= o

(* Whatever was read had been produced, and the reader is not past the log. *)
ReadProduced ==
    /\ \A p \in Partitions : position[p] <= logEnd[p]
    /\ \A m \in Message : m \in finished \/ InFlight(m) => m[2] < logEnd[m[1]]

(* Before the first commit of a partition the reader may have joined past some
   of its messages, but then the first one is gone and nothing is ever
   committed. *)
SkipInv ==
    /\ FinishedInv
    /\ ReadProduced
    /\ rebalances = 0 /\ ~stopping =>
          \A p \in Partitions : Accounted(p) \/ (groupOffset[p] = -1 /\ FirstGone(p))

(* A message is accounted for as long as it stays in flight or finishes, and the
   reader only goes on. *)
LEMMA AccountedKept ==
    ASSUME NEW p \in Partitions, TypeOK, Accounted(p),
           finished \subseteq finished', UNCHANGED <<logEnd, position>>,
           \A m \in Message : InFlight(m) => m \in finished' \cup Poison \/ InFlight(m)'
    PROVE  Accounted(p)'
<1>1. ASSUME NEW o \in 0..(logEnd[p] - 1) PROVE <<p, o>> \in Message
  BY LogAssumption DEF TypeOK, Message
<1> QED BY <1>1 DEF Accounted

(* The first message of a partition stays gone. *)
LEMMA GoneKept ==
    ASSUME NEW p \in Partitions, FirstGone(p),
           UNCHANGED <<committed, pending, position>>, FirstAbsent(p) => FirstAbsent(p)'
    PROVE  FirstGone(p)'
  BY DEF FirstGone, FirstAbsent

(* A flush stores nothing for a partition whose first message is gone. *)
LEMMA GoneFlush ==
    ASSUME TypeOK, NEW result, FlushCommits(result), NEW p \in Partitions, FirstGone(p),
           UNCHANGED <<position, fetched, tasks, wmsg, completed>>
    PROVE  groupOffset'[p] = groupOffset[p] /\ FirstGone(p)'
<1>1. /\ (committed[p] + 1)..HighestContiguous(p) \subseteq pending[p]
      /\ HighestContiguous(p) \in committed[p]..(MaxLog - 1)
      /\ committed[p] = -1 /\ 0 \notin pending[p]
  BY HighestContiguousProperties DEF FirstGone
<1> DEFINE h == HighestContiguous(p)
<1> HIDE DEF h
<1>2. ~(h > committed[p])
  <2>1. /\ 0..h \subseteq pending[p] /\ h \in -1..(MaxLog - 1) /\ 0 \notin pending[p]
        /\ committed[p] = -1
    BY <1>1 DEF h
  <2> QED BY <2>1, LogAssumption
<1>3. /\ groupOffset'[p] = groupOffset[p]
      /\ committed'[p] = committed[p]
      /\ pending'[p] = pending[p]
  BY <1>2, FlushCommitsAt DEF h
<1> QED BY <1>3 DEF FirstGone, InFlight

(* A message in flight stays there or is done with, but for a restart and for
   the message in the hands of a reader that stops. *)
LEMMA FlightKept ==
    ASSUME FinishedInv, [Next]_vars, ~stopping, ~Restart,
           NEW m \in Message, InFlight(m)
    PROVE  InFlight(m)' \/ m \in finished' \cup Poison
<1>0. TypeOK /\ m # NoMsg
  BY MessageAssumption DEF FinishedInv
<1>1. CASE Enqueue
  <2>1. /\ tasks \in Seq(Message) /\ fetched \in Message
        /\ tasks' = Append(tasks, fetched) /\ wmsg' = wmsg
    BY <1>0, <1>1 DEF Enqueue, TypeOK, workers
  <2>2. /\ tasks'[Len(tasks) + 1] = fetched /\ Len(tasks) + 1 \in 1..Len(tasks')
        /\ \A k \in 1..Len(tasks) : k \in 1..Len(tasks') /\ tasks'[k] = tasks[k]
    BY <2>1
  <2> QED BY <2>1, <2>2 DEF InFlight
<1>2. ASSUME NEW w \in Workers, TakeTask(w) PROVE InFlight(m)'
  <2>1. /\ tasks \in Seq(Message) /\ tasks # <<>> /\ tasks' = Tail(tasks)
        /\ wmsg' = [wmsg EXCEPT ![w] = tasks[1]] /\ wmsg[w] = NoMsg /\ fetched' = fetched
    BY <1>0, <1>2 DEF TakeTask, TypeOK
  <2>2. \A k \in 1..Len(tasks) :
            k = 1 \/ (k - 1 \in 1..Len(tasks') /\ tasks'[k - 1] = tasks[k])
    BY <2>1
  <2>3. wmsg'[w] = tasks[1] /\ \A v \in Workers : v # w => wmsg'[v] = wmsg[v]
    BY <1>0, <2>1 DEF TypeOK
  <2> QED BY <1>0, <2>1, <2>2, <2>3 DEF InFlight
<1>3. ASSUME NEW w \in Workers, Undecodable(w) \/ SignalCompletion(w)
      PROVE  InFlight(m)' \/ m \in finished' \cup Poison
  <2>1. /\ tasks' = tasks /\ fetched' = fetched /\ finished' = finished
        /\ \A v \in Workers : v # w => wmsg'[v] = wmsg[v]
        /\ wmsg[w] \in finished \cup Poison
    BY <1>0, <1>3 DEF Undecodable, SignalCompletion, TypeOK, FinishedInv,
                      TrackedFinished, reader, history
  <2> QED BY <2>1 DEF InFlight
<1>4. ASSUME NEW p \in Partitions, Produce(p) \/ FetchMessage(p) PROVE InFlight(m)'
  BY <1>0, <1>4 DEF Produce, FetchMessage, InFlight, reader, workers
<1>5. ASSUME NEW w \in Workers,
             SkipDuplicate(w) \/ NotSeen(w) \/ Record(w) \/ Handle(w) \/ WorkerExit(w)
      PROVE  InFlight(m)'
  BY <1>5 DEF SkipDuplicate, NotSeen, Record, Handle, WorkerExit, InFlight, reader
<1>6. CASE CommitterStep
  BY <1>6 DEF CommitterStep, Collect, CommitterTick, CommitterExit, InFlight,
              reader, workers
<1>7. ASSUME NEW i \in TradeIds, Expire(i) PROVE InFlight(m)'
  BY <1>7 DEF Expire, InFlight, reader
<1>8. CASE Rebalance \/ Stop \/ UNCHANGED vars
  BY <1>8 DEF Rebalance, Stop, vars, InFlight, reader, workers
<1>9. ~ReaderExit
  BY DEF ReaderExit
<1> QED
  BY <1>1, <1>2, <1>3, <1>4, <1>5, <1>6, <1>7, <1>8, <1>9 DEF Next, WorkerStep

(* Only fetching a message brings it into flight. *)
LEMMA FlightNew ==
    ASSUME TypeOK, [Next]_vars, NEW m \in Message, InFlight(m)'
    PROVE  InFlight(m) \/ \E p \in Partitions : FetchMessage(p) /\ m = <<p, position[p]>>
<1>0. m # NoMsg
  BY MessageAssumption
<1>1. CASE Enqueue
  <2>1. /\ tasks \in Seq(Message) /\ fetched \in Message
        /\ tasks' = Append(tasks, fetched) /\ wmsg' = wmsg /\ fetched' = NoMsg
    BY <1>1 DEF Enqueue, TypeOK, workers
  <2>2. \A k \in 1..Len(tasks') :
            tasks'[k] = fetched \/ (k \in 1..Len(tasks) /\ tasks'[k] = tasks[k])
    BY <2>1
  <2> QED BY <1>0, <2>1, <2>2 DEF InFlight
<1>2. ASSUME NEW w \in Workers, TakeTask(w) PROVE InFlight(m)
  <2>1. /\ tasks \in Seq(Message) /\ tasks # <<>> /\ tasks' = Tail(tasks)
        /\ wmsg' = [wmsg EXCEPT ![w] = tasks[1]] /\ fetched' = fetched
        /\ 1 \in 1..Len(tasks)
    BY <1>2 DEF TakeTask, TypeOK
  <2>2. \A k \in 1..Len(tasks') :
            k + 1 \in 1..Len(tasks) /\ tasks'[k] = tasks[k + 1]
    BY <2>1
  <2>3. wmsg'[w] = tasks[1] /\ \A v \in Workers : v # w => wmsg'[v] = wmsg[v]
    BY <2>1 DEF TypeOK
  <2> QED BY <2>1, <2>2, <2>3 DEF InFlight
<1>3. ASSUME NEW w \in Workers, Undecodable(w) \/ SignalCompletion(w)
      PROVE  InFlight(m)
  <2>1. /\ tasks' = tasks /\ fetched' = fetched
        /\ wmsg' = [wmsg EXCEPT ![w] = NoMsg]
    BY <1>3 DEF Undecodable, SignalCompletion, reader
  <2>2. \A v \in Workers : wmsg'[v] = NoMsg \/ wmsg'[v] = wmsg[v]
    BY <2>1 DEF TypeOK
  <2> QED BY <1>0, <2>1, <2>2 DEF InFlight
<1>4. ASSUME NEW p \in Partitions, FetchMessage(p)
      PROVE  InFlight(m) \/ m = <<p, position[p]>>
  BY <1>4 DEF FetchMessage, InFlight, workers
<1>5. ASSUME NEW w \in Workers,
             SkipDuplicate(w) \/ NotSeen(w) \/ Record(w) \/ Handle(w) \/ WorkerExit(w)
      PROVE  InFlight(m)
  BY <1>5 DEF SkipDuplicate, NotSeen, Record, Handle, WorkerExit, InFlight, reader
<1>6. CASE CommitterStep
  BY <1>6 DEF CommitterStep, Collect, CommitterTick, CommitterExit, InFlight,
              reader, workers
<1>7. ASSUME NEW i \in TradeIds, Expire(i) PROVE InFlight(m)
  BY <1>7 DEF Expire, InFlight, reader
<1>8. CASE Rebalance \/ Stop \/ UNCHANGED vars
  BY <1>8 DEF Rebalance, Stop, vars, InFlight, reader, workers
<1>9. CASE ReaderExit
  BY <1>0, <1>9 DEF ReaderExit, InFlight, workers
<1>10. ASSUME NEW p \in Partitions, Produce(p) PROVE InFlight(m)
  BY <1>10 DEF Produce, InFlight, reader, workers
<1>11. CASE Restart
  BY <1>0, <1>11 DEF Restart, InFlight
<1> QED
  BY <1>1, <1>2, <1>3, <1>4, <1>5, <1>6, <1>7, <1>8, <1>9, <1>10, <1>11
     DEF Next, WorkerStep

(* A completion that is signalled is one of a message in flight. *)
LEMMA CompletedNew ==
    ASSUME TypeOK, [Next]_vars, NEW k \in 1..Len(completed')
    PROVE  InFlight(completed'[k]) \/ \E j \in 1..Len(completed) : completed'[k] = completed[j]
<1>1. ASSUME NEW w \in Workers, SignalCompletion(w)
      PROVE  \/ completed'[k] = wmsg[w]
             \/ \E j \in 1..Len(completed) : completed'[k] = completed[j]
  <2>1. /\ completed \in Seq(Message) /\ wmsg[w] \in Message
        /\ completed' = completed \/ completed' = Append(completed, wmsg[w])
    BY <1>1 DEF SignalCompletion, TypeOK
  <2> QED BY <2>1
<1>2. CASE Collect
  <2>1. /\ completed \in Seq(Message) /\ completed # <<>> /\ completed' = Tail(completed)
    BY <1>2 DEF Collect, TypeOK
  <2>2. k + 1 \in 1..Len(completed) /\ completed'[k] = completed[k + 1]
    BY <2>1
  <2> QED BY <2>2
<1>3. CASE Restart
  BY <1>3 DEF Restart
<1>4. ASSUME \/ \E p \in Partitions : Produce(p) \/ FetchMessage(p)
             \/ Enqueue \/ ReaderExit
             \/ \E w \in Workers :
                   \/ TakeTask(w) \/ Undecodable(w) \/ SkipDuplicate(w) \/ NotSeen(w)
                   \/ Record(w) \/ Handle(w) \/ WorkerExit(w)
             \/ \E result : CommitterTick(result) \/ CommitterExit(result)
             \/ \E i \in TradeIds : Expire(i)
             \/ Rebalance \/ Stop \/ UNCHANGED vars
      PROVE  completed' = completed
  BY <1>4 DEF Produce, FetchMessage, Enqueue, ReaderExit, TakeTask, Undecodable,
              SkipDuplicate, NotSeen, Record, Handle, WorkerExit, CommitterTick,
              CommitterExit, Expire, Rebalance, Stop, vars, committer
<1> QED BY <1>1, <1>2, <1>3, <1>4 DEF Next, WorkerStep, CommitterStep, InFlight

(* Only a message in flight finishes. *)
LEMMA FinishedNew ==
    ASSUME TypeOK, [Next]_vars, NEW m \in finished'
    PROVE  m \in finished \/ InFlight(m)
<1>1. ASSUME NEW w \in Workers, SkipDuplicate(w) \/ Handle(w)
      PROVE  m \in finished \/ InFlight(m)
  BY <1>1 DEF SkipDuplicate, Handle, InFlight
<1>2. ASSUME \/ \E p \in Partitions : Produce(p) \/ FetchMessage(p)
             \/ Enqueue \/ ReaderExit
             \/ \E w \in Workers :
                   \/ TakeTask(w) \/ Undecodable(w) \/ NotSeen(w)
                   \/ Record(w) \/ SignalCompletion(w) \/ WorkerExit(w)
             \/ CommitterStep
             \/ \E i \in TradeIds : Expire(i)
             \/ Rebalance \/ Stop \/ Restart \/ UNCHANGED vars
      PROVE  finished' = finished
  BY <1>2 DEF Produce, FetchMessage, Enqueue, ReaderExit, TakeTask, Undecodable,
              NotSeen, Record, SignalCompletion, WorkerExit, CommitterStep, Collect,
              CommitterTick, CommitterExit, Expire, Rebalance, Stop, Restart,
              vars, history
<1> QED BY <1>1, <1>2 DEF Next, WorkerStep

(* No message that finished is forgotten. *)
LEMMA FinishedGrows ==
    ASSUME [Next]_vars PROVE finished \subseteq finished'
<1>1. ASSUME NEW w \in Workers, WorkerStep(w) PROVE finished \subseteq finished'
  BY <1>1 DEF WorkerStep, TakeTask, Undecodable, SkipDuplicate, NotSeen, Record,
              Handle, SignalCompletion, WorkerExit, history
<1>2. ASSUME \/ \E p \in Partitions : Produce(p) \/ FetchMessage(p)
             \/ Enqueue \/ ReaderExit \/ CommitterStep
             \/ \E i \in TradeIds : Expire(i)
             \/ Rebalance \/ Stop \/ Restart \/ UNCHANGED vars
      PROVE  finished' = finished
  BY <1>2 DEF Produce, FetchMessage, Enqueue, ReaderExit, CommitterStep, Collect,
              CommitterTick, CommitterExit, Expire, Rebalance, Stop, Restart,
              vars, history
<1> QED BY <1>1, <1>2 DEF Next

(* What a step does to the log and to the reader's position: a message more, one
   message read, or the reader joins again. *)
LEMMA ReaderOutcome ==
    ASSUME [Next]_vars
    PROVE  \/ \E p \in Partitions : Produce(p)
           \/ \E p \in Partitions : FetchMessage(p)
           \/ /\ logEnd' = logEnd
              /\ \/ Rebalance \/ Restart
                 \/ position' = position
<1>1. ASSUME NEW w \in Workers, WorkerStep(w) PROVE UNCHANGED <<logEnd, position>>
  BY <1>1 DEF WorkerStep, TakeTask, Undecodable, SkipDuplicate, NotSeen, Record,
              Handle, SignalCompletion, WorkerExit, broker, reader
<1>2. ASSUME \/ Enqueue \/ ReaderExit \/ CommitterStep
             \/ \E i \in TradeIds : Expire(i)
             \/ Stop \/ UNCHANGED vars
      PROVE  UNCHANGED <<logEnd, position>>
  BY <1>2 DEF Enqueue, ReaderExit, CommitterStep, Collect, CommitterTick,
              CommitterExit, Expire, Stop, vars, broker, reader
<1>3. Rebalance \/ Restart => logEnd' = logEnd
  BY DEF Rebalance, Restart, broker
<1> QED BY <1>1, <1>2, <1>3 DEF Next

(* Where the reader joins, no message it has yet to read is before its start,
   and the log is not behind it. *)
LEMMA JoinInLog ==
    ASSUME FinishedInv, ReadProduced, NEW p \in Partitions
    PROVE  JoinPosition(p) <= logEnd[p]
<1>1. /\ groupOffset[p] \in -1..MaxLog /\ logEnd[p] \in 0..MaxLog /\ MaxLog \in Nat
      /\ CommittedFinished /\ TypeOK
  BY LogAssumption DEF FinishedInv, TypeOK
<1>2. CASE groupOffset[p] >= 1
  <2>1. <<p, groupOffset[p] - 1>> \in finished /\ <<p, groupOffset[p] - 1>> \in Message
    BY <1>1, <1>2 DEF CommittedFinished, Message
  <2>2. groupOffset[p] - 1 < logEnd[p]
    BY <2>1 DEF ReadProduced
  <2> QED BY <1>1, <1>2, <2>2 DEF JoinPosition
<1> QED BY <1>1, <1>2 DEF JoinPosition

(* Every step keeps the reader within the log. *)
LEMMA NextRead ==
    ASSUME FinishedInv, ReadProduced, [Next]_vars
    PROVE  ReadProduced'
<1>0. TypeOK /\ TypeOK'
  BY NextFinished DEF FinishedInv
<1>1. ASSUME NEW p \in Partitions
      PROVE  /\ logEnd[p] \in Nat /\ position[p] \in Nat /\ position[p] <= logEnd[p]
             /\ logEnd'[p] \in Nat /\ position'[p] \in Nat
  BY <1>0, LogAssumption DEF TypeOK, ReadProduced
<1>2. ASSUME NEW p \in Partitions
      PROVE  position'[p] <= logEnd'[p] /\ logEnd'[p] >= logEnd[p]
  <2>1. ASSUME NEW q \in Partitions, Produce(q)
        PROVE  position'[p] <= logEnd'[p] /\ logEnd'[p] >= logEnd[p]
    <3>1. logEnd'[p] \in {logEnd[p], logEnd[p] + 1} /\ position' = position
      BY <1>0, <2>1 DEF Produce, TypeOK, reader
    <3> QED BY <1>1, <3>1
  <2>2. ASSUME NEW q \in Partitions, FetchMessage(q)
        PROVE  position'[p] <= logEnd'[p] /\ logEnd'[p] >= logEnd[p]
    <3>1. /\ logEnd' = logEnd
          /\ \/ position'[p] = position[p]
             \/ position'[p] = position[p] + 1 /\ position[p] < logEnd[p]
      BY <1>0, <2>2 DEF FetchMessage, TypeOK, broker
    <3> QED BY <1>1, <3>1
  <2>3. CASE logEnd' = logEnd /\ (Rebalance \/ Restart)
    <3>1. position'[p] = JoinPosition(p)
      BY <2>3 DEF Rebalance, Restart
    <3> QED BY <1>1, <2>3, <3>1, JoinInLog
  <2>4. CASE logEnd' = logEnd /\ position' = position
    BY <1>1, <2>4
  <2> QED BY <2>1, <2>2, <2>3, <2>4, ReaderOutcome
<1>3. ASSUME NEW m \in Message, m \in finished' \/ InFlight(m)'
      PROVE  m[2] < logEnd'[m[1]]
  <2>1. m[1] \in Partitions /\ m[2] \in 0..(MaxLog - 1)
    BY MessageParts
  <2>2. CASE m \in finished \/ InFlight(m)
    <3>1. m[2] < logEnd[m[1]]
      BY <2>2 DEF ReadProduced
    <3> QED BY <1>1, <1>2, <2>1, <3>1, LogAssumption
  <2>3. ASSUME NEW p \in Partitions, FetchMessage(p), m = <<p, position[p]>>
        PROVE  m[2] < logEnd'[m[1]]
    BY <2>3 DEF FetchMessage, broker
  <2> QED BY <1>0, <1>3, <2>2, <2>3, FinishedNew, FlightNew
<1> QED BY <1>2, <1>3 DEF ReadProduced

(* The committer's books of a partition change by a completion or by a flush. *)
LEMMA CommitterOutcome ==
    ASSUME [Next]_vars, ~Restart
    PROVE  \/ Collect
           \/ \E result : /\ FlushCommits(result)
                          /\ UNCHANGED <<position, fetched, tasks, wmsg, completed>>
           \/ UNCHANGED <<groupOffset, committed, pending>>
<1>1. ASSUME NEW w \in Workers, WorkerStep(w)
      PROVE  UNCHANGED <<groupOffset, committed, pending>>
  BY <1>1 DEF WorkerStep, TakeTask, Undecodable, SkipDuplicate, NotSeen, Record,
              Handle, SignalCompletion, WorkerExit, broker, committer
<1>2. ASSUME NEW result, CommitterTick(result) \/ CommitterExit(result)
      PROVE  /\ FlushCommits(result)
             /\ UNCHANGED <<position, fetched, tasks, wmsg, completed>>
  BY <1>2 DEF CommitterTick, CommitterExit, reader, workers
<1>3. ASSUME \/ \E p \in Partitions : Produce(p) \/ FetchMessage(p)
             \/ Enqueue \/ ReaderExit
             \/ \E i \in TradeIds : Expire(i)
             \/ Rebalance \/ Stop \/ UNCHANGED vars
      PROVE  UNCHANGED <<groupOffset, committed, pending>>
  BY <1>3 DEF Produce, FetchMessage, Enqueue, ReaderExit, Expire, Rebalance, Stop,
              vars, broker, committer
<1> QED BY <1>1, <1>2, <1>3 DEF Next, CommitterStep

(* While nothing moves the reader, a first message that is gone stays gone and
   nothing is committed. *)
LEMMA NextGone ==
    ASSUME TypeOK, [Next]_vars, ~Restart, ~Rebalance,
           NEW p \in Partitions, groupOffset[p] = -1, FirstGone(p)
    PROVE  groupOffset'[p] = -1 /\ FirstGone(p)'
<1> DEFINE m == <<p, 0>>
<1>1. m \in Message /\ 0 \in Nat /\ ~InFlight(m) /\ position[p] >= 1
      /\ committed[p] = -1 /\ 0 \notin pending[p]
      /\ \A k \in 1..Len(completed) : completed[k] # m
  BY FirstIsMessage DEF FirstGone
<1> HIDE DEF m
<1>2. ~InFlight(m)'
  <2>1. ASSUME NEW q \in Partitions, m = <<q, position[q]>> PROVE FALSE
    BY <1>1, <2>1 DEF m
  <2> QED BY <1>1, <2>1, FlightNew
<1>3. \A k \in 1..Len(completed') : completed'[k] # m
  BY <1>1, CompletedNew
<1>4. position'[p] >= 1
  <2>1. ASSUME NEW q \in Partitions, FetchMessage(q) PROVE position'[p] >= 1
    <3>1. position[p] \in Nat /\ position'[p] \in {position[p], position[p] + 1}
      BY <2>1, LogAssumption DEF FetchMessage, TypeOK
    <3> QED BY <1>1, <3>1
  <2>2. ASSUME NEW q \in Partitions, Produce(q) PROVE position'[p] >= 1
    BY <1>1, <2>2 DEF Produce, reader
  <2> QED BY <1>1, <2>1, <2>2, ReaderOutcome
<1>5. CASE UNCHANGED <<groupOffset, committed, pending>>
  BY <1>1, <1>2, <1>3, <1>4, <1>5 DEF FirstGone, m
<1>6. CASE Collect
  <2>1. /\ completed \in Seq(Message) /\ completed # <<>> /\ Head(completed) # m
        /\ Head(completed) \in Message
    BY <1>1, <1>6 DEF Collect, TypeOK
  <2>2. Head(completed) = <<Head(completed)[1], Head(completed)[2]>>
    BY <2>1 DEF Message
  <2>3. 0 \notin pending'[p]
    <3>1. pending'[p] = pending[p] \/ (/\ p = Head(completed)[1]
                                       /\ pending'[p] = pending[p] \cup {Head(completed)[2]})
      BY <1>6 DEF Collect, TypeOK
    <3> QED BY <1>1, <2>1, <2>2, <3>1 DEF m
  <2>4. UNCHANGED <<groupOffset, committed>>
    BY <1>6 DEF Collect, broker
  <2> QED BY <1>1, <1>2, <1>3, <1>4, <2>3, <2>4 DEF FirstGone, m
<1>7. ASSUME NEW result, FlushCommits(result),
             UNCHANGED <<position, fetched, tasks, wmsg, completed>>
      PROVE  groupOffset'[p] = -1 /\ FirstGone(p)'
  BY <1>7, GoneFlush
<1> QED BY <1>5, <1>6, <1>7, CommitterOutcome

(* While nothing moves the reader, what is accounted for stays so. *)
LEMMA NextAccounted ==
    ASSUME FinishedInv, ReadProduced, [Next]_vars, ~stopping, ~Restart, ~Rebalance,
           NEW p \in Partitions, Accounted(p)
    PROVE  Accounted(p)'
<1>0. TypeOK /\ finished \subseteq finished'
  BY FinishedGrows DEF FinishedInv
<1>1. logEnd[p] \in 0..MaxLog /\ position[p] \in Nat /\ position[p] <= logEnd[p]
  BY <1>0, LogAssumption DEF TypeOK, ReadProduced
<1>2. ASSUME NEW o \in 0..(logEnd[p] - 1), InFlight(<<p, o>>)
      PROVE  <<p, o>> \in finished' \cup Poison \/ InFlight(<<p, o>>)'
  <2>1. <<p, o>> \in Message
    BY <1>1, LogAssumption DEF Message
  <2> QED BY <1>2, <2>1, FlightKept
<1>3. CASE logEnd' = logEnd /\ position' = position
  BY <1>0, <1>2, <1>3 DEF Accounted
<1>4. ASSUME NEW q \in Partitions, Produce(q) PROVE Accounted(p)'
  <2>1. logEnd'[p] \in {logEnd[p], logEnd[p] + 1} /\ position' = position
    BY <1>0, <1>4 DEF Produce, TypeOK, reader
  <2>2. \A o \in 0..(logEnd'[p] - 1) : o \in 0..(logEnd[p] - 1) \/ position'[p] <= o
    BY <1>1, <2>1
  <2> QED BY <1>0, <1>2, <2>1, <2>2 DEF Accounted
<1>5. ASSUME NEW q \in Partitions, FetchMessage(q) PROVE Accounted(p)'
  <2>1. /\ logEnd' = logEnd /\ fetched' = <<q, position[q]>>
        /\ \/ position'[p] = position[p]
           \/ position'[p] = position[p] + 1 /\ q = p
    BY <1>0, <1>5 DEF FetchMessage, TypeOK, broker
  <2>2. \A o \in 0..(logEnd[p] - 1) :
           position[p] <= o => position'[p] <= o \/ fetched' = <<p, o>>
    BY <1>1, <2>1
  <2>3. \A o : fetched' = <<p, o>> => InFlight(<<p, o>>)'
    BY DEF InFlight
  <2> QED BY <1>0, <1>2, <2>1, <2>2, <2>3 DEF Accounted
<1> QED BY <1>3, <1>4, <1>5, ReaderOutcome

(* After a restart the reader is at the stored offset, with what is before it
   finished; without one, it is at the end of the log and the first message is
   gone, unless there is none. *)
LEMMA RestartAccounts ==
    ASSUME FinishedInv, Restart, NEW p \in Partitions
    PROVE  Accounted(p)' \/ (groupOffset'[p] = -1 /\ FirstGone(p)')
<1>1. /\ groupOffset[p] \in -1..MaxLog /\ logEnd[p] \in 0..MaxLog /\ MaxLog \in Nat
      /\ CommittedFinished
  BY LogAssumption DEF FinishedInv, TypeOK
<1>2. /\ position'[p] = JoinPosition(p) /\ UNCHANGED <<logEnd, groupOffset, finished>>
      /\ committed'[p] = -1 /\ pending'[p] = {} /\ completed' = <<>>
      /\ ~InFlight(<<p, 0>>)'
  BY FirstIsMessage DEF Restart, broker, history, InFlight
<1>3. CASE groupOffset[p] # -1
  <2>1. \A o \in 0..(logEnd[p] - 1) : o \in 0..(groupOffset[p] - 1) \/ groupOffset[p] <= o
    BY <1>1, <1>3
  <2> QED BY <1>1, <1>2, <1>3, <2>1 DEF Accounted, CommittedFinished, JoinPosition
<1>4. CASE groupOffset[p] = -1 /\ logEnd[p] = 0
  BY <1>2, <1>4 DEF Accounted
<1>5. CASE groupOffset[p] = -1 /\ logEnd[p] >= 1
  BY <1>2, <1>5 DEF FirstGone, JoinPosition
<1> QED BY <1>1, <1>3, <1>4, <1>5

(* Every step keeps the invariant. *)
LEMMA NextSkip == SkipInv /\ [Next]_vars => SkipInv'
<1> SUFFICES ASSUME SkipInv, [Next]_vars, rebalances' = 0, ~stopping', NEW p \in Partitions
             PROVE  Accounted(p)' \/ (groupOffset'[p] = -1 /\ FirstGone(p)')
  BY NextFinished, NextRead DEF SkipInv
<1>1. FinishedInv /\ ReadProduced /\ TypeOK
  BY DEF SkipInv, FinishedInv
<1>2. CASE Restart
  BY <1>1, <1>2, RestartAccounts
<1>3. CASE ~Restart
  <2>1. /\ ~stopping /\ rebalances = 0
    <3>1. ASSUME NEW w \in Workers, WorkerStep(w) PROVE UNCHANGED <<stopping, rebalances>>
      BY <3>1 DEF WorkerStep, TakeTask, Undecodable, SkipDuplicate, NotSeen, Record,
                  Handle, SignalCompletion, WorkerExit, life
    <3>2. Rebalance \/ Stop => FALSE
      <4>1. rebalances \in Nat
        BY <1>1 DEF TypeOK
      <4> QED BY <4>1 DEF Rebalance, Stop
    <3>3. ASSUME \/ \E q \in Partitions : Produce(q) \/ FetchMessage(q)
                 \/ Enqueue \/ ReaderExit \/ CommitterStep
                 \/ \E i \in TradeIds : Expire(i)
                 \/ UNCHANGED vars
          PROVE  UNCHANGED <<stopping, rebalances>>
      BY <3>3 DEF Produce, FetchMessage, Enqueue, ReaderExit, CommitterStep, Collect,
                  CommitterTick, CommitterExit, Expire, vars, life
    <3> QED BY <1>3, <3>1, <3>2, <3>3 DEF Next
  <2>2. ~Rebalance
    <3>1. rebalances \in Nat
      BY <1>1 DEF TypeOK
    <3> QED BY <2>1, <3>1 DEF Rebalance
  <2>3. Accounted(p) \/ (groupOffset[p] = -1 /\ FirstGone(p))
    BY <2>1 DEF SkipInv
  <2> QED BY <1>1, <1>3, <2>1, <2>2, <2>3, NextAccounted, NextGone
<1> QED BY <1>2, <1>3

(* Without rebalances no restart skips a message: once a partition has a stored
   offset, every message of its log has finished, cannot be decoded, is in
   flight or is still ahead of the reader. *)
THEOREM RestartsSkipNothing == Spec => []NothingSkipped
<1>1. Init => SkipInv
  <2> SUFFICES ASSUME Init PROVE SkipInv
    OBVIOUS
  <2>1. /\ finished = {} /\ \A m \in Message : ~InFlight(m)
        /\ \A p \in Partitions :
              /\ position[p] <= logEnd[p] /\ position[p] >= logEnd[p]
              /\ logEnd[p] = 0 \/ position[p] >= 1
              /\ ~InFlight(<<p, 0>>)
              /\ groupOffset[p] = -1 /\ committed[p] = -1 /\ pending[p] = {}
              /\ completed = <<>>
    BY LogAssumption, MessageAssumption, FirstIsMessage DEF Init, InFlight
  <2>2. ReadProduced
    <3>1. \A p \in Partitions : position[p] <= logEnd[p]
      BY <2>1
    <3> QED BY <2>1, <3>1 DEF ReadProduced
  <2>3. \A p \in Partitions : Accounted(p) \/ (groupOffset[p] = -1 /\ FirstGone(p))
    <3>1. ASSUME NEW p \in Partitions
          PROVE  Accounted(p) \/ (groupOffset[p] = -1 /\ FirstGone(p))
      <4>1. logEnd[p] = 0 => Accounted(p)
        BY DEF Accounted
      <4>2. position[p] >= 1 => FirstGone(p)
        BY <2>1 DEF FirstGone
      <4> QED BY <2>1, <4>1, <4>2
    <3> QED BY <3>1
  <2> QED BY <2>2, <2>3, InitFinished DEF SkipInv
<1>2. SkipInv => NothingSkipped
  BY DEF SkipInv, NothingSkipped, Accounted
<1> QED BY <1>1, <1>2, NextSkip, PTL DEF Spec

-----------------------------------------------------------------------------
(* How often a trade can be applied *)

(* The workers about to apply trade i, and with them those that have found it
   unknown and are about to record it. *)
Handling(i) == {w \in Workers : wpc[w] = "handle" /\ TradeId[wmsg[w]] = i}
Taking(i) == {w \in Workers : wpc[w] \in {"record", "handle"} /\ TradeId[wmsg[w]] = i}

(* The budget of a trade: every worker may apply it once for each time it has
   been forgotten, and once more while it is known. *)
Budget(i) == Cardinality(Workers) * forgotten[i]

RepeatInv ==
    /\ TypeOK
    /\ \A i \in TradeIds :
          /\ i \notin seen => applied[i] + Cardinality(Handling(i)) <= Budget(i)
          /\ i \in seen =>
                applied[i] + Cardinality(Taking(i)) <= Cardinality(Workers) + Budget(i)

(* The sets of workers are finite, and no larger than all workers. *)
LEMMA HandsAreFinite ==
    ASSUME NEW S, S \subseteq Workers
    PROVE  /\ IsFiniteSet(S) /\ Cardinality(S) \in Nat
           /\ Cardinality(S) <= Cardinality(Workers)
           /\ Cardinality(Workers) \in Nat
  BY WorkersAssumption, FS_Subset, FS_CardinalityType

(* One more time forgotten is one more budget of all workers. *)
LEMMA ForgettingPays ==
    \A n, f \in Nat : n * f \in Nat /\ n * (f + 1) = n + n * f /\ n * (1 + f) = n + n * f
  OBVIOUS

(* The invariant for one trade: a step that lets no further worker take it, and
   neither forgets nor applies nor learns it, keeps it. *)
LEMMA RepeatKept ==
    ASSUME RepeatInv, NEW i \in TradeIds,
           applied'[i] = applied[i], forgotten'[i] = forgotten[i],
           i \in seen' <=> i \in seen,
           Handling(i)' \subseteq Handling(i),
           i \in seen => Taking(i)' \subseteq Taking(i)
    PROVE  /\ i \notin seen' => applied'[i] + Cardinality(Handling(i)') <= Budget(i)'
           /\ i \in seen' =>
                 applied'[i] + Cardinality(Taking(i)') <= Cardinality(Workers) + Budget(i)'
<1>1. /\ applied[i] \in Nat /\ Budget(i)' = Budget(i)
      /\ Handling(i) \subseteq Workers /\ Taking(i) \subseteq Workers
  BY DEF RepeatInv, TypeOK, Budget, Handling, Taking
<1>2. Budget(i) \in Nat /\ Cardinality(Workers) \in Nat
  <2>1. Cardinality(Workers) \in Nat /\ forgotten[i] \in Nat
    BY WorkersAssumption, FS_CardinalityType DEF RepeatInv, TypeOK
  <2> QED BY <2>1, ForgettingPays DEF Budget
<1>3. /\ Cardinality(Handling(i)') <= Cardinality(Handling(i))
      /\ Cardinality(Handling(i)') \in Nat /\ Cardinality(Handling(i)) \in Nat
  BY <1>1, HandsAreFinite, FS_Subset, FS_CardinalityType
<1>4. CASE i \notin seen
  <2>1. applied[i] + Cardinality(Handling(i)) <= Budget(i)
    BY <1>4 DEF RepeatInv
  <2> QED BY <1>1, <1>2, <1>3, <1>4, <2>1
<1>5. CASE i \in seen
  <2>1. applied[i] + Cardinality(Taking(i)) <= Cardinality(Workers) + Budget(i)
    BY <1>5 DEF RepeatInv
  <2>2. /\ Cardinality(Taking(i)') <= Cardinality(Taking(i))
        /\ Cardinality(Taking(i)') \in Nat /\ Cardinality(Taking(i)) \in Nat
    BY <1>1, <1>5, HandsAreFinite, FS_Subset, FS_CardinalityType
  <2> QED BY <1>1, <1>2, <1>5, <2>1, <2>2
<1> QED BY <1>4, <1>5

(* Every step keeps the invariant. *)
LEMMA NextRepeat == RepeatInv /\ [Next]_vars => RepeatInv'
<1> SUFFICES ASSUME RepeatInv, [Next]_vars, NEW i \in TradeIds
             PROVE  /\ i \notin seen' => applied'[i] + Cardinality(Handling(i)') <= Budget(i)'
                    /\ i \in seen' =>
                          applied'[i] + Cardinality(Taking(i)')
                             <= Cardinality(Workers) + Budget(i)'
  BY NextType DEF RepeatInv
<1> DEFINE Kept == /\ i \notin seen' => applied'[i] + Cardinality(Handling(i)') <= Budget(i)'
                   /\ i \in seen' =>
                         applied'[i] + Cardinality(Taking(i)')
                            <= Cardinality(Workers) + Budget(i)'
<1>0. /\ TypeOK /\ applied[i] \in Nat /\ forgotten[i] \in Nat
      /\ Cardinality(Workers) \in Nat /\ Budget(i) \in Nat
      /\ Handling(i) \subseteq Workers /\ Taking(i) \subseteq Workers
      /\ Handling(i) \subseteq Taking(i)
      /\ Cardinality(Handling(i)) \in Nat /\ Cardinality(Taking(i)) \in Nat
      /\ Cardinality(Handling(i)) <= Cardinality(Taking(i))
  <2>1. /\ TypeOK /\ applied[i] \in Nat /\ forgotten[i] \in Nat
        /\ Cardinality(Workers) \in Nat
    BY WorkersAssumption, FS_CardinalityType DEF RepeatInv, TypeOK
  <2>2. /\ Handling(i) \subseteq Workers /\ Taking(i) \subseteq Workers
        /\ Handling(i) \subseteq Taking(i)
    BY DEF Handling, Taking
  <2>3. IsFiniteSet(Taking(i)) /\ IsFiniteSet(Handling(i))
    BY <2>2, HandsAreFinite
  <2> QED BY <2>1, <2>2, <2>3, ForgettingPays, FS_Subset, FS_CardinalityType DEF Budget
<1>1. ASSUME UNCHANGED <<applied, forgotten, seen>>,
             \A w \in Workers : wpc'[w] \in {"record", "handle"} =>
                                   wpc'[w] = wpc[w] /\ wmsg'[w] = wmsg[w]
      PROVE  Kept
  <2>1. Handling(i)' \subseteq Handling(i) /\ Taking(i)' \subseteq Taking(i)
    BY <1>1 DEF Handling, Taking
  <2> QED BY <1>1, <2>1, RepeatKept
<1>2. ASSUME NEW w \in Workers,
             \/ TakeTask(w) \/ Undecodable(w) \/ SkipDuplicate(w)
             \/ SignalCompletion(w) \/ WorkerExit(w)
      PROVE  Kept
  <2>1. UNCHANGED <<applied, forgotten, seen>>
    BY <1>2 DEF TakeTask, Undecodable, SkipDuplicate, SignalCompletion, WorkerExit,
                history
  <2>2. \A v \in Workers : wpc'[v] \in {"record", "handle"} =>
                              wpc'[v] = wpc[v] /\ wmsg'[v] = wmsg[v]
    BY <1>0, <1>2 DEF TakeTask, Undecodable, SkipDuplicate, SignalCompletion,
                      WorkerExit, TypeOK
  <2> QED BY <1>1, <2>1, <2>2
<1>3. ASSUME NEW w \in Workers, NotSeen(w) PROVE Kept
  <2>1. /\ UNCHANGED <<applied, forgotten, seen, wmsg>> /\ TradeId[wmsg[w]] \notin seen
        /\ wpc'[w] = "record" /\ \A v \in Workers : v # w => wpc'[v] = wpc[v]
    BY <1>0, <1>3 DEF NotSeen, Seen, history, TypeOK
  <2>2. Handling(i)' \subseteq Handling(i) /\ (i \in seen => Taking(i)' \subseteq Taking(i))
    BY <2>1 DEF Handling, Taking
  <2> QED BY <2>1, <2>2, RepeatKept
<1>4. ASSUME NEW w \in Workers, Record(w) PROVE Kept
  <2>1. /\ UNCHANGED <<applied, forgotten, wmsg>> /\ wpc[w] = "record"
        /\ seen' = seen \cup {TradeId[wmsg[w]]} /\ wpc'[w] = "handle"
        /\ \A v \in Workers : v # w => wpc'[v] = wpc[v]
    BY <1>0, <1>4 DEF Record, history, TypeOK
  <2>2. Taking(i)' \subseteq Taking(i)
    BY <2>1 DEF Taking
  <2>3. CASE TradeId[wmsg[w]] # i
    <3>1. Handling(i)' \subseteq Handling(i)
      BY <2>1, <2>3 DEF Handling
    <3> QED BY <2>1, <2>2, <2>3, <3>1, RepeatKept
  <2>4. CASE TradeId[wmsg[w]] = i
    <3>1. i \in seen' /\ applied'[i] = applied[i] /\ Budget(i)' = Budget(i)
      BY <2>1, <2>4 DEF Budget
    <3>2. /\ Cardinality(Taking(i)') \in Nat
          /\ Cardinality(Taking(i)') <= Cardinality(Taking(i))
          /\ Cardinality(Taking(i)) <= Cardinality(Workers)
      BY <1>0, <2>2, HandsAreFinite, FS_Subset, FS_CardinalityType
    <3>3. CASE i \in seen
      <4>1. applied[i] + Cardinality(Taking(i)) <= Cardinality(Workers) + Budget(i)
        BY <3>3 DEF RepeatInv
      <4> QED BY <1>0, <3>1, <3>2, <4>1
    <3>4. CASE i \notin seen
      <4>1. applied[i] + Cardinality(Handling(i)) <= Budget(i)
        BY <3>4 DEF RepeatInv
      <4> QED BY <1>0, <3>1, <3>2, <4>1
    <3> QED BY <3>3, <3>4
  <2> QED BY <2>3, <2>4
<1>5. ASSUME NEW w \in Workers, Handle(w) PROVE Kept
  <2> DEFINE t == TradeId[wmsg[w]]
  <2>1. /\ UNCHANGED <<forgotten, seen, wmsg>> /\ wpc[w] = "handle" /\ t \in TradeIds
        /\ wpc'[w] = "signal" /\ \A v \in Workers : v # w => wpc'[v] = wpc[v]
        /\ applied'[t] = applied[t] + 1
        /\ \A j \in TradeIds : j # t => applied'[j] = applied[j]
    <3>1. wmsg[w] \in Message
      BY <1>0, <1>5 DEF Handle, TypeOK
    <3> QED BY <1>0, <1>5, <3>1, MessageAssumption DEF Handle, TypeOK
  <2>2. CASE i # t
    <3>1. Handling(i)' \subseteq Handling(i) /\ Taking(i)' \subseteq Taking(i)
      BY <2>1 DEF Handling, Taking
    <3> QED BY <2>1, <2>2, <3>1, RepeatKept
  <2>3. CASE i = t
    <3>1. /\ w \in Handling(i) /\ Handling(i)' = Handling(i) \ {w}
          /\ w \in Taking(i) /\ Taking(i)' = Taking(i) \ {w}
      BY <2>1, <2>3 DEF Handling, Taking
    <3>2. /\ Cardinality(Handling(i)') = Cardinality(Handling(i)) - 1
          /\ Cardinality(Taking(i)') = Cardinality(Taking(i)) - 1
      BY <1>0, <3>1, HandsAreFinite, FS_RemoveElement
    <3>3. Budget(i)' = Budget(i) /\ applied'[i] = applied[i] + 1
      BY <2>1, <2>3 DEF Budget
    <3>4. CASE i \in seen
      <4>1. applied[i] + Cardinality(Taking(i)) <= Cardinality(Workers) + Budget(i)
        BY <3>4 DEF RepeatInv
      <4> QED BY <1>0, <2>1, <3>2, <3>3, <3>4, <4>1
    <3>5. CASE i \notin seen
      <4>1. applied[i] + Cardinality(Handling(i)) <= Budget(i)
        BY <3>5 DEF RepeatInv
      <4> QED BY <1>0, <2>1, <3>2, <3>3, <3>5, <4>1
    <3> QED BY <3>4, <3>5
  <2> QED BY <2>2, <2>3
<1>6. ASSUME \/ \E p \in Partitions : Produce(p) \/ FetchMessage(p)
             \/ Enqueue \/ ReaderExit \/ CommitterStep
             \/ Rebalance \/ Stop \/ UNCHANGED vars
      PROVE  Kept
  <2>1. UNCHANGED <<applied, forgotten, seen, wpc, wmsg>>
    BY <1>6 DEF Produce, FetchMessage, Enqueue, ReaderExit, CommitterStep, Collect,
                CommitterTick, CommitterExit, Rebalance, Stop, vars, workers, history
  <2> QED BY <1>1, <2>1
<1>7. applied[i] <= Cardinality(Workers) + Budget(i)
  BY <1>0 DEF RepeatInv
<1>8. ASSUME NEW j \in TradeIds, Expire(j) PROVE Kept
  <2>1. /\ UNCHANGED <<applied, wpc, wmsg>> /\ j \in seen /\ seen' = seen \ {j}
        /\ forgotten'[j] = forgotten[j] + 1
        /\ \A k \in TradeIds : k # j => forgotten'[k] = forgotten[k]
    BY <1>0, <1>8 DEF Expire, TypeOK
  <2>2. Handling(i)' = Handling(i) /\ Taking(i)' = Taking(i)
    BY <2>1 DEF Handling, Taking
  <2>3. CASE i # j
    BY <2>1, <2>2, <2>3, RepeatKept
  <2>4. CASE i = j
    <3>0. forgotten'[i] = forgotten[i] + 1
      BY <2>1, <2>4
    <3>1. Budget(i)' = Cardinality(Workers) + Budget(i)
      BY <1>0, <3>0, ForgettingPays DEF Budget
    <3>2. applied[i] + Cardinality(Taking(i)) <= Cardinality(Workers) + Budget(i)
      BY <2>1, <2>4 DEF RepeatInv
    <3> QED BY <1>0, <2>1, <2>2, <2>4, <3>1, <3>2
  <2> QED BY <2>3, <2>4
<1>9. CASE Restart
  <2>1. /\ applied' = applied /\ seen' = {} /\ forgotten'[i] = forgotten[i] + 1
        /\ \A w \in Workers : wpc'[w] = "idle"
    BY <1>9 DEF Restart
  <2>2. Handling(i)' = {}
    BY <2>1 DEF Handling
  <2>3. Cardinality(Handling(i)') = 0
    BY <2>2, FS_EmptySet
  <2>4. Budget(i)' = Cardinality(Workers) + Budget(i)
    BY <1>0, <2>1, ForgettingPays DEF Budget
  <2> QED BY <1>0, <1>7, <2>1, <2>3, <2>4
<1> QED BY <1>2, <1>3, <1>4, <1>5, <1>6, <1>8, <1>9 DEF Next, WorkerStep

(* However many copies of a trade are delivered and wherever the two calls of
   the deduper interleave, a trade is applied at most once by every worker, and
   as often again each time the TTL or a restart makes the process forget it. *)
THEOREM RepeatsAreBounded == Spec => []RepeatsBounded
<1>1. Init => RepeatInv
  <2> SUFFICES ASSUME Init, NEW i \in TradeIds
               PROVE  applied[i] + Cardinality(Handling(i)) <= Budget(i) /\ i \notin seen
    BY InitType DEF RepeatInv
  <2>1. /\ applied[i] = 0 /\ forgotten[i] = 0 /\ i \notin seen
        /\ Handling(i) = {}
    BY DEF Init, Handling
  <2>2. Cardinality(Handling(i)) = 0
    BY <2>1, FS_EmptySet
  <2>3. Cardinality(Workers) \in Nat
    BY WorkersAssumption, FS_CardinalityType
  <2> QED BY <2>1, <2>2, <2>3 DEF Budget
<1>2. RepeatInv => RepeatsBounded
  <2> SUFFICES ASSUME RepeatInv, NEW i \in TradeIds
               PROVE  applied[i] <= Cardinality(Workers) * (1 + forgotten[i])
    BY DEF RepeatsBounded
  <2>1. /\ applied[i] \in Nat /\ forgotten[i] \in Nat /\ Cardinality(Workers) \in Nat
        /\ Handling(i) \subseteq Workers /\ Taking(i) \subseteq Workers
    BY WorkersAssumption, FS_CardinalityType
       DEF RepeatInv, TypeOK, Handling, Taking
  <2>2. Cardinality(Handling(i)) \in Nat /\ Cardinality(Taking(i)) \in Nat
    BY <2>1, HandsAreFinite
  <2>3. Budget(i) \in Nat
        /\ Cardinality(Workers) * (1 + forgotten[i]) = Cardinality(Workers) + Budget(i)
    BY <2>1, ForgettingPays DEF Budget
  <2>4. i \in seen => applied[i] + Cardinality(Taking(i)) <= Cardinality(Workers) + Budget(i)
    BY DEF RepeatInv
  <2>5. i \notin seen => applied[i] + Cardinality(Handling(i)) <= Budget(i)
    BY DEF RepeatInv
  <2> HIDE DEF Budget
  <2> QED BY <2>1, <2>2, <2>3, <2>4, <2>5
<1> QED BY <1>1, <1>2, NextRepeat, PTL DEF Spec
===============================================================================
