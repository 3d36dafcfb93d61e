------------------------------- MODULE HubProofs -------------------------------
(***************************************************************************)
(* Proofs about the WebSocket hub, for any number of connections, writers, *)
(* symbols and trades and any capacity of the channels: no writer sends on *)
(* a closed channel, writers and connections agree on who subscribes to    *)
(* what, and the totals count the subscribers.                             *)
(***************************************************************************)
EXTENDS Hub, FiniteSetTheorems, TLAPS

(* The first element and the rest of a channel that is not empty. *)
LEMMA Received ==
    ASSUME NEW T, NEW q \in Seq(T), q # <<>>
    PROVE  Head(q) \in T /\ Tail(q) \in Seq(T)
  OBVIOUS

(* A channel with one more element. *)
LEMMA Sent ==
    ASSUME NEW T, NEW q \in Seq(T), NEW x \in T
    PROVE  Append(q, x) \in Seq(T)
  OBVIOUS

(* A writer that is not sending has nothing left to send, *)
IdleEmpty == \A w \in Writers : sending[w] = 0 => todo[w] = {}

-----------------------------------------------------------------------------
(* Type correctness *)

LEMMA InitType == Init => TypeOK /\ IdleEmpty
  BY WriterAssumption, TradeAssumption, BufferAssumption
  DEF Init, TypeOK, IdleEmpty, Writers, Trades, Steps

(* The channels on the way of a trade. *)
LEMMA BroadcastType ==
    ASSUME TypeOK,
           BroadcastTrade \/ \E s \in Symbols : TakeTrade(s) \/ FanOut(s)
    PROVE  TypeOK'
<1>1. CASE BroadcastTrade
  <2>1. next \in Trades /\ TradeSym[next] \in Symbols /\ next' \in Nat
    BY <1>1, TradeAssumption DEF BroadcastTrade, TypeOK, Trades
  <2>2. Append(chans[TradeSym[next]], next) \in Seq(Trades)
    BY <2>1, Sent DEF TypeOK
  <2>3. chans' \in [Symbols -> Seq(Trades)]
    BY <1>1, <2>1, <2>2 DEF BroadcastTrade, TypeOK
  <2> QED
    BY <1>1, <2>1, <2>3 DEF BroadcastTrade, TypeOK, writing, conn, booking
<1>2. ASSUME NEW s \in Symbols, TakeTrade(s)
      PROVE  TypeOK'
  <2>1. Head(chans[s]) \in Trades /\ Tail(chans[s]) \in Seq(Trades)
    BY <1>2, Received DEF TakeTrade, TypeOK
  <2>2. 1 \in Writers
    BY WriterAssumption DEF Writers
  <2>3. /\ chans' \in [Symbols -> Seq(Trades)]
        /\ fanning' \in [Symbols -> {0} \cup Trades]
        /\ atWriter' \in [Symbols -> Writers]
    BY <1>2, <2>1, <2>2 DEF TakeTrade, TypeOK
  <2> QED
    BY <1>2, <2>3 DEF TakeTrade, TypeOK, writing, conn, booking
<1>3. ASSUME NEW s \in Symbols, FanOut(s)
      PROVE  TypeOK'
  <2>1. atWriter[s] \in Writers /\ fanning[s] \in Trades
    BY <1>3 DEF FanOut, MoreWriters, TypeOK
  <2>2. Append(queue[atWriter[s]], fanning[s]) \in Seq(Trades)
    BY <2>1, Sent DEF TypeOK
  <2>3. queue' \in [Writers -> Seq(Trades)]
    BY <1>3, <2>1, <2>2 DEF FanOut, MoreWriters, TypeOK
  <2>4. atWriter[s] < NumWriters => atWriter[s] + 1 \in Writers
    BY <2>1, WriterAssumption DEF Writers
  <2>5. atWriter' \in [Symbols -> Writers] /\ fanning' \in [Symbols -> {0} \cup Trades]
    BY <1>3, <2>4 DEF FanOut, MoreWriters, TypeOK
  <2> QED
    BY <1>3, <2>3, <2>5 DEF FanOut, MoreWriters, TypeOK, conn, booking
<1> QED
  BY <1>1, <1>2, <1>3

LEMMA WriterType ==
    ASSUME TypeOK, IdleEmpty, NEW w \in Writers, WriterStep(w)
    PROVE  TypeOK'
<1>1. CASE StartSending(w)
  <2>1. Head(queue[w]) \in Trades /\ Tail(queue[w]) \in Seq(Trades)
    BY <1>1, Received DEF StartSending, TypeOK
  <2>2. /\ queue' \in [Writers -> Seq(Trades)]
        /\ sending' \in [Writers -> {0} \cup Trades]
        /\ todo' \in [Writers -> SUBSET Conns]
    BY <1>1, <2>1 DEF StartSending, Subscribers, TypeOK
  <2> QED
    BY <1>1, <2>2 DEF StartSending, TypeOK, broadcast, conn, booking
<1>2. CASE EndSending(w)
  BY <1>2 DEF EndSending, TypeOK, broadcast, conn, booking
<1>3. ASSUME NEW c \in Conns, Deliver(w, c)
      PROVE  TypeOK'
  <2>1. sending[w] \in Trades
    BY <1>3 DEF Deliver, TypeOK, IdleEmpty
  <2>2. Append(send[c], sending[w]) \in Seq(Trades)
    BY <2>1, Sent DEF TypeOK
  <2>3. send' \in [Conns -> Seq(Trades)] /\ todo' \in [Writers -> SUBSET Conns]
    BY <1>3, <2>2 DEF Deliver, TypeOK
  <2> QED
    BY <1>3, <2>3 DEF Deliver, TypeOK, broadcast, booking
<1>4. ASSUME NEW c \in Conns, Drop(w, c)
      PROVE  TypeOK'
  BY <1>4 DEF Drop, TypeOK, broadcast, conn, booking
<1> QED
  BY <1>1, <1>2, <1>3, <1>4 DEF WriterStep

(* The connections and their bookkeeping. *)
LEMMA LessOneType == \A n \in Nat : LessOne(n) \in Nat
  BY DEF LessOne

LEMMA ConnType ==
    ASSUME TypeOK, NEW c \in Conns,
           \/ Connect(c) \/ WriteMessage(c) \/ WritePumpExit(c)
           \/ \E s \in Symbols : Subscribe(c, s) \/ Unsubscribe(c, s)
           \/ Leave(c) \/ Removal(c)
    PROVE  TypeOK'
<1>1. CASE Connect(c)
  BY <1>1 DEF Connect, TypeOK, Steps, broadcast, writing, booking
<1>2. CASE WriteMessage(c)
  <2>1. Tail(send[c]) \in Seq(Trades)
    BY <1>2, Received DEF WriteMessage, TypeOK
  <2>2. send' \in [Conns -> Seq(Trades)]
    BY <1>2, <2>1 DEF WriteMessage, TypeOK
  <2> QED
    BY <1>2, <2>2 DEF WriteMessage, TypeOK, broadcast, writing, booking
<1>3. CASE WritePumpExit(c)
  BY <1>3 DEF WritePumpExit, TypeOK, broadcast, writing, booking
<1>4. ASSUME NEW s \in Symbols, Subscribe(c, s) \/ Unsubscribe(c, s)
      PROVE  TypeOK'
  <2>1. requests' \in [Conns -> Nat] /\ csym' \in [Conns -> Symbols]
    <3>1. Request(c, s)
      BY <1>4 DEF Subscribe, Unsubscribe
    <3>2. requests \in [Conns -> Nat] /\ csym \in [Conns -> Symbols]
      BY DEF TypeOK
    <3>3. requests' \in [Conns -> Nat]
      BY <3>1, <3>2 DEF Request
    <3>4. csym' \in [Conns -> Symbols]
      BY <3>1, <3>2 DEF Request
    <3> QED
      BY <3>3, <3>4
  <2>2. subs' \subseteq Conns \X Symbols /\ subbed' \subseteq Conns \X Symbols
    <3>1. <<c, s>> \in Conns \X Symbols
      OBVIOUS
    <3>2. subs \subseteq Conns \X Symbols /\ subbed \subseteq Conns \X Symbols
      BY DEF TypeOK
    <3>3. CASE Subscribe(c, s)
      <4>1. subs' = subs \cup {<<c, s>>} /\ subbed' = subbed \cup {<<c, s>>}
        BY <3>3 DEF Subscribe, Recorded
      <4> QED
        BY <3>1, <3>2, <4>1
    <3>4. CASE Unsubscribe(c, s)
      <4>1. subs' \subseteq subs /\ subbed' \subseteq subbed
        BY <3>4 DEF Unsubscribe
      <4> QED
        BY <3>2, <4>1
    <3> QED
      BY <1>4, <3>3, <3>4
  <2>3. cpc' \in [Conns -> Steps]
    BY <1>4 DEF Subscribe, Unsubscribe, TypeOK, Steps
  <2> QED
    BY <1>4, <2>1, <2>2, <2>3 DEF Subscribe, Unsubscribe, TypeOK, broadcast, writing
<1>5. CASE Leave(c)
  BY <1>5 DEF Leave, TypeOK, Steps, broadcast, writing, booking
<1>6. CASE CountRequest(c)
  <2>1. total' \in [Symbols -> Nat]
    <3>1. csym[c] \in Symbols /\ total[csym[c]] \in Nat /\ LessOne(total[csym[c]]) \in Nat
      BY LessOneType DEF TypeOK
    <3>2. (IF cpc[c] = "count" THEN total[csym[c]] + 1 ELSE LessOne(total[csym[c]])) \in Nat
      BY <3>1
    <3> QED
      BY <1>6, <3>1, <3>2 DEF CountRequest, TypeOK
  <2>2. cpc' \in [Conns -> Steps]
    BY <1>6 DEF CountRequest, TypeOK, Steps
  <2> QED
    BY <1>6, <2>1, <2>2 DEF CountRequest, TypeOK, broadcast, writing
<1>7. CASE LockTotal(c)
  BY <1>7 DEF LockTotal, TypeOK, Steps, broadcast, writing
<1>8. CASE RemoveSubs(c)
  <2>1. total' \in [Symbols -> Nat]
    BY <1>8, LessOneType DEF RemoveSubs, TypeOK
  <2>2. cpc' \in [Conns -> Steps] /\ subs' \subseteq Conns \X Symbols
    BY <1>8 DEF RemoveSubs, TypeOK, Steps
  <2> QED
    BY <1>8, <2>1, <2>2 DEF RemoveSubs, TypeOK, broadcast, writing
<1>9. CASE CloseSend(c)
  BY <1>9 DEF CloseSend, TypeOK, Steps, broadcast, writing, booking
<1> QED
  BY <1>1, <1>2, <1>3, <1>4, <1>5, <1>6, <1>7, <1>8, <1>9 DEF Removal

-----------------------------------------------------------------------------
(* Removal against fan-out *)

(* what it has still to send goes to its own connections that subscribe, *)
SendsToSubscribers ==
    \A w \in Writers : \A c \in todo[w] : WriterOf[c] = w /\ \E s \in Symbols : <<c, s>> \in subs

(* writers and connections agree until the removal, *)
Agree ==
    \A c \in Conns, s \in Symbols :
        cpc[c] \notin {"closing", "gone"} => (<<c, s>> \in subs <=> <<c, s>> \in subbed)

(* and after it the writers know the connection no more. *)
Forgotten ==
    \A c \in Conns, s \in Symbols : cpc[c] \in {"closing", "gone"} => <<c, s>> \notin subs

ClosedGone == \A c \in closed : cpc[c] = "gone"

HubInv == TypeOK /\ IdleEmpty /\ SendsToSubscribers /\ Agree /\ Forgotten /\ ClosedGone

LEMMA InitHub == Init => HubInv
  BY InitType
  DEF Init, HubInv, SendsToSubscribers, Agree, Forgotten, ClosedGone, Writers

LEMMA NextHub == HubInv /\ [Next]_vars => HubInv'
<1> SUFFICES ASSUME HubInv, [Next]_vars
             PROVE  HubInv'
  OBVIOUS
<1>0. TypeOK /\ IdleEmpty
  BY DEF HubInv
<1>1. CASE UNCHANGED vars
  BY <1>1 DEF vars, broadcast, writing, conn, booking, HubInv, TypeOK, IdleEmpty,
              SendsToSubscribers, Agree, Forgotten, ClosedGone
<1>2. CASE BroadcastTrade \/ \E s \in Symbols : TakeTrade(s) \/ FanOut(s)
  <2>1. TypeOK'
    BY <1>0, <1>2, BroadcastType
  <2>2. UNCHANGED <<sending, todo, conn, booking>>
    BY <1>2 DEF BroadcastTrade, TakeTrade, FanOut, writing
  <2> QED
    BY <2>1, <2>2 DEF HubInv, IdleEmpty, SendsToSubscribers, Agree, Forgotten, ClosedGone,
                      conn, booking
<1>3. ASSUME NEW w \in Writers, WriterStep(w)
      PROVE  HubInv'
  <2>1. TypeOK'
    BY <1>0, <1>3, WriterType
  <2>2. UNCHANGED <<cpc, closed, subs, subbed>>
    BY <1>3 DEF WriterStep, StartSending, EndSending, Deliver, Drop, conn, booking
  <2>3. Agree' /\ Forgotten' /\ ClosedGone'
    BY <2>2 DEF HubInv, Agree, Forgotten, ClosedGone
  <2>4. IdleEmpty' /\ SendsToSubscribers'
    <3>1. CASE StartSending(w)
      <4>1. Head(queue[w]) \in Trades
        BY <1>0, <3>1, Received DEF StartSending, TypeOK
      <4>2. Head(queue[w]) # 0 /\ TradeSym[Head(queue[w])] \in Symbols
        BY <4>1, TradeAssumption DEF Trades
      <4>3. sending' = [sending EXCEPT ![w] = Head(queue[w])]
        BY <3>1 DEF StartSending
      <4>4. todo' = [todo EXCEPT ![w] =
                {c \in Subscribers(TradeSym[Head(queue[w])]) : WriterOf[c] = w}]
        BY <3>1 DEF StartSending
      <4>5. IdleEmpty'
        BY <1>0, <4>2, <4>3, <4>4 DEF IdleEmpty, TypeOK
      <4>6. ASSUME NEW v \in Writers, NEW c \in todo'[v]
            PROVE  WriterOf[c] = v /\ \E s \in Symbols : <<c, s>> \in subs'
        <5>1. CASE v = w
          <6>1. c \in Subscribers(TradeSym[Head(queue[w])]) /\ WriterOf[c] = w
            BY <1>0, <4>4, <4>6, <5>1 DEF TypeOK
          <6>2. <<c, TradeSym[Head(queue[w])]>> \in subs'
            BY <2>2, <6>1 DEF Subscribers
          <6> QED
            BY <4>2, <5>1, <6>1, <6>2
        <5>2. CASE v # w
          <6>1. c \in todo[v]
            BY <1>0, <4>4, <4>6, <5>2 DEF TypeOK
          <6> QED
            BY <2>2, <6>1 DEF HubInv, SendsToSubscribers
        <5> QED
          BY <5>1, <5>2
      <4> QED
        BY <4>5, <4>6 DEF SendsToSubscribers
    <3>2. CASE EndSending(w) \/ \E c \in Conns : Deliver(w, c) \/ Drop(w, c)
      <4>1. /\ \A v \in Writers : todo'[v] \subseteq todo[v]
            /\ \A v \in Writers : sending'[v] = 0 => sending[v] = 0 \/ todo[v] = {}
        BY <1>0, <3>2 DEF EndSending, Deliver, Drop, TypeOK
      <4> QED
        BY <1>0, <2>2, <4>1 DEF HubInv, IdleEmpty, SendsToSubscribers
    <3> QED
      BY <1>3, <3>1, <3>2 DEF WriterStep
  <2> QED
    BY <2>1, <2>3, <2>4 DEF HubInv
<1>4. ASSUME NEW c \in Conns,
             \/ Connect(c) \/ WriteMessage(c) \/ WritePumpExit(c)
             \/ \E s \in Symbols : Subscribe(c, s) \/ Unsubscribe(c, s)
             \/ Leave(c) \/ Removal(c)
      PROVE  HubInv'
  <2>1. TypeOK'
    BY <1>0, <1>4, ConnType
  <2>2. UNCHANGED <<sending, todo>>
    BY <1>4 DEF Connect, WriteMessage, WritePumpExit, Subscribe, Unsubscribe, Leave,
                Removal, CountRequest, LockTotal, RemoveSubs, CloseSend, writing
  <2>3. IdleEmpty'
    BY <1>0, <2>2 DEF IdleEmpty
  <2>4. ASSUME UNCHANGED <<subs, subbed, closed>>,
               \A d \in Conns : cpc'[d] = cpc[d] \/ {cpc[d], cpc'[d]} \cap {"closing", "gone"} = {}
        PROVE  HubInv'
    BY <2>1, <2>2, <2>3, <2>4
    DEF HubInv, SendsToSubscribers, Agree, Forgotten, ClosedGone, TypeOK
  <2>5. CASE Connect(c) \/ WriteMessage(c) \/ WritePumpExit(c) \/ Leave(c)
               \/ CountRequest(c) \/ LockTotal(c)
    <3>1. UNCHANGED <<subs, subbed, closed>>
      BY <2>5 DEF Connect, WriteMessage, WritePumpExit, Leave, CountRequest, LockTotal, booking
    <3>2. \A d \in Conns :
             cpc'[d] = cpc[d] \/ {cpc[d], cpc'[d]} \cap {"closing", "gone"} = {}
      BY <1>0, <2>5
      DEF Connect, WriteMessage, WritePumpExit, Leave, CountRequest, LockTotal, TypeOK
    <3> QED
      BY <2>4, <3>1, <3>2
  <2>6. ASSUME NEW s \in Symbols, Subscribe(c, s)
        PROVE  HubInv'
    <3>1. /\ cpc[c] = "reading" /\ cpc' = [cpc EXCEPT ![c] = "count"]
          /\ subs' = subs \cup {<<c, s>>} /\ subbed' = subbed \cup {<<c, s>>}
          /\ closed' = closed
      BY <2>6 DEF Subscribe, Request, Recorded
    <3>2. SendsToSubscribers'
      BY <2>2, <3>1 DEF HubInv, SendsToSubscribers
    <3>3. Agree' /\ Forgotten'
      BY <1>0, <3>1 DEF HubInv, Agree, Forgotten, TypeOK
    <3>4. ClosedGone'
      BY <1>0, <3>1 DEF HubInv, ClosedGone, TypeOK
    <3> QED
      BY <2>1, <2>3, <3>2, <3>3, <3>4 DEF HubInv
  <2>7. WriterOf[c] \in Writers
    BY WriterAssumption
  <2>8. ASSUME Unlocked(WriterOf[c]),
               \A d \in Conns, s \in Symbols : d # c /\ <<d, s>> \in subs => <<d, s>> \in subs'
        PROVE  SendsToSubscribers'
    <3>1. todo[WriterOf[c]] = {}
      BY <1>0, <2>7, <2>8 DEF Unlocked, IdleEmpty
    <3>2. \A w \in Writers : c \notin todo[w]
      BY <3>1 DEF HubInv, SendsToSubscribers
    <3>3. ASSUME NEW w \in Writers, NEW d \in todo'[w]
          PROVE  WriterOf[d] = w /\ \E s \in Symbols : <<d, s>> \in subs'
      <4>1. d \in todo[w] /\ d # c /\ d \in Conns
        BY <1>0, <2>2, <3>2 DEF TypeOK
      <4>2. WriterOf[d] = w /\ \E s \in Symbols : <<d, s>> \in subs
        BY <4>1 DEF HubInv, SendsToSubscribers
      <4> QED
        BY <2>8, <4>1, <4>2
    <3> QED
      BY <3>3 DEF SendsToSubscribers
  <2>9. ASSUME NEW s \in Symbols, Unsubscribe(c, s)
        PROVE  HubInv'
    <3>1. /\ cpc[c] = "reading" /\ cpc' = [cpc EXCEPT ![c] = "discount"]
          /\ subs' = subs \ {<<c, s>>} /\ subbed' = subbed \ {<<c, s>>}
          /\ closed' = closed /\ Unlocked(WriterOf[c])
      BY <2>9 DEF Unsubscribe, Request
    <3>2. SendsToSubscribers'
      BY <2>8, <3>1
    <3>3. Agree' /\ Forgotten'
      BY <1>0, <3>1 DEF HubInv, Agree, Forgotten, TypeOK
    <3>4. ClosedGone'
      BY <1>0, <3>1 DEF HubInv, ClosedGone, TypeOK
    <3> QED
      BY <2>1, <2>3, <3>2, <3>3, <3>4 DEF HubInv
  <2>10. CASE RemoveSubs(c)
    <3>1. /\ cpc[c] = "removing" /\ cpc' = [cpc EXCEPT ![c] = "closing"]
          /\ subs' = {p \in subs : p[1] # c \/ p \notin subbed} /\ subbed' = subbed
          /\ closed' = closed /\ Unlocked(WriterOf[c])
      BY <2>10 DEF RemoveSubs
    <3>2. /\ \A d \in Conns, s \in Symbols : d # c => (<<d, s>> \in subs' <=> <<d, s>> \in subs)
          /\ \A s \in Symbols : <<c, s>> \notin subs'
      <4>1. \A d \in Conns, s \in Symbols : <<d, s>>[1] = d
        OBVIOUS
      <4>2. \A s \in Symbols : <<c, s>> \in subs <=> <<c, s>> \in subbed
        BY <3>1 DEF HubInv, Agree
      <4> QED
        BY <3>1, <4>1, <4>2
    <3>3. SendsToSubscribers'
      BY <2>8, <3>1, <3>2
    <3>4. Agree' /\ Forgotten'
      BY <1>0, <3>1, <3>2 DEF HubInv, Agree, Forgotten, TypeOK
    <3>5. ClosedGone'
      BY <1>0, <3>1 DEF HubInv, ClosedGone, TypeOK
    <3> QED
      BY <2>1, <2>3, <3>3, <3>4, <3>5 DEF HubInv
  <2>11. CASE CloseSend(c)
    <3>1. /\ cpc[c] = "closing" /\ cpc' = [cpc EXCEPT ![c] = "gone"]
          /\ closed' = closed \cup {c} /\ UNCHANGED <<subs, subbed>>
      BY <2>11 DEF CloseSend, booking
    <3>2. SendsToSubscribers'
      BY <2>2, <3>1 DEF HubInv, SendsToSubscribers
    <3>3. \A d \in Conns : cpc'[d] = IF d = c THEN "gone" ELSE cpc[d]
      BY <1>0, <3>1 DEF TypeOK
    <3>4. \A d \in Conns : cpc'[d] \in {"closing", "gone"} <=> cpc[d] \in {"closing", "gone"}
      BY <3>1, <3>3
    <3>5. Agree' /\ Forgotten'
      BY <3>1, <3>4 DEF HubInv, Agree, Forgotten
    <3>6. ClosedGone'
      BY <1>0, <3>1, <3>3 DEF HubInv, ClosedGone, TypeOK
    <3> QED
      BY <2>1, <2>3, <3>2, <3>5, <3>6 DEF HubInv
  <2> QED
    BY <1>4, <2>5, <2>6, <2>9, <2>10, <2>11 DEF Removal
<1> QED
  BY <1>1, <1>2, <1>3, <1>4 DEF Next

LEMMA HubInvariant == Spec => []HubInv
  BY InitHub, NextHub, PTL DEF Spec

(* Every reachable state is of the declared types; in particular no total ever
   falls below 0, whatever is unsubscribed that was not subscribed. *)
THEOREM TypeCorrect == Spec => []TypeOK
<1>1. HubInv => TypeOK
  BY DEF HubInv
<1> QED
  BY <1>1, HubInvariant, PTL

(* No writer has a connection still to send to whose channel is closed: the
   panic of a send on a closed channel cannot happen. *)
THEOREM NeverSendsOnClosed == Spec => []NoSendOnClosed
<1>1. HubInv => NoSendOnClosed
  <2> SUFFICES ASSUME HubInv, NEW w \in Writers, NEW c \in todo[w], c \in closed
               PROVE  FALSE
    BY DEF NoSendOnClosed
  <2>1. c \in Conns /\ cpc[c] = "gone"
    BY DEF HubInv, ClosedGone, TypeOK
  <2> QED
    BY <2>1 DEF HubInv, SendsToSubscribers, Forgotten
<1> QED
  BY <1>1, HubInvariant, PTL

(* What a writer's map and a connection's own record say of its subscriptions
   is the same until the connection is removed, so the removal, which goes by
   the record, leaves nothing behind. *)
THEOREM WritersAndConnectionsAgree == Spec => [](Agree /\ Forgotten)
<1>1. HubInv => Agree /\ Forgotten
  BY DEF HubInv
<1> QED
  BY <1>1, HubInvariant, PTL

-----------------------------------------------------------------------------
(* The totals *)

(* A request to subscribe is booked with the writer before it is counted. *)
BookedFirst == \A c \in Conns : cpc[c] = "count" => <<c, csym[c]>> \in subs

BookInv == HubInv /\ BookedFirst /\ TotalsRight

(* Sets of connections, one of which comes or goes. *)
LEMMA CountConns ==
    ASSUME NEW A \in SUBSET Conns
    PROVE  /\ IsFiniteSet(A) /\ Cardinality(A) \in Nat
           /\ \A c \in Conns : c \notin A => Cardinality(A \cup {c}) = Cardinality(A) + 1
           /\ \A c \in A : Cardinality(A \ {c}) = Cardinality(A) - 1 /\ Cardinality(A) > 0
           /\ \A B \in SUBSET A : Cardinality(B) <= Cardinality(A)
<1>1. IsFiniteSet(A)
  BY WriterAssumption, FS_Subset
<1>2. Cardinality(A) \in Nat
  BY <1>1, FS_CardinalityType
<1>3. \A c \in Conns : c \notin A => Cardinality(A \cup {c}) = Cardinality(A) + 1
  BY <1>1, FS_AddElement
<1>4. ASSUME NEW c \in A
      PROVE  Cardinality(A \ {c}) = Cardinality(A) - 1 /\ Cardinality(A) > 0
  <2>1. Cardinality(A \ {c}) = Cardinality(A) - 1
    BY <1>1, FS_RemoveElement
  <2>2. Cardinality(A) # 0
    BY <1>1, <1>4, FS_EmptySet
  <2> QED BY <1>2, <2>1, <2>2
<1>5. \A B \in SUBSET A : Cardinality(B) <= Cardinality(A)
  BY <1>1, FS_Subset
<1> QED BY <1>1, <1>2, <1>3, <1>4, <1>5

(* A total that counts a subscriber whose request is not under way is not 0. *)
LEMMA TotalPositive ==
    ASSUME BookInv, NEW s \in Symbols \ repeated, NEW c \in Conns,
           \/ cpc[c] = "discount" /\ csym[c] = s
           \/ cpc[c] = "removing" /\ <<c, s>> \in subs
    PROVE  total[s] > 0
<1> DEFINE S == Subscribers(s)
           C == At("count", s)
           D == At("discount", s)
<1>1. S \in SUBSET Conns /\ C \in SUBSET Conns /\ D \in SUBSET Conns
  BY DEF Subscribers, At
<1>2. total[s] = Cardinality(S) - Cardinality(C) + Cardinality(D)
  BY DEF BookInv, TotalsRight
<1>3. C \subseteq S
  BY DEF BookInv, BookedFirst, Subscribers, At
<1> HIDE DEF S, C, D
<1>4. /\ Cardinality(S) \in Nat /\ Cardinality(C) \in Nat /\ Cardinality(D) \in Nat
      /\ Cardinality(C) <= Cardinality(S)
  BY <1>1, <1>3, CountConns
<1>5. CASE c \in D
  <2>1. Cardinality(D) > 0
    BY <1>1, <1>5, CountConns
  <2> QED BY <1>2, <1>4, <2>1
<1>6. CASE c \in S /\ c \notin C
  <2>1. C \subseteq S \ {c} /\ S \ {c} \in SUBSET Conns
    BY <1>1, <1>3, <1>6
  <2>2. Cardinality(C) <= Cardinality(S \ {c}) /\ Cardinality(S \ {c}) = Cardinality(S) - 1
    BY <1>1, <1>6, <2>1, CountConns
  <2> QED BY <1>2, <1>4, <2>2
<1> QED BY <1>5, <1>6 DEF S, C, D, Subscribers, At

(* The books of a symbol: the total, the subscribers, and those on their way. *)
LEMMA SameBooks ==
    ASSUME BookInv, UNCHANGED <<subs, total, repeated>>,
           \A c \in Conns : \/ cpc'[c] = cpc[c] /\ csym'[c] = csym[c]
                            \/ {cpc[c], cpc'[c]} \cap {"count", "discount"} = {}
    PROVE  BookedFirst' /\ TotalsRight'
<1>1. \A s \in Symbols : /\ Subscribers(s)' = Subscribers(s)
                         /\ At("count", s)' = At("count", s)
                         /\ At("discount", s)' = At("discount", s)
  BY DEF Subscribers, At
<1> QED BY <1>1 DEF BookInv, BookedFirst, TotalsRight

LEMMA SubscribeBooks ==
    ASSUME BookInv, NEW c \in Conns, NEW r \in Symbols, Subscribe(c, r)
    PROVE  BookedFirst' /\ TotalsRight'
<1>0. TypeOK /\ Agree
  BY DEF BookInv, HubInv
<1>1. /\ cpc[c] = "reading" /\ cpc' = [cpc EXCEPT ![c] = "count"]
      /\ csym' = [csym EXCEPT ![c] = r] /\ subs' = subs \cup {<<c, r>>} /\ total' = total
      /\ repeated \subseteq repeated' /\ (r \notin repeated' => r \notin Subscribed(c))
  BY DEF Subscribe, Request
<1>2. /\ \A d \in Conns : d # c => cpc'[d] = cpc[d] /\ csym'[d] = csym[d]
      /\ cpc'[c] = "count" /\ csym'[c] = r
  BY <1>0, <1>1 DEF TypeOK
<1>3. BookedFirst'
  BY <1>1, <1>2 DEF BookInv, BookedFirst
<1>4. ASSUME NEW s \in Symbols \ repeated'
      PROVE  total'[s] = Cardinality(Subscribers(s)')
                           - Cardinality(At("count", s)') + Cardinality(At("discount", s)')
  <2>1. total[s] = Cardinality(Subscribers(s))
                     - Cardinality(At("count", s)) + Cardinality(At("discount", s))
    BY <1>1 DEF BookInv, TotalsRight
  <2>2. At("discount", s)' = At("discount", s)
    BY <1>1, <1>2 DEF At
  <2>3. CASE s # r
    <3>1. Subscribers(s)' = Subscribers(s) /\ At("count", s)' = At("count", s)
      BY <1>1, <1>2, <2>3 DEF At, Subscribers
    <3> QED BY <1>1, <2>1, <2>2, <3>1
  <2>4. CASE s = r
    <3>1. c \notin Subscribers(s) /\ c \notin At("count", s)
      BY <1>0, <1>1, <2>4 DEF At, Subscribers, Subscribed, Agree
    <3>2. /\ Subscribers(s)' = Subscribers(s) \cup {c}
          /\ At("count", s)' = At("count", s) \cup {c}
      BY <1>1, <1>2, <2>4 DEF At, Subscribers
    <3>3. Subscribers(s) \in SUBSET Conns /\ At("count", s) \in SUBSET Conns
          /\ At("discount", s) \in SUBSET Conns
      BY DEF At, Subscribers
    <3>4. /\ Cardinality(Subscribers(s)') = Cardinality(Subscribers(s)) + 1
          /\ Cardinality(At("count", s)') = Cardinality(At("count", s)) + 1
          /\ Cardinality(Subscribers(s)) \in Nat /\ Cardinality(At("count", s)) \in Nat
          /\ Cardinality(At("discount", s)) \in Nat
      BY <3>1, <3>2, <3>3, CountConns
    <3> QED BY <1>1, <2>1, <2>2, <3>4
  <2> QED BY <2>3, <2>4
<1> QED BY <1>3, <1>4 DEF TotalsRight

LEMMA UnsubscribeBooks ==
    ASSUME BookInv, NEW c \in Conns, NEW r \in Symbols, Unsubscribe(c, r)
    PROVE  BookedFirst' /\ TotalsRight'
<1>0. TypeOK /\ Agree
  BY DEF BookInv, HubInv
<1>1. /\ cpc[c] = "reading" /\ cpc' = [cpc EXCEPT ![c] = "discount"]
      /\ csym' = [csym EXCEPT ![c] = r] /\ subs' = subs \ {<<c, r>>} /\ total' = total
      /\ repeated \subseteq repeated' /\ (r \notin repeated' => r \in Subscribed(c))
  BY DEF Unsubscribe, Request
<1>2. /\ \A d \in Conns : d # c => cpc'[d] = cpc[d] /\ csym'[d] = csym[d]
      /\ cpc'[c] = "discount" /\ csym'[c] = r
  BY <1>0, <1>1 DEF TypeOK
<1>3. BookedFirst'
  BY <1>1, <1>2 DEF BookInv, BookedFirst
<1>4. ASSUME NEW s \in Symbols \ repeated'
      PROVE  total'[s] = Cardinality(Subscribers(s)')
                           - Cardinality(At("count", s)') + Cardinality(At("discount", s)')
  <2>1. total[s] = Cardinality(Subscribers(s))
                     - Cardinality(At("count", s)) + Cardinality(At("discount", s))
    BY <1>1 DEF BookInv, TotalsRight
  <2>2. At("count", s)' = At("count", s)
    BY <1>1, <1>2 DEF At
  <2>3. CASE s # r
    <3>1. Subscribers(s)' = Subscribers(s) /\ At("discount", s)' = At("discount", s)
      BY <1>1, <1>2, <2>3 DEF At, Subscribers
    <3> QED BY <1>1, <2>1, <2>2, <3>1
  <2>4. CASE s = r
    <3>1. c \in Subscribers(s) /\ c \notin At("discount", s)
      BY <1>0, <1>1, <2>4 DEF At, Subscribers, Subscribed, Agree
    <3>2. /\ Subscribers(s)' = Subscribers(s) \ {c}
          /\ At("discount", s)' = At("discount", s) \cup {c}
      BY <1>1, <1>2, <2>4 DEF At, Subscribers
    <3>3. Subscribers(s) \in SUBSET Conns /\ At("count", s) \in SUBSET Conns
          /\ At("discount", s) \in SUBSET Conns
      BY DEF At, Subscribers
    <3>4. /\ Cardinality(Subscribers(s)') = Cardinality(Subscribers(s)) - 1
          /\ Cardinality(At("discount", s)') = Cardinality(At("discount", s)) + 1
          /\ Cardinality(Subscribers(s)) \in Nat /\ Cardinality(At("count", s)) \in Nat
          /\ Cardinality(At("discount", s)) \in Nat
      BY <3>1, <3>2, <3>3, CountConns
    <3> QED BY <1>1, <2>1, <2>2, <3>4
  <2> QED BY <2>3, <2>4
<1> QED BY <1>3, <1>4 DEF TotalsRight

LEMMA CountBooks ==
    ASSUME BookInv, NEW c \in Conns, CountRequest(c)
    PROVE  BookedFirst' /\ TotalsRight'
<1>0. TypeOK
  BY DEF BookInv, HubInv
<1> DEFINE r == csym[c]
           booked == IF cpc[c] = "count" THEN total[r] + 1 ELSE LessOne(total[r])
<1>1. /\ cpc[c] \in {"count", "discount"} /\ cpc' = [cpc EXCEPT ![c] = "reading"]
      /\ csym' = csym /\ subs' = subs /\ total' = [total EXCEPT ![r] = booked]
      /\ repeated' = repeated
  BY DEF CountRequest
<1>2. /\ \A d \in Conns : d # c => cpc'[d] = cpc[d] /\ csym'[d] = csym[d]
      /\ cpc'[c] = "reading" /\ r \in Symbols
  BY <1>0, <1>1 DEF TypeOK
<1>3. BookedFirst'
  BY <1>1, <1>2 DEF BookInv, BookedFirst
<1>4. ASSUME NEW s \in Symbols \ repeated
      PROVE  total'[s] = Cardinality(Subscribers(s)')
                           - Cardinality(At("count", s)') + Cardinality(At("discount", s)')
  <2>1. total[s] = Cardinality(Subscribers(s))
                     - Cardinality(At("count", s)) + Cardinality(At("discount", s))
    BY DEF BookInv, TotalsRight
  <2>2. Subscribers(s)' = Subscribers(s)
    BY <1>1 DEF Subscribers
  <2>3. /\ At("count", s)' = At("count", s) \ {c}
        /\ At("discount", s)' = At("discount", s) \ {c}
    BY <1>1, <1>2 DEF At
  <2>4. Subscribers(s) \in SUBSET Conns /\ At("count", s) \in SUBSET Conns
        /\ At("discount", s) \in SUBSET Conns
    BY DEF At, Subscribers
  <2>5. /\ Cardinality(Subscribers(s)) \in Nat /\ Cardinality(At("count", s)) \in Nat
        /\ Cardinality(At("discount", s)) \in Nat
    BY <2>4, CountConns
  <2>6. s \in Symbols /\ total[s] \in Nat
    BY <1>0 DEF TypeOK
  <2>7. CASE s # r
    <3>1. c \notin At("count", s) /\ c \notin At("discount", s)
      BY <2>7 DEF At
    <3>2. At("count", s)' = At("count", s) /\ At("discount", s)' = At("discount", s)
      BY <2>3, <3>1
    <3>3. total'[s] = total[s]
      BY <1>0, <1>1, <2>6, <2>7 DEF TypeOK
    <3> QED BY <2>1, <2>2, <3>2, <3>3
  <2>8. CASE s = r /\ cpc[c] = "count"
    <3>1. c \in At("count", s) /\ c \notin At("discount", s)
      BY <2>8 DEF At
    <3>2. At("discount", s)' = At("discount", s)
      BY <2>3, <3>1
    <3>3. Cardinality(At("count", s)') = Cardinality(At("count", s)) - 1
      BY <2>3, <2>4, <3>1, CountConns
    <3>4. total'[s] = total[s] + 1
      BY <1>0, <1>1, <2>6, <2>8 DEF TypeOK
    <3> QED BY <2>1, <2>2, <2>5, <3>2, <3>3, <3>4
  <2>9. CASE s = r /\ cpc[c] = "discount"
    <3>1. c \in At("discount", s) /\ c \notin At("count", s)
      BY <2>9 DEF At
    <3>2. At("count", s)' = At("count", s)
      BY <2>3, <3>1
    <3>3. Cardinality(At("discount", s)') = Cardinality(At("discount", s)) - 1
      BY <2>3, <2>4, <3>1, CountConns
    <3>4. total[s] > 0
      <4>1. cpc[c] = "discount" /\ csym[c] = s
        BY <2>9
      <4> QED BY <4>1, TotalPositive
    <3>5. LessOne(total[s]) = total[s] - 1
      BY <2>6, <3>4 DEF LessOne
    <3>6. total'[s] = total[s] - 1
      BY <1>0, <1>1, <2>6, <2>9, <3>5 DEF TypeOK
    <3> QED BY <2>1, <2>2, <2>5, <3>2, <3>3, <3>6
  <2> QED BY <1>1, <2>7, <2>8, <2>9
<1> QED BY <1>1, <1>3, <1>4 DEF TotalsRight

LEMMA RemoveBooks ==
    ASSUME BookInv, NEW c \in Conns, RemoveSubs(c)
    PROVE  BookedFirst' /\ TotalsRight'
<1>0. TypeOK /\ Agree
  BY DEF BookInv, HubInv
<1>1. /\ cpc[c] = "removing" /\ cpc' = [cpc EXCEPT ![c] = "closing"] /\ csym' = csym
      /\ subs' = {p \in subs : p[1] # c \/ p \notin subbed}
      /\ total' = [s \in Symbols |->
                     IF s \in Subscribed(c) THEN LessOne(total[s]) ELSE total[s]]
      /\ repeated' = repeated
  BY DEF RemoveSubs
<1>2. /\ \A d \in Conns : d # c => cpc'[d] = cpc[d] /\ csym'[d] = csym[d]
      /\ cpc'[c] = "closing"
  BY <1>0, <1>1 DEF TypeOK
<1>3. /\ \A d \in Conns, s \in Symbols : d # c => (<<d, s>> \in subs' <=> <<d, s>> \in subs)
      /\ \A s \in Symbols : <<c, s>> \notin subs'
      /\ \A s \in Symbols : s \in Subscribed(c) <=> <<c, s>> \in subs
  <2>1. \A d \in Conns, s \in Symbols : <<d, s>>[1] = d
    OBVIOUS
  <2>2. \A s \in Symbols : <<c, s>> \in subs <=> <<c, s>> \in subbed
    BY <1>0, <1>1 DEF Agree
  <2> QED BY <1>1, <2>1, <2>2 DEF Subscribed
<1>4. BookedFirst'
  BY <1>0, <1>1, <1>2, <1>3 DEF BookInv, BookedFirst, TypeOK
<1>5. ASSUME NEW s \in Symbols \ repeated
      PROVE  total'[s] = Cardinality(Subscribers(s)')
                           - Cardinality(At("count", s)') + Cardinality(At("discount", s)')
  <2>1. total[s] = Cardinality(Subscribers(s))
                     - Cardinality(At("count", s)) + Cardinality(At("discount", s))
    BY DEF BookInv, TotalsRight
  <2>2. At("count", s)' = At("count", s) /\ At("discount", s)' = At("discount", s)
    BY <1>1, <1>2 DEF At
  <2>3. s \in Symbols /\ total[s] \in Nat
    BY <1>0 DEF TypeOK
  <2>4. Subscribers(s)' = Subscribers(s) \ {c}
    BY <1>3, <2>3 DEF Subscribers
  <2>5. CASE <<c, s>> \in subs
    <3>1. c \in Subscribers(s) /\ Subscribers(s) \in SUBSET Conns
      BY <2>5 DEF Subscribers
    <3>2. At("count", s) \in SUBSET Conns /\ At("discount", s) \in SUBSET Conns
      BY DEF At
    <3>3. /\ Cardinality(Subscribers(s)') = Cardinality(Subscribers(s)) - 1
          /\ Cardinality(Subscribers(s)) \in Nat /\ Cardinality(At("count", s)) \in Nat
          /\ Cardinality(At("discount", s)) \in Nat
      BY <2>4, <3>1, <3>2, CountConns
    <3>4. total[s] > 0
      BY <1>1, <2>5, TotalPositive
    <3>5. total'[s] = total[s] - 1
      BY <1>1, <1>3, <2>3, <2>5, <3>4 DEF LessOne
    <3> QED BY <2>1, <2>2, <3>3, <3>5
  <2>6. CASE <<c, s>> \notin subs
    <3>1. Subscribers(s)' = Subscribers(s)
      BY <2>4, <2>6 DEF Subscribers
    <3>2. total'[s] = total[s]
      BY <1>1, <1>3, <2>3, <2>6
    <3> QED BY <2>1, <2>2, <3>1, <3>2
  <2> QED BY <2>5, <2>6
<1> QED BY <1>1, <1>4, <1>5 DEF TotalsRight

LEMMA NextBook == BookInv /\ [Next]_vars => BookInv'
<1> SUFFICES ASSUME BookInv, [Next]_vars PROVE BookInv'
  OBVIOUS
<1>0. TypeOK /\ HubInv'
  BY NextHub DEF BookInv, HubInv
<1>1. CASE UNCHANGED <<cpc, csym, subs, total, repeated>>
  BY <1>0, <1>1, SameBooks DEF BookInv
<1>2. CASE UNCHANGED vars \/ BroadcastTrade \/ \E s \in Symbols : TakeTrade(s) \/ FanOut(s)
  BY <1>1, <1>2 DEF vars, BroadcastTrade, TakeTrade, FanOut, conn, booking
<1>3. ASSUME NEW w \in Writers, WriterStep(w) PROVE BookInv'
  BY <1>1, <1>3 DEF WriterStep, StartSending, EndSending, Deliver, Drop, conn, booking
<1>4. ASSUME NEW c \in Conns,
             Connect(c) \/ Leave(c) \/ LockTotal(c) \/ CloseSend(c)
      PROVE  BookInv'
  <2>1. UNCHANGED <<csym, subs, total, repeated>>
    BY <1>4 DEF Connect, Leave, LockTotal, CloseSend, booking
  <2>2. \A d \in Conns : cpc'[d] = cpc[d] \/ {cpc[d], cpc'[d]} \cap {"count", "discount"} = {}
    BY <1>0, <1>4 DEF Connect, Leave, LockTotal, CloseSend, TypeOK
  <2> QED BY <1>0, <2>1, <2>2, SameBooks DEF BookInv
<1>5. ASSUME NEW c \in Conns, WriteMessage(c) \/ WritePumpExit(c) PROVE BookInv'
  BY <1>1, <1>5 DEF WriteMessage, WritePumpExit, booking
<1>6. ASSUME NEW c \in Conns,
             \/ \E s \in Symbols : Subscribe(c, s) \/ Unsubscribe(c, s)
             \/ CountRequest(c) \/ RemoveSubs(c)
      PROVE  BookInv'
  BY <1>0, <1>6, SubscribeBooks, UnsubscribeBooks, CountBooks, RemoveBooks DEF BookInv
<1> QED BY <1>2, <1>3, <1>4, <1>5, <1>6 DEF Next, Removal

(* The total of a symbol counts its subscribers, but for the requests under way,
   through subscriptions, removals and both at once, for any number of
   connections, until one of them repeats a request for the symbol. *)
THEOREM TotalsAreRight == Spec => []TotalsRight
<1>1. Init => BookInv
  <2> SUFFICES ASSUME Init PROVE BookInv
    OBVIOUS
  <2>1. \A s \in Symbols : /\ Subscribers(s) = {} /\ At("count", s) = {}
                           /\ At("discount", s) = {} /\ total[s] = 0
    BY DEF Init, Subscribers, At
  <2>2. TotalsRight
    BY <2>1, FS_EmptySet DEF TotalsRight
  <2> QED BY <2>2, InitHub DEF Init, BookInv, BookedFirst
<1>2. BookInv => TotalsRight
  BY DEF BookInv
<1> QED BY <1>1, <1>2, NextBook, PTL DEF Spec
=============================================================================
