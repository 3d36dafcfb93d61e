---------------------------------- MODULE Hub ----------------------------------
(***************************************************************************)
(* The WebSocket hub of internal/ws: per-symbol broadcast goroutines that  *)
(* fan a trade out to the writers, writers that hand it to the connections *)
(* subscribed to its symbol, and the read and write pump of every          *)
(* connection, with the hub's subscription totals.                         *)
(*                                                                         *)
(* The peers and gorilla/websocket are external: a peer sends requests and *)
(* may go away at any time, and a write to it may fail.  A connection      *)
(* belongs to one writer, so the maps of all writers are one set of        *)
(* <<connection, symbol>> pairs.                                           *)
(***************************************************************************)
EXTENDS Integers, Sequences, FiniteSets

CONSTANTS
    Conns,       \* the connections
    NumWriters,  \* the number of writers (16 in the code)
    WriterOf,    \* the writer assignWriter gives each connection
    Symbols,     \* the symbols
    NumTrades,   \* bound on the trades, numbered in the order of broadcast
    TradeSym,    \* the symbol of each trade
    ChanBuf,     \* capacity of a broadcast channel (1024 in the code)
    WriterBuf,   \* capacity of a writer's channel (256 in the code)
    SendBuf,     \* capacity of a connection's send channel (256 in the code)
    MaxRequests, \* bound on the requests of each connection
    Free         \* the state of a lock nobody holds

Writers == 1..NumWriters
Trades == 1..NumTrades

ASSUME WriterAssumption ==
    NumWriters \in Nat \ {0} /\ IsFiniteSet(Conns) /\ WriterOf \in [Conns -> Writers]
ASSUME TradeAssumption ==
    Symbols # {} /\ NumTrades \in Nat /\ TradeSym \in [Trades -> Symbols]
ASSUME BufferAssumption == {ChanBuf, WriterBuf, SendBuf} \subseteq Nat
ASSUME RequestAssumption == MaxRequests \in [Conns -> Nat]
ASSUME LockAssumption == Free \notin Conns

VARIABLES
    \* The broadcast goroutines.
    next,     \* the trade BroadcastTrade is called with next
    chans,    \* per symbol, its broadcast channel
    fanning,  \* per symbol, the trade being fanned out (0: none)
    atWriter, \* per symbol, the writer the trade goes to next
    \* The writers.
    queue,    \* per writer, its channel
    sending,  \* per writer, the trade its loop is sending under w.mu (0: none)
    todo,     \* per writer, the connections still to be sent the trade
    \* The connections.
    cpc,      \* per connection, the step its read pump is at
    csym,     \* per connection, the symbol of its latest request
    requests, \* per connection, the number of its requests
    send,     \* per connection, its send channel
    closed,   \* the connections whose send channel is closed
    pumping,  \* the connections whose write pump has not returned
    \* The subscriptions.
    subs,     \* the subscriptions the writers know
    subbed,   \* the subscriptions the connections know of themselves
    total,    \* Hub.subTotal, 0 for a missing entry
    totalMu,  \* the connection that holds subTotalMu
    \* History.
    repeated  \* the symbols for which some peer has subscribed once more without
              \* unsubscribing, or unsubscribed without a subscription

broadcast == <<next, chans, fanning, atWriter>>
writing   == <<queue, sending, todo>>
conn      == <<cpc, csym, requests, send, closed, pumping>>
booking   == <<subs, subbed, total, totalMu, repeated>>
vars      == <<broadcast, writing, conn, booking>>

Steps == {"new", "reading", "count", "discount", "leaving", "removing", "closing", "gone"}

Subscribers(s) == {c \in Conns : <<c, s>> \in subs}
Subscribed(c)  == {s \in Symbols : <<c, s>> \in subbed}

(* A writer holds w.mu for reading while it sends. *)
Unlocked(w) == sending[w] = 0

Init ==
    /\ next = 1
    /\ chans = [s \in Symbols |-> <<>>]
    /\ fanning = [s \in Symbols |-> 0]
    /\ atWriter = [s \in Symbols |-> 1]
    /\ queue = [w \in Writers |-> <<>>]
    /\ sending = [w \in Writers |-> 0]
    /\ todo = [w \in Writers |-> {}]
    /\ cpc = [c \in Conns |-> "new"]
    /\ csym = [c \in Conns |-> CHOOSE s \in Symbols : TRUE]
    /\ requests = [c \in Conns |-> 0]
    /\ send = [c \in Conns |-> <<>>]
    /\ closed = {}
    /\ pumping = {}
    /\ subs = {}
    /\ subbed = {}
    /\ total = [s \in Symbols |-> 0]
    /\ totalMu = Free
    /\ repeated = {}

-----------------------------------------------------------------------------
(* Broadcast *)

(* BroadcastTrade: into the channel of the symbol, or dropped when it is full. *)
BroadcastTrade ==
    /\ next \in Trades
    /\ LET s == TradeSym[next]
       IN  chans' = IF Len(chans[s]) < ChanBuf
                      THEN [chans EXCEPT ![s] = Append(@, next)] ELSE chans
    /\ next' = next + 1
    /\ UNCHANGED <<fanning, atWriter, writing, conn, booking>>

(* broadcastLoop receives and marshals a trade. *)
TakeTrade(s) ==
    /\ fanning[s] = 0
    /\ chans[s] # <<>>
    /\ fanning' = [fanning EXCEPT ![s] = Head(chans[s])]
    /\ atWriter' = [atWriter EXCEPT ![s] = 1]
    /\ chans' = [chans EXCEPT ![s] = Tail(@)]
    /\ UNCHANGED <<next, writing, conn, booking>>

(* MoreWriters of a variant with an off-by-one in the range over h.writers. *)
OneWriterMore(w) == w <= NumWriters

(* There is a writer after w in h.writers. *)
MoreWriters(w) == w < NumWriters

(* The next writer gets the trade, or not when its channel is full. *)
FanOut(s) ==
    /\ fanning[s] # 0
    /\ LET w == atWriter[s]
       IN  /\ queue' = IF Len(queue[w]) < WriterBuf
                         THEN [queue EXCEPT ![w] = Append(@, fanning[s])] ELSE queue
           /\ IF MoreWriters(w)
                THEN /\ atWriter' = [atWriter EXCEPT ![s] = w + 1]
                     /\ UNCHANGED fanning
                ELSE /\ fanning' = [fanning EXCEPT ![s] = 0]
                     /\ UNCHANGED atWriter
    /\ UNCHANGED <<next, chans, sending, todo, conn, booking>>

-----------------------------------------------------------------------------
(* The writers *)

(* writer.loop receives a trade and locks w.mu for reading. *)
StartSending(w) ==
    /\ Unlocked(w)
    /\ queue[w] # <<>>
    /\ sending' = [sending EXCEPT ![w] = Head(queue[w])]
    /\ todo' = [todo EXCEPT ![w] =
          {c \in Subscribers(TradeSym[Head(queue[w])]) : WriterOf[c] = w}]
    /\ queue' = [queue EXCEPT ![w] = Tail(@)]
    /\ UNCHANGED <<broadcast, conn, booking>>

Deliver(w, c) ==
    /\ c \in todo[w]
    /\ Len(send[c]) < SendBuf
    /\ send' = [send EXCEPT ![c] = Append(@, sending[w])]
    /\ todo' = [todo EXCEPT ![w] = @ \ {c}]
    /\ UNCHANGED <<broadcast, queue, sending, cpc, csym, requests, closed, pumping,
                   booking>>

(* Drop of a variant whose select has no default branch. *)
NeverDrop(w, c) == c \notin Conns /\ UNCHANGED vars

(* The default branch: a connection that is not keeping up misses the trade. *)
Drop(w, c) ==
    /\ c \in todo[w]
    /\ Len(send[c]) >= SendBuf
    /\ todo' = [todo EXCEPT ![w] = @ \ {c}]
    /\ UNCHANGED <<broadcast, queue, sending, conn, booking>>

EndSending(w) ==
    /\ sending[w] # 0
    /\ todo[w] = {}
    /\ sending' = [sending EXCEPT ![w] = 0]
    /\ UNCHANGED <<broadcast, queue, todo, conn, booking>>

-----------------------------------------------------------------------------
(* The connections *)

(* HandleWS. *)
Connect(c) ==
    /\ cpc[c] = "new"
    /\ cpc' = [cpc EXCEPT ![c] = "reading"]
    /\ pumping' = pumping \cup {c}
    /\ UNCHANGED <<broadcast, writing, csym, requests, send, closed, booking>>

(* writePump writes a message to the peer. *)
WriteMessage(c) ==
    /\ c \in pumping
    /\ send[c] # <<>>
    /\ send' = [send EXCEPT ![c] = Tail(@)]
    /\ UNCHANGED <<broadcast, writing, cpc, csym, requests, closed, pumping, booking>>

(* writePump returns: a write failed, or the drained channel is closed. *)
WritePumpExit(c) ==
    /\ c \in pumping
    /\ pumping' = pumping \ {c}
    /\ UNCHANGED <<broadcast, writing, cpc, csym, requests, send, closed, booking>>

(* readPump reads a request for symbol s. *)
Request(c, s) ==
    /\ cpc[c] = "reading"
    /\ requests[c] < MaxRequests[c]
    /\ requests' = [requests EXCEPT ![c] = @ + 1]
    /\ csym' = [csym EXCEPT ![c] = s]

(* Recorded of a variant that does not note the symbol in c.subbed. *)
Unrecorded(c, s) == subbed

(* c.subbed with one more symbol. *)
Recorded(c, s) == subbed \cup {<<c, s>>}

(* subscribe, under w.mu, and c.subbed, which only the read pump uses. *)
Subscribe(c, s) ==
    /\ Request(c, s)
    /\ Unlocked(WriterOf[c])
    /\ subs' = subs \cup {<<c, s>>}
    /\ subbed' = Recorded(c, s)
    /\ repeated' = repeated \cup ({s} \cap Subscribed(c))
    /\ cpc' = [cpc EXCEPT ![c] = "count"]
    /\ UNCHANGED <<broadcast, writing, send, closed, pumping, total, totalMu>>

(* unsubscribe, under w.mu. *)
Unsubscribe(c, s) ==
    /\ Request(c, s)
    /\ Unlocked(WriterOf[c])
    /\ subs' = subs \ {<<c, s>>}
    /\ subbed' = subbed \ {<<c, s>>}
    /\ repeated' = repeated \cup ({s} \ Subscribed(c))
    /\ cpc' = [cpc EXCEPT ![c] = "discount"]
    /\ UNCHANGED <<broadcast, writing, send, closed, pumping, total, totalMu>>

(* One of n of a variant with an off-by-one in the condition. *)
LessOneTooEarly(n) == IF n <= 2 THEN 0 ELSE n - 1

(* One of n: the entry is deleted at 0. *)
LessOne(n) == IF n <= 1 THEN 0 ELSE n - 1

(* The rest of subscribe and of unsubscribe, under subTotalMu. *)
CountRequest(c) ==
    /\ cpc[c] \in {"count", "discount"}
    /\ totalMu = Free
    /\ total' = [total EXCEPT ![csym[c]] = IF cpc[c] = "count" THEN @ + 1 ELSE LessOne(@)]
    /\ cpc' = [cpc EXCEPT ![c] = "reading"]
    /\ UNCHANGED <<broadcast, writing, csym, requests, send, closed, pumping, subs,
                   subbed, totalMu, repeated>>

(* readPump breaks out of its loop: the peer is gone, or the write pump has
   closed the connection. *)
Leave(c) ==
    /\ cpc[c] = "reading"
    /\ cpc' = [cpc EXCEPT ![c] = "leaving"]
    /\ UNCHANGED <<broadcast, writing, csym, requests, send, closed, pumping, booking>>

(* removeConn locks subTotalMu, *)
LockTotal(c) ==
    /\ cpc[c] = "leaving"
    /\ totalMu = Free
    /\ totalMu' = c
    /\ cpc' = [cpc EXCEPT ![c] = "removing"]
    /\ UNCHANGED <<broadcast, writing, csym, requests, send, closed, pumping, subs,
                   subbed, total, repeated>>

(* then w.mu, removes the subscriptions it knows of and unlocks both, *)
RemoveSubs(c) ==
    /\ cpc[c] = "removing"
    /\ Unlocked(WriterOf[c])
    /\ subs' = {p \in subs : p[1] # c \/ p \notin subbed}
    /\ total' = [s \in Symbols |-> IF s \in Subscribed(c) THEN LessOne(total[s]) ELSE total[s]]
    /\ totalMu' = Free
    /\ cpc' = [cpc EXCEPT ![c] = "closing"]
    /\ UNCHANGED <<broadcast, writing, csym, requests, send, closed, pumping, subbed,
                   repeated>>

(* and closes the send channel. *)
CloseSend(c) ==
    /\ cpc[c] = "closing"
    /\ closed' = closed \cup {c}
    /\ cpc' = [cpc EXCEPT ![c] = "gone"]
    /\ UNCHANGED <<broadcast, writing, csym, requests, send, pumping, booking>>

-----------------------------------------------------------------------------
WriterStep(w) ==
    \/ StartSending(w) \/ EndSending(w)
    \/ \E c \in Conns : Deliver(w, c) \/ Drop(w, c)

Removal(c) == CountRequest(c) \/ LockTotal(c) \/ RemoveSubs(c) \/ CloseSend(c)

Next ==
    \/ BroadcastTrade
    \/ \E s \in Symbols : TakeTrade(s) \/ FanOut(s)
    \/ \E w \in Writers : WriterStep(w)
    \/ \E c \in Conns :
          \/ Connect(c) \/ WriteMessage(c) \/ WritePumpExit(c)
          \/ \E s \in Symbols : Subscribe(c, s) \/ Unsubscribe(c, s)
          \/ Leave(c) \/ Removal(c)

Spec == Init /\ [][Next]_vars

(* The goroutines of the hub are scheduled, and their locks are granted in the
   end.  Nothing is assumed of the peers, not even that a write to one ends. *)
Fairness ==
    /\ \A s \in Symbols : WF_vars(TakeTrade(s)) /\ WF_vars(FanOut(s))
    /\ \A w \in Writers : WF_vars(WriterStep(w))
    /\ \A c \in Conns : SF_vars(Removal(c))

FairSpec == Spec /\ Fairness

-----------------------------------------------------------------------------
(* Properties *)

(* The type invariant. *)
TypeOK ==
    /\ next \in Nat
    /\ chans \in [Symbols -> Seq(Trades)]
    /\ fanning \in [Symbols -> {0} \cup Trades]
    /\ atWriter \in [Symbols -> Writers]
    /\ queue \in [Writers -> Seq(Trades)]
    /\ sending \in [Writers -> {0} \cup Trades]
    /\ todo \in [Writers -> SUBSET Conns]
    /\ cpc \in [Conns -> Steps]
    /\ csym \in [Conns -> Symbols]
    /\ requests \in [Conns -> Nat]
    /\ send \in [Conns -> Seq(Trades)]
    /\ closed \subseteq Conns
    /\ pumping \subseteq Conns
    /\ subs \subseteq Conns \X Symbols
    /\ subbed \subseteq Conns \X Symbols
    /\ total \in [Symbols -> Nat]
    /\ totalMu \in Conns \cup {Free}
    /\ repeated \subseteq Symbols

(* No writer ever sends on the closed channel of a connection that is gone,
   which would panic and end the process: removal and fan-out race, and the
   bookkeeping of the read pump is what keeps them apart. *)
NoSendOnClosed == \A w \in Writers : todo[w] \cap closed = {}

(* The total of a symbol is the number of its subscribers, but for the requests
   that are booked with the writer and not yet counted.  The writers keep sets
   and the hub counts requests, so that it holds for a symbol until some peer
   repeats a request for it. *)
At(step, s) == {c \in Conns : cpc[c] = step /\ csym[c] = s}

TotalsRight ==
    \A s \in Symbols \ repeated :
        total[s] = Cardinality(Subscribers(s))
                     - Cardinality(At("count", s)) + Cardinality(At("discount", s))

(* A connection that leaves is removed in the end, whatever the other
   connections do and even when no peer reads what it is sent. *)
LeavingEnds == \A c \in Conns : cpc[c] = "leaving" ~> cpc[c] = "gone"
=============================================================================
