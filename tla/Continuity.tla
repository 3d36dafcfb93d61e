------------------------------ MODULE Continuity ------------------------------
(***************************************************************************)
(* The continuity checker of internal/kline on the instance that leads,    *)
(* for one symbol, a narrow interval (1m in the code) and a wide one: it   *)
(* asks the repository for the wide klines, takes the windows it does not  *)
(* get for missing, merges each from its narrow klines and saves it over   *)
(* whatever the table holds.  Beside it run the aggregator, its            *)
(* checkpoints, and the HTTP API, all of which share the kline cache.      *)
(*                                                                         *)
(* A kline is the set of its trades and is named by its interval and the   *)
(* number of its window.  A cached kline is live when the pointer is the   *)
(* aggregator's own, and otherwise as it was read or merged.  Trades come  *)
(* in order of time, so a window is never opened twice.                    *)
(***************************************************************************)
EXTENDS Integers, FiniteSets

CONSTANTS
    NumTrades,   \* bound on the trades
    TradeTime,   \* the narrow window of each trade
    Ratio,       \* narrow windows of a wide one
    CheckWindow, \* windows the checker looks back
    MaxItems,    \* klines of an interval in the cache
    Ranges,      \* the ranges the API is asked for
    MaxEvents,   \* bound on queries of the API, expiries and failures, together
    MaxChecks    \* bound on the checks

Trades == 1..NumTrades
Intervals == {"narrow", "wide"}

ASSUME ContinuityAssumption ==
    /\ NumTrades \in Nat \ {0}
    /\ TradeTime \in [Trades -> Nat]
    /\ \A t, u \in Trades : t <= u => TradeTime[t] <= TradeTime[u]
    /\ Ratio \in Nat \ {0} /\ CheckWindow \in Nat \ {0} /\ MaxItems \in Nat \ {0}
    /\ Ranges \subseteq [iv : Intervals, from : Nat, to : Nat, limit : Nat]
    /\ {MaxEvents, MaxChecks} \subseteq Nat

VARIABLES
    handled, \* the trades the aggregator has added to its buckets
    dirty,   \* whether the symbol is in the dirty set
    done,    \* the klines in the buffer of completed ones
    batch,   \* the entries the checkpoint has still to save
    warming, \* the entries it has committed and has still to cache
    rows,    \* per interval and window, the trades of the row; none for no row
    cache,   \* per interval, the cached klines
    now,     \* the wall clock, in narrow windows
    \* The checker.
    cpc,     \* the step it is at
    at,      \* the time of the check
    missing, \* the wide windows still to backfill
    fetched, \* the rows a query has read and not cached yet
    merged,  \* the trades of the merged kline
    due,     \* the windows of this check that had narrow rows (history)
    \* The API.
    asked,   \* the rows a query has read and not cached yet, per interval
    events, checks

aggregator == <<handled, dirty, done, batch, warming>>
checker    == <<cpc, at, missing, fetched, merged, due, checks>>
vars       == <<aggregator, rows, cache, now, checker, asked, events>>

-----------------------------------------------------------------------------
Width(iv) == IF iv = "wide" THEN Ratio ELSE 1
Horizon == TradeTime[NumTrades]
Windows(iv) == 0..(Horizon \div Width(iv))
WindowOf(t, iv) == TradeTime[t] \div Width(iv)

(* What the aggregator's kline of a window counts. *)
Content(iv, w) == {t \in handled : WindowOf(t, iv) = w}

Last == Cardinality(handled)
Open == IF handled = {} THEN {} ELSE {<<iv, WindowOf(Last, iv)>> : iv \in Intervals}

Cached == [w : Nat, live : BOOLEAN, trades : SUBSET Trades]
LiveKline(w) == [w |-> w, live |-> TRUE, trades |-> {}]
Snapshot(w, ts) == [w |-> w, live |-> FALSE, trades |-> ts]
TradesOf(iv, k) == IF k.live THEN Content(iv, k.w) ELSE k.trades

(* The first klines of a range, as many as the limit allows. *)
FirstOf(ks, from, to, limit) ==
    LET range == {k \in ks : from <= k.w /\ k.w < to}
    IN  {k \in range : Cardinality({x \in range : x.w < k.w}) < limit}

(* Put of a variant that keeps one kline too many. *)
PutOneMore(c, ks) ==
    LET all == {k \in c : \A x \in ks : x.w # k.w} \cup ks
    IN  {k \in all : Cardinality({x \in all : x.w > k.w}) <= MaxItems}

(* put: klines replace those of their windows, the newest MaxItems stay. *)
Put(c, ks) ==
    LET all == {k \in c : \A x \in ks : x.w # k.w} \cup ks
    IN  {k \in all : Cardinality({x \in all : x.w > k.w}) < MaxItems}

(* The rows of an interval. *)
Stored(iv) == {Snapshot(w, rows[iv][w]) : w \in {v \in Windows(iv) : rows[iv][v] # {}}}

(* The narrow windows of a wide one, as the range of a query, of a variant that
   takes the next one along; and as the code has it. *)
NarrowEndLate(w) == Ratio * (w + 1) + 1
NarrowEnd(w) == Ratio * (w + 1)

(* mergeOneMKlines *)
MergedOf(ks) == UNION {TradesOf("narrow", k) : k \in ks}

(* The last windows at a time, counted back from the present one. *)
Scanned(t) == {w \in Windows("wide") : t \div Ratio - CheckWindow < w /\ w <= t \div Ratio}

(* Those of them a query did not return. *)
Missing(t, existing) == Scanned(t) \ {k.w : k \in existing}

(* The latest window comes first. *)
Latest(ws) == CHOOSE w \in ws : \A x \in ws : x <= w

-----------------------------------------------------------------------------
Init ==
    /\ handled = {} /\ dirty = FALSE
    /\ done = {} /\ batch = {} /\ warming = {}
    /\ rows = [iv \in Intervals |-> [w \in Windows(iv) |-> {}]]
    /\ cache = [iv \in Intervals |-> {}]
    /\ now = 0
    /\ cpc = "idle" /\ at = 0 /\ missing = {} /\ fetched = {} /\ merged = {}
    /\ due = {} /\ checks = 0
    /\ asked = [iv \in Intervals |-> {}]
    /\ events = 0

(* Time passes; the aggregator keeps up with it. *)
Tick ==
    /\ now < Horizon
    /\ \A t \in Trades : TradeTime[t] <= now => t \in handled
    /\ now' = now + 1
    /\ UNCHANGED <<aggregator, rows, cache, checker, asked, events>>

(* ProcessTrade: the next trade, at its time, is added to its buckets
   and closes those of other windows; the symbol is dirty. *)
HandleTrade ==
    LET t == Last + 1
    IN  /\ t \in Trades
        /\ TradeTime[t] <= now
        /\ handled' = handled \cup {t}
        /\ done' = done \cup {k \in Open : WindowOf(t, k[1]) # k[2]}
    /\ dirty' = TRUE
    /\ UNCHANGED <<batch, warming, rows, cache, now, checker, asked, events>>

(* A checkpoint collects the completed klines and the open ones. *)
Collect ==
    /\ batch = {} /\ warming = {}
    /\ handled # {}
    /\ batch' = {done, Open} \ {{}}
    /\ done' = {}
    /\ UNCHANGED <<handled, dirty, warming, rows, cache, now, checker, asked, events>>

(* BatchSave commits the klines of an entry as they are then ... *)
SaveEntry(e) ==
    /\ e \in batch
    /\ batch' = batch \ {e}
    /\ rows' = [iv \in Intervals |-> [w \in Windows(iv) |->
                   IF <<iv, w>> \in e THEN Content(iv, w) ELSE rows[iv][w]]]
    /\ warming' = warming \cup {e}
    /\ UNCHANGED <<handled, dirty, done, cache, now, checker, asked, events>>

(* ... or fails, and they are not saved again unless they are open ... *)
FailEntry(e) ==
    /\ e \in batch
    /\ events < MaxEvents
    /\ events' = events + 1
    /\ batch' = batch \ {e}
    /\ UNCHANGED <<handled, dirty, done, warming, rows, cache, now, checker, asked>>

(* ... and caches the pointers it was given. *)
WarmEntry(e) ==
    /\ e \in warming
    /\ warming' = warming \ {e}
    /\ cache' = [iv \in Intervals |->
                    Put(cache[iv], {LiveKline(k[2]) : k \in {k \in e : k[1] = iv}})]
    /\ UNCHANGED <<handled, dirty, done, batch, rows, now, checker, asked, events>>

-----------------------------------------------------------------------------
(* The checker *)

(* runOnce drains the dirty set and asks for the oldest wide klines there are,
   twice as many as it looks back.  A hit decides which windows are missing, a
   miss reads the table. *)
BeginCheck ==
    /\ cpc = "idle"
    /\ dirty /\ checks < MaxChecks
    /\ checks' = checks + 1
    /\ dirty' = FALSE
    /\ at' = now
    /\ LET hit == FirstOf(cache["wide"], 0, now + 1, 2 * CheckWindow)
       IN  IF hit # {}
             THEN cpc' = "next" /\ missing' = Missing(now, hit) /\ UNCHANGED fetched
             ELSE /\ cpc' = "wide"
                  /\ fetched' = FirstOf(Stored("wide"), 0, now + 1, 2 * CheckWindow)
                  /\ UNCHANGED missing
    /\ due' = {w \in Scanned(now) :
                  \E n \in Windows("narrow") : n \div Ratio = w /\ rows["narrow"][n] # {}}
    /\ UNCHANGED <<handled, done, batch, warming, rows, cache, now, merged,
                   asked, events>>

(* The rows read are cached; the windows not among them are missing. *)
WarmWide ==
    /\ cpc = "wide"
    /\ cache' = [cache EXCEPT !["wide"] = Put(@, fetched)]
    /\ missing' = Missing(at, fetched)
    /\ fetched' = {}
    /\ cpc' = "next"
    /\ UNCHANGED <<aggregator, rows, now, at, merged, due, checks, asked, events>>

(* Left of a variant that ends the check at a window without narrow klines. *)
NoneLeft(ws) == {}

(* The windows left when one of them has no narrow klines. *)
Left(ws) == ws \ {Latest(ws)}

(* The narrow klines of the next missing window are asked for, and merged when
   the cache has any of them. *)
QueryNarrow ==
    /\ cpc = "next"
    /\ missing # {}
    /\ LET w == Latest(missing)
           hit == FirstOf(cache["narrow"], Ratio * w, NarrowEnd(w), 1000)
           found == FirstOf(Stored("narrow"), Ratio * w, NarrowEnd(w), 1000)
       IN  \/ /\ hit # {}
              /\ cpc' = "save" /\ merged' = MergedOf(hit)
              /\ UNCHANGED <<missing, fetched>>
           \/ /\ hit = {} /\ found # {}
              /\ cpc' = "narrow" /\ fetched' = found
              /\ UNCHANGED <<missing, merged>>
           \/ /\ hit = {} /\ found = {}
              /\ missing' = Left(missing)
              /\ UNCHANGED <<cpc, fetched, merged>>
    /\ UNCHANGED <<aggregator, rows, cache, now, at, due, checks, asked, events>>

(* The narrow rows read are cached, and merged. *)
WarmNarrow ==
    /\ cpc = "narrow"
    /\ cache' = [cache EXCEPT !["narrow"] = Put(@, fetched)]
    /\ merged' = MergedOf(fetched)
    /\ fetched' = {}
    /\ cpc' = "save"
    /\ UNCHANGED <<aggregator, rows, now, at, missing, due, checks, asked, events>>

(* BatchSave replaces the row of the window by the merged kline ... *)
SaveMerged ==
    /\ cpc = "save"
    /\ rows' = [rows EXCEPT !["wide"][Latest(missing)] = merged]
    /\ cpc' = "warm"
    /\ UNCHANGED <<aggregator, cache, now, at, missing, fetched, merged, due,
                   checks, asked, events>>

(* ... and caches it ... *)
WarmMerged ==
    /\ cpc = "warm"
    /\ cache' = [cache EXCEPT !["wide"] = Put(@, {Snapshot(Latest(missing), merged)})]
    /\ missing' = missing \ {Latest(missing)}
    /\ merged' = {}
    /\ cpc' = "next"
    /\ UNCHANGED <<aggregator, rows, now, at, fetched, due, checks, asked, events>>

(* A check returns, and its variables are gone. *)
Return ==
    /\ cpc' = "idle" /\ at' = 0 /\ missing' = {} /\ fetched' = {} /\ merged' = {}
    /\ due' = {}
    /\ UNCHANGED <<aggregator, rows, cache, now, checks, asked>>

(* ... or fails, as a query of it may, which ends the check of the interval. *)
FailCheck ==
    /\ cpc \in {"wide", "next", "narrow", "save"}
    /\ events < MaxEvents
    /\ events' = events + 1
    /\ Return

EndCheck ==
    /\ cpc = "next"
    /\ missing = {}
    /\ Return
    /\ UNCHANGED events

-----------------------------------------------------------------------------
(* The API, and the query of 1m klines of checkInterval, which logs only: a
   query the cache has nothing of reads the table ... *)
AskTable(r) ==
    /\ events < MaxEvents
    /\ asked[r.iv] = {}
    /\ FirstOf(cache[r.iv], r.from, r.to, r.limit) = {}
    /\ events' = events + 1
    /\ asked' = [asked EXCEPT ![r.iv] = FirstOf(Stored(r.iv), r.from, r.to, r.limit)]
    /\ UNCHANGED <<aggregator, rows, cache, now, checker>>

(* ... and caches what it read, however old that is by then. *)
WarmAsked(iv) ==
    /\ asked[iv] # {}
    /\ cache' = [cache EXCEPT ![iv] = Put(@, asked[iv])]
    /\ asked' = [asked EXCEPT ![iv] = {}]
    /\ UNCHANGED <<aggregator, rows, now, checker, events>>

(* The TTL of an interval's entry passes. *)
Expire(iv) ==
    /\ events < MaxEvents
    /\ cache[iv] # {}
    /\ events' = events + 1
    /\ cache' = [cache EXCEPT ![iv] = {}]
    /\ UNCHANGED <<aggregator, rows, now, checker, asked>>

-----------------------------------------------------------------------------
CheckerStep ==
    BeginCheck \/ WarmWide \/ QueryNarrow \/ WarmNarrow
    \/ SaveMerged \/ WarmMerged \/ FailCheck \/ EndCheck

Next ==
    \/ Tick \/ HandleTrade \/ Collect
    \/ \E e \in batch : SaveEntry(e) \/ FailEntry(e)
    \/ \E e \in warming : WarmEntry(e)
    \/ CheckerStep
    \/ \E r \in Ranges : AskTable(r)
    \/ \E iv \in Intervals : WarmAsked(iv) \/ Expire(iv)

Spec == Init /\ [][Next]_vars

-----------------------------------------------------------------------------
(* Properties *)

(* The type invariant. *)
TypeOK ==
    /\ handled \subseteq Trades /\ dirty \in BOOLEAN
    /\ \A k \in done \cup UNION (batch \cup warming) : Content(k[1], k[2]) # {}
    /\ \A iv \in Intervals :
          /\ rows[iv] \in [Windows(iv) -> SUBSET Trades]
          /\ Cardinality(cache[iv]) <= MaxItems
          /\ \A x, y \in cache[iv] : x.w = y.w => x = y
    /\ {cache, asked} \subseteq [Intervals -> SUBSET Cached]
    /\ now \in 0..Horizon /\ at \in 0..now
    /\ cpc \in {"idle", "wide", "next", "narrow", "save", "warm"}
    /\ cpc \in {"save", "warm"} => merged # {} /\ missing # {}
    /\ missing \subseteq Windows("wide")
    /\ fetched \subseteq Cached /\ merged \subseteq Trades
    /\ due \subseteq Windows("wide")

(* No backfill files a trade under another window: rows and cached klines count
   only trades of their own window that were handled, whether they come from
   the aggregator, from the table or from a merge. *)
OwnTradesOnly ==
    \A iv \in Intervals :
        /\ \A w \in Windows(iv) : rows[iv][w] \subseteq Content(iv, w)
        /\ \A k \in cache[iv] : TradesOf(iv, k) \subseteq Content(iv, k.w)

(* What the checker is there for: of the windows it looks back over, those that
   had narrow rows when it began and that it has passed have a row, though
   saves of the aggregator failed, klines were evicted and expired and other
   queries warmed the cache. *)
PassedWindowsHaveRows ==
    cpc = "next" =>
        \A w \in due \ missing : rows["wide"][w] # {}
=============================================================================
