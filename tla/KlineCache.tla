------------------------------ MODULE KlineCache ------------------------------
(***************************************************************************)
(* The kline cache of internal/repository for one symbol and interval.  An *)
(* item of the cache is a Go slice: a window of a shared array that put    *)
(* changes in place, cell by cell, while gets and other puts hold it.  No  *)
(* lock is held beyond store.Get and store.Set.                            *)
(***************************************************************************)
EXTENDS Integers, Sequences, FiniteSets

CONSTANTS
    Putters,  \* the goroutines that save or query klines
    Getters,  \* the goroutines that read the cache
    Lists,    \* the start times of the klines of one put, in the order given
    Asks,     \* the ranges asked for: from, to and limit
    MaxItems, \* klines kept
    MaxPuts,  \* bound on the puts
    MayExpire,\* whether the entry may expire
    Nil       \* the nil pointer

Procs == Putters \cup Getters

(* The arrays: one each process may hold, the cached one and a new one. *)
Arrays == 1..(Cardinality(Procs) + 2)

ASSUME CacheAssumption ==
    /\ IsFiniteSet(Procs) /\ Putters \cap Getters = {}
    /\ Lists \subseteq Seq(Nat) \ {<<>>}
    /\ Asks \subseteq [from : Nat, to : Nat, limit : Nat]
    /\ MaxItems \in Nat \ {0} /\ MaxPuts \in Nat /\ MayExpire \in BOOLEAN
    /\ Nil \notin [st : Nat, ver : Nat]

VARIABLES
    heap,  \* per array, its cells
    entry, \* the cached slice, if there is one
    pc,    \* per process, the step it is at
    view,  \* per process, the slice it holds
    lo, hi,\* per process, the bounds of its search; for a put, the gap
    todo,  \* per putter, the klines still to be put
    ask,   \* per getter, the range it asked for
    out,   \* per getter, the klines it has copied
    puts,  \* the puts begun
    known, \* the klines the cached slice stands for (history)
    based, \* per putter, the klines its slice stands for (history)
    calm,  \* per getter, whether no cell was written since it began (history)
    overlap \* whether a put ever began while another one was under way (history)

vars == <<heap, entry, pc, view, lo, hi, todo, ask, out, puts, known, based, calm,
          overlap>>

(* A kline is its start time and the put it came with. *)
Kline == [st : Nat, ver : Nat]
Slice == [arr : Arrays, off : Nat, len : Nat]
Empty == [arr |-> 1, off |-> 0, len |-> 0]

Cell(s, i) == heap[s.arr][s.off + i + 1]
CellsOf(s) == SubSeq(heap[s.arr], s.off + 1, s.off + s.len)
Cap(s) == Len(heap[s.arr]) - s.off
NewArray ==
    CHOOSE a \in Arrays :
        /\ \A p \in Procs : pc[p] # "idle" => view[p].arr # a
        /\ \A s \in entry : s.arr # a

(* The klines a slice stands for once k is put: k replaces one of its start. *)
Upserted(ks, k) == {x \in ks : x.st # k.st} \cup {k}

(* Kept of variants: one kline too many stays; the newest are dropped. *)
KeptOneMore(s) ==
    IF s.len > MaxItems + 1 THEN [s EXCEPT !.off = @ + s.len - MaxItems, !.len = MaxItems]
    ELSE s

KeptOldest(s) == IF s.len > MaxItems THEN [s EXCEPT !.len = MaxItems] ELSE s

(* The newest MaxItems klines of a slice. *)
Kept(s) ==
    IF s.len > MaxItems THEN [s EXCEPT !.off = @ + s.len - MaxItems, !.len = MaxItems] ELSE s

-----------------------------------------------------------------------------
Init ==
    /\ heap = [a \in Arrays |-> <<>>]
    /\ entry = {}
    /\ pc = [p \in Procs |-> "idle"]
    /\ view = [p \in Procs |-> Empty]
    /\ lo = [p \in Procs |-> 0]
    /\ hi = [p \in Procs |-> 0]
    /\ todo = [p \in Putters |-> <<>>]
    /\ ask \in [Getters -> Asks]
    /\ out = [g \in Getters |-> <<>>]
    /\ puts = 0
    /\ known = {}
    /\ based = [p \in Putters |-> {}]
    /\ calm = [g \in Getters |-> TRUE]
    /\ overlap = FALSE

Goto(p, step) == pc' = [pc EXCEPT ![p] = step]

(* A search for a start time over the slice s begins. *)
SearchIn(p, s) ==
    /\ lo' = [lo EXCEPT ![p] = 0]
    /\ hi' = [hi EXCEPT ![p] = s.len]

(* The cells with k at place i of the slice s. *)
Written(s, i, k) == [heap EXCEPT ![s.arr][s.off + i + 1] = k]

(* Shifted of a variant that moves the pointer instead of copying it. *)
Moved(s, i) ==
    [heap EXCEPT ![s.arr][s.off + i + 1] = Cell(s, i - 1), ![s.arr][s.off + i] = Nil]

Shifted(s, i) == Written(s, i, Cell(s, i - 1))

(* Cells are written: no get in progress is calm any more. *)
Write(cells) ==
    /\ heap' = cells
    /\ calm' = [g \in Getters |-> FALSE]

(* Reaches of a variant: the search passes a kline of the very start time. *)
Passes(k, st) == k.st > st

(* The condition of the search. *)
Reaches(k, st) == k.st >= st

Target(p) == IF p \in Putters THEN Head(todo[p]).st ELSE ask[p].from

(* One probe of sort.Search.  A nil cell panics. *)
Probe(p) ==
    /\ pc[p] = "search"
    /\ lo[p] < hi[p]
    /\ LET h == (lo[p] + hi[p]) \div 2
           k == Cell(view[p], h)
       IN  \/ /\ k = Nil
              /\ Goto(p, "panic")
              /\ UNCHANGED <<lo, hi>>
           \/ /\ k # Nil /\ Reaches(k, Target(p))
              /\ hi' = [hi EXCEPT ![p] = h]
              /\ UNCHANGED <<lo, pc>>
           \/ /\ k # Nil /\ ~Reaches(k, Target(p))
              /\ lo' = [lo EXCEPT ![p] = h + 1]
              /\ UNCHANGED <<hi, pc>>
    /\ UNCHANGED <<heap, entry, view, todo, ask, out, puts, known, based, calm,
                   overlap>>

Found(p) == pc[p] = "search" /\ lo[p] = hi[p]

-----------------------------------------------------------------------------
(* put *)

(* The putters with a put under way. *)
Busy == {p \in Putters : pc[p] # "idle"}

(* store.Get, or a new slice of capacity maxItems. *)
BeginPut(p, list) ==
    /\ pc[p] = "idle"
    /\ puts < MaxPuts
    /\ puts' = puts + 1
    /\ overlap' = (overlap \/ Busy # {})
    /\ todo' = [todo EXCEPT ![p] = [i \in DOMAIN list |-> [st |-> list[i], ver |-> puts']]]
    /\ IF entry # {}
         THEN /\ view' = [view EXCEPT ![p] = CHOOSE s \in entry : TRUE]
              /\ based' = [based EXCEPT ![p] = known]
              /\ UNCHANGED heap
         ELSE /\ view' = [view EXCEPT ![p] = [Empty EXCEPT !.arr = NewArray]]
              /\ based' = [based EXCEPT ![p] = {}]
              /\ heap' = [heap EXCEPT ![NewArray] = [i \in 1..MaxItems |-> Nil]]
    /\ Goto(p, "search")
    /\ SearchIn(p, view'[p])
    /\ UNCHANGED <<entry, ask, out, known, calm>>

(* The next kline, or the end of put. *)
Advance(p) ==
    /\ todo' = [todo EXCEPT ![p] = Tail(@)]
    /\ based' = [based EXCEPT ![p] = Upserted(@, Head(todo[p]))]
    /\ Goto(p, IF Len(todo[p]) = 1 THEN "set" ELSE "search")
    /\ SearchIn(p, view[p])

(* A kline of this start time is replaced in place. *)
Overwrite(p) ==
    /\ p \in Putters /\ Found(p)
    /\ lo[p] < view[p].len
    /\ LET k == Cell(view[p], lo[p])
       IN  IF k = Nil
             THEN /\ Goto(p, "panic")
                  /\ UNCHANGED <<heap, calm, todo, based, lo, hi>>
             ELSE /\ k.st = Head(todo[p]).st
                  /\ Write(Written(view[p], lo[p], Head(todo[p])))
                  /\ Advance(p)
    /\ UNCHANGED <<entry, view, ask, out, puts, known, overlap>>

(* append(entries, nil), in the array when it has room, else in a copy of twice
   the capacity; then the gap at the end is to be moved to its place. *)
AppendNil(p) ==
    /\ p \in Putters /\ Found(p)
    /\ lo[p] < view[p].len =>
          Cell(view[p], lo[p]) # Nil /\ Cell(view[p], lo[p]).st # Head(todo[p]).st
    /\ IF view[p].len < Cap(view[p])
         THEN /\ Write(Written(view[p], view[p].len, Nil))
              /\ view' = [view EXCEPT ![p].len = @ + 1]
         ELSE /\ heap' = [heap EXCEPT ![NewArray] =
                    CellsOf(view[p]) \o [i \in 1..Cap(view[p]) |-> Nil]]
              /\ view' = [view EXCEPT ![p] = [arr |-> NewArray, off |-> 0, len |-> @.len + 1]]
              /\ UNCHANGED calm
    /\ hi' = [hi EXCEPT ![p] = view[p].len]
    /\ Goto(p, "insert")
    /\ UNCHANGED <<entry, lo, todo, ask, out, puts, known, based, overlap>>

(* copy(entries[idx+1:], entries[idx:]), one cell at a time from the end. *)
ShiftCell(p) ==
    /\ pc[p] = "insert"
    /\ lo[p] < hi[p]
    /\ Write(Shifted(view[p], hi[p]))
    /\ hi' = [hi EXCEPT ![p] = @ - 1]
    /\ UNCHANGED <<entry, pc, view, lo, todo, ask, out, puts, known, based,
                   overlap>>

(* entries[idx] = k *)
FillGap(p) ==
    /\ pc[p] = "insert"
    /\ lo[p] = hi[p]
    /\ Write(Written(view[p], lo[p], Head(todo[p])))
    /\ Advance(p)
    /\ UNCHANGED <<entry, view, ask, out, puts, known, overlap>>

(* The oldest klines beyond MaxItems are cut off and the slice is cached. *)
SetEntry(p) ==
    /\ pc[p] = "set"
    /\ entry' = {Kept(view[p])}
    /\ known' = based[p]
    /\ Goto(p, "idle")
    /\ UNCHANGED <<heap, view, lo, hi, todo, ask, out, puts, based, calm,
                   overlap>>

-----------------------------------------------------------------------------
(* get *)

(* store.Get; a missing entry is a miss. *)
BeginGet(g, a) ==
    /\ pc[g] = "idle"
    /\ entry # {}
    /\ ask' = [ask EXCEPT ![g] = a]
    /\ view' = [view EXCEPT ![g] = CHOOSE s \in entry : TRUE]
    /\ SearchIn(g, view'[g])
    /\ out' = [out EXCEPT ![g] = <<>>]
    /\ calm' = [calm EXCEPT ![g] = TRUE]
    /\ Goto(g, "search")
    /\ UNCHANGED <<heap, entry, todo, puts, known, based, overlap>>

(* Beyond of a variant that takes the kline that starts at the end along. *)
BeyondEnd(g, k) == k.st > ask[g].to

Beyond(g, k) == k.st >= ask[g].to

(* The scan has reached the end of the slice, or a kline beyond the range or the
   limit: the limit is asked for last, when the cell has been read. *)
ScanEnds(g) ==
    \/ hi[g] = view[g].len
    \/ /\ hi[g] < view[g].len
       /\ Cell(view[g], hi[g]) # Nil
       /\ \/ Beyond(g, Cell(view[g], hi[g]))
          \/ ask[g].limit > 0 /\ hi[g] - lo[g] = ask[g].limit

BeginScan(g) ==
    /\ g \in Getters /\ Found(g)
    /\ Goto(g, "scan")
    /\ UNCHANGED <<heap, entry, view, lo, hi, todo, ask, out, puts, known, based, calm,
                   overlap>>

(* endIdx moves on; a nil cell panics. *)
ScanCell(g) ==
    /\ pc[g] = "scan"
    /\ ~ScanEnds(g)
    /\ IF Cell(view[g], hi[g]) = Nil
         THEN Goto(g, "panic") /\ UNCHANGED hi
         ELSE hi' = [hi EXCEPT ![g] = @ + 1] /\ UNCHANGED pc
    /\ UNCHANGED <<heap, entry, view, lo, todo, ask, out, puts, known, based, calm,
                   overlap>>

EndScan(g) ==
    /\ pc[g] = "scan"
    /\ ScanEnds(g)
    /\ Goto(g, "copy")
    /\ UNCHANGED <<heap, entry, view, lo, hi, todo, ask, out, puts, known, based, calm,
                   overlap>>

(* copy(out, entries[startIdx:endIdx]), one cell at a time. *)
CopyCell(g) ==
    /\ pc[g] = "copy"
    /\ lo[g] + Len(out[g]) < hi[g]
    /\ out' = [out EXCEPT ![g] = Append(@, Cell(view[g], lo[g] + Len(@)))]
    /\ UNCHANGED <<heap, entry, pc, view, lo, hi, todo, ask, puts, known, based, calm,
                   overlap>>

EndGet(g) ==
    /\ pc[g] = "copy"
    /\ lo[g] + Len(out[g]) = hi[g]
    /\ Goto(g, "idle")
    /\ UNCHANGED <<heap, entry, view, lo, hi, todo, ask, out, puts, known, based, calm,
                   overlap>>

-----------------------------------------------------------------------------
(* The TTL of the entry passes. *)
Expire ==
    /\ MayExpire
    /\ entry # {}
    /\ entry' = {}
    /\ known' = {}
    /\ UNCHANGED <<heap, pc, view, lo, hi, todo, ask, out, puts, based, calm,
                   overlap>>

PutStep(p) ==
    \/ \E list \in Lists : BeginPut(p, list)
    \/ Overwrite(p) \/ AppendNil(p) \/ ShiftCell(p) \/ FillGap(p) \/ SetEntry(p)

GetStep(g) ==
    \/ \E a \in Asks : BeginGet(g, a)
    \/ BeginScan(g) \/ ScanCell(g) \/ EndScan(g) \/ CopyCell(g) \/ EndGet(g)

Next ==
    \/ \E p \in Procs : Probe(p)
    \/ \E p \in Putters : PutStep(p)
    \/ \E g \in Getters : GetStep(g)
    \/ Expire

Spec == Init /\ [][Next]_vars

-----------------------------------------------------------------------------
(* Properties *)

(* The type invariant. *)
TypeOK ==
    /\ heap \in [Arrays -> Seq(Kline \cup {Nil})]
    /\ entry \subseteq Slice /\ Cardinality(entry) <= 1
    /\ pc \in [Procs -> {"idle", "search", "insert", "set", "scan", "copy", "panic"}]
    /\ view \in [Procs -> Slice]
    /\ \A p \in Procs : pc[p] # "idle" => view[p].off + view[p].len <= Len(heap[view[p].arr])
    /\ \A s \in entry : s.len \in 1..MaxItems /\ s.off + s.len <= Len(heap[s.arr])
    /\ lo \in [Procs -> Nat] /\ hi \in [Procs -> Nat]
    /\ todo \in [Putters -> Seq(Kline)]
    /\ ask \in [Getters -> Asks]
    /\ out \in [Getters -> Seq(Kline \cup {Nil})]
    /\ puts \in 0..MaxPuts
    /\ overlap \in BOOLEAN

(* Nothing excludes two puts of one symbol and interval at a time, and then an
   item is anything: each may write into the gap of the other, and the last one
   to end replaces what the other has cached.  Until that happens: *)

(* No goroutine that reads a slice a put is changing comes upon the nil pointer
   of the gap, and none is copied to a reader. *)
ReadersSeeKlines ==
    ~overlap =>
        /\ \A p \in Procs : pc[p] # "panic"
        /\ \A g \in Getters : \A i \in DOMAIN out[g] : out[g][i] # Nil

(* A kline that starts at or after the end of the range asked for is never
   served, however its cell changes between the scan and the copy. *)
ServedBeforeTo ==
    ~overlap =>
        \A g \in Getters : \A i \in DOMAIN out[g] : out[g][i].st < ask[g].to

Newest(ks) == {k \in ks : Cardinality({x \in ks : x.st > k.st}) < MaxItems}

Sorted(cells) == \A i, j \in DOMAIN cells : i < j => cells[i].st < cells[j].st

(* Between puts the entry holds the newest MaxItems of all klines put since it
   was made, each once and in its last version, by start time. *)
QuietSorted ==
    ~overlap /\ Busy = {} =>
        \A s \in entry :
            LET cells == CellsOf(s)
            IN  {cells[i] : i \in DOMAIN cells} = Newest(known) /\ Sorted(cells)

(* A get during which no cell was written returns the first klines of its range
   that the slice holds, as many as the limit allows; a limit of 0 is none. *)
CalmGetExact ==
    \A g \in Getters :
        ~overlap /\ pc[g] = "copy" /\ lo[g] + Len(out[g]) = hi[g] /\ calm[g] =>
            LET cells == CellsOf(view[g])
                InRange(i) == ask[g].from <= cells[i].st /\ cells[i].st < ask[g].to
            IN  \E first \in 1..(Len(cells) + 1) :
                   LET next == first + Len(out[g])
                   IN  /\ next <= Len(cells) + 1
                       /\ out[g] = SubSeq(cells, first, next - 1)
                       /\ \A i \in first..(next - 1) : InRange(i)
                       /\ \A i \in 1..(first - 1) : ~InRange(i)
                       /\ \/ ask[g].limit > 0 /\ Len(out[g]) = ask[g].limit
                          \/ \A i \in next..Len(cells) : ~InRange(i)
                       /\ ask[g].limit > 0 => Len(out[g]) <= ask[g].limit
=============================================================================
