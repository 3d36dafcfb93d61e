--------------------------- MODULE KlineCacheProofs ---------------------------
(***************************************************************************)
(* Proofs about the kline cache, for any number of goroutines, lists of    *)
(* klines and sizes of an item: type correctness, no access beyond an      *)
(* array; and, until two puts run at a time: no goroutine meets the nil    *)
(* pointer of a gap, nothing that starts after its range is served,        *)
(* between puts the entry holds the newest klines in order, and a get that *)
(* no write disturbs returns what its range and limit ask for.             *)
(***************************************************************************)
EXTENDS KlineCache, FiniteSetTheorems, FunctionTheorems, SequenceTheorems, TLAPS

Steps == {"idle", "search", "insert", "set", "scan", "copy", "panic"}

-----------------------------------------------------------------------------
(* Cells and slices *)

LEMMA SliceType ==
    /\ \A s \in Slice : s.arr \in Arrays /\ s.off \in Nat /\ s.len \in Nat
    /\ \A a \in Arrays, o \in Nat, l \in Nat :
          /\ [arr |-> a, off |-> o, len |-> l] \in Slice
          /\ [arr |-> a, off |-> o, len |-> l].arr = a
          /\ [arr |-> a, off |-> o, len |-> l].off = o
          /\ [arr |-> a, off |-> o, len |-> l].len = l
  BY DEF Slice

(* What changing a cell of an array does. *)
LEMMA CellChanged ==
    ASSUME NEW h \in [Arrays -> Seq(Kline \cup {Nil})], NEW a \in Arrays,
           NEW i \in 1..Len(h[a]), NEW k \in Kline \cup {Nil}
    PROVE  /\ [h EXCEPT ![a][i] = k] \in [Arrays -> Seq(Kline \cup {Nil})]
           /\ \A b \in Arrays :
                 /\ Len([h EXCEPT ![a][i] = k][b]) = Len(h[b])
                 /\ \A j \in 1..Len(h[b]) :
                       [h EXCEPT ![a][i] = k][b][j] = IF b = a /\ j = i THEN k ELSE h[b][j]
<1> DEFINE n == [h[a] EXCEPT ![i] = k]
<1>1. h[a] \in Seq(Kline \cup {Nil})
  OBVIOUS
<1>2. /\ n \in Seq(Kline \cup {Nil}) /\ Len(n) = Len(h[a])
      /\ \A j \in 1..Len(h[a]) : n[j] = IF j = i THEN k ELSE h[a][j]
  BY <1>1, ExceptSeq
<1> HIDE DEF n
<1>3. [h EXCEPT ![a][i] = k] = [h EXCEPT ![a] = n]
  BY DEF n
<1> QED BY <1>2, <1>3

(* A new array. *)
LEMMA ArrayMade ==
    ASSUME NEW h \in [Arrays -> Seq(Kline \cup {Nil})], NEW a \in Arrays,
           NEW c \in Seq(Kline \cup {Nil})
    PROVE  /\ [h EXCEPT ![a] = c] \in [Arrays -> Seq(Kline \cup {Nil})]
           /\ [h EXCEPT ![a] = c][a] = c
           /\ \A b \in Arrays : b # a => [h EXCEPT ![a] = c][b] = h[b]
  OBVIOUS

LEMMA NilCells ==
    ASSUME NEW n \in Nat
    PROVE  /\ [i \in 1..n |-> Nil] \in Seq(Kline \cup {Nil})
           /\ Len([i \in 1..n |-> Nil]) = n
  OBVIOUS

LEMMA CellsProperties ==
    ASSUME heap \in [Arrays -> Seq(Kline \cup {Nil})], NEW s \in Slice,
           s.off + s.len <= Len(heap[s.arr])
    PROVE  /\ CellsOf(s) \in Seq(Kline \cup {Nil}) /\ Len(CellsOf(s)) = s.len
           /\ \A i \in 0..(s.len - 1) : /\ CellsOf(s)[i + 1] = Cell(s, i)
                                        /\ Cell(s, i) \in Kline \cup {Nil}
                                        /\ s.off + i + 1 \in 1..Len(heap[s.arr])
<1>1. /\ s.arr \in Arrays /\ s.off \in Nat /\ s.len \in Nat
      /\ heap[s.arr] \in Seq(Kline \cup {Nil}) /\ Len(heap[s.arr]) \in Nat
  BY SliceType
<1> DEFINE c == heap[s.arr]
           m == s.off + 1
           n == s.off + s.len
<1>2. m \in Int /\ n \in Int /\ \A i \in m..n : c[i] \in Kline \cup {Nil}
  BY <1>1, ElementOfSeq
<1>3. /\ SubSeq(c, m, n) \in Seq(Kline \cup {Nil})
      /\ Len(SubSeq(c, m, n)) = IF m <= n THEN n - m + 1 ELSE 0
      /\ \A i \in 1..(n - m + 1) : SubSeq(c, m, n)[i] = c[m + i - 1]
  <2> HIDE DEF c, m, n
  <2> QED BY <1>2, SubSeqProperties
<1>4. Len(SubSeq(c, m, n)) = s.len
  BY <1>1, <1>3
<1>5. ASSUME NEW i \in 0..(s.len - 1)
      PROVE  /\ SubSeq(c, m, n)[i + 1] = c[s.off + i + 1]
             /\ c[s.off + i + 1] \in Kline \cup {Nil}
             /\ s.off + i + 1 \in 1..Len(c)
  <2>1. i + 1 \in 1..(n - m + 1) /\ m + (i + 1) - 1 = s.off + i + 1 /\ s.off + i + 1 \in m..n
    <3>1. \A o, l \in Nat : \A j \in 0..(l - 1) :
             /\ j + 1 \in 1..((o + l) - (o + 1) + 1) /\ (o + 1) + (j + 1) - 1 = o + j + 1
             /\ o + j + 1 \in (o + 1)..(o + l)
      OBVIOUS
    <3> QED BY <1>1, <3>1
  <2>2. s.off + i + 1 \in 1..Len(c)
    <3>1. i \in Nat /\ i < s.len
      BY <1>1
    <3>2. \A o, l, j, q \in Nat : j < l /\ o + l <= q => o + j + 1 \in 1..q
      OBVIOUS
    <3>3. s.off + s.len <= Len(c) /\ Len(c) \in Nat
      BY <1>1
    <3> HIDE DEF c
    <3> QED BY <1>1, <3>1, <3>2, <3>3
  <2> HIDE DEF c, m, n
  <2> QED BY <1>2, <1>3, <2>1, <2>2, SMTT(20)
<1> QED BY <1>3, <1>4, <1>5 DEF CellsOf, Cell

-----------------------------------------------------------------------------
(* The arrays in use *)

(* The shape of the state of a process. *)
ShapeOf(p) ==
    /\ pc[p] # "idle" => /\ view[p].off + view[p].len <= Len(heap[view[p].arr])
                         /\ view[p].off < Len(heap[view[p].arr])
    /\ pc[p] = "search" => lo[p] <= hi[p] /\ hi[p] <= view[p].len
    /\ pc[p] = "insert" => p \in Putters /\ lo[p] <= hi[p] /\ view[p].len >= hi[p] + 1
    /\ pc[p] = "set" => p \in Putters /\ view[p].len > 0
    /\ pc[p] \in {"scan", "copy"} => p \in Getters /\ lo[p] <= hi[p] /\ hi[p] <= view[p].len
    /\ pc[p] = "copy" => lo[p] + Len(out[p]) <= hi[p]
    /\ p \in Getters /\ pc[p] \in {"search", "scan"} => out[p] = <<>>
    /\ p \in Putters /\ pc[p] \in {"search", "insert"} => todo[p] # <<>>

Shape ==
    /\ heap \in [Arrays -> Seq(Kline \cup {Nil})]
    /\ entry \subseteq Slice /\ \A s, r \in entry : s = r
    /\ \A s \in entry : s.len \in 1..MaxItems /\ s.off + s.len <= Len(heap[s.arr])
    /\ pc \in [Procs -> Steps] /\ view \in [Procs -> Slice]
    /\ lo \in [Procs -> Nat] /\ hi \in [Procs -> Nat]
    /\ todo \in [Putters -> Seq(Kline)]
    /\ ask \in [Getters -> Asks]
    /\ out \in [Getters -> Seq(Kline \cup {Nil})]
    /\ puts \in 0..MaxPuts
    /\ \A p \in Procs : ShapeOf(p)

LEMMA OneEntry == ASSUME Shape PROVE Cardinality(entry) <= 1
<1>1. CASE entry = {}
  BY <1>1, FS_EmptySet
<1>2. CASE entry # {}
  <2>1. PICK s \in entry : TRUE
    BY <1>2
  <2>2. entry = {s}
    BY <2>1 DEF Shape
  <2> QED BY <2>2, FS_Singleton
<1> QED BY <1>1, <1>2

LEMMA ShapeType == Shape /\ overlap \in BOOLEAN => TypeOK
<1> SUFFICES ASSUME Shape, overlap \in BOOLEAN PROVE TypeOK
  OBVIOUS
<1>1. Cardinality(entry) <= 1
  BY OneEntry
<1>2. \A p \in Procs : pc[p] # "idle" => view[p].off + view[p].len <= Len(heap[view[p].arr])
  BY DEF Shape, ShapeOf
<1> QED BY <1>1, <1>2 DEF Shape, Steps, TypeOK

(* There is an array for a new slice, which no goroutine at work and no entry uses. *)
LEMMA NewArrayUnused ==
    ASSUME Shape
    PROVE  /\ NewArray \in Arrays
           /\ \A p \in Procs : pc[p] # "idle" => view[p].arr # NewArray
           /\ \A s \in entry : s.arr # NewArray
<1> DEFINE V == {view[p].arr : p \in Procs}
           E == {s.arr : s \in entry}
           f == [p \in Procs |-> view[p].arr]
<1>1. IsFiniteSet(Procs) /\ Cardinality(Procs) \in Nat
  BY CacheAssumption, FS_CardinalityType
<1>2. IsFiniteSet(V) /\ Cardinality(V) <= Cardinality(Procs)
  <2>1. f \in Surjection(Procs, V)
    BY DEF Surjection
  <2> HIDE DEF f, V
  <2> QED BY <1>1, <2>1, FS_Surjection
<1>3. IsFiniteSet(E) /\ Cardinality(E) <= 1
  <2>1. CASE entry = {}
    BY <2>1, FS_EmptySet
  <2>2. CASE entry # {}
    <3>1. PICK s \in entry : TRUE
      BY <2>2
    <3>2. E = {s.arr}
      BY <3>1 DEF Shape
    <3>3. IsFiniteSet({s.arr}) /\ Cardinality({s.arr}) = 1
      BY FS_Singleton
    <3> HIDE DEF E
    <3> QED BY <3>2, <3>3
  <2> QED BY <2>1, <2>2
<1>4. IsFiniteSet(Arrays) /\ Cardinality(Arrays) = Cardinality(Procs) + 2
  BY <1>1, FS_Interval, SMTT(20) DEF Arrays
<1>5. \E a \in Arrays : a \notin V \cup E
  <2> HIDE DEF V, E
  <2>1. /\ IsFiniteSet(V \cup E)
        /\ Cardinality(V \cup E) = Cardinality(V) + Cardinality(E) - Cardinality(V \cap E)
    BY <1>2, <1>3, FS_Union
  <2>2. Cardinality(V) \in Nat /\ Cardinality(E) \in Nat
    BY <1>2, <1>3, FS_CardinalityType
  <2>5. Cardinality(V \cap E) \in Nat
    <3>1. IsFiniteSet(V \cap E)
      BY <1>2, FS_Intersection
    <3> QED BY <3>1, FS_CardinalityType
  <2>3. Cardinality(V \cup E) <= Cardinality(Procs) + 1 /\ Cardinality(V \cup E) \in Nat
    <3>1. Cardinality(V \cup E) \in Nat
      BY <2>1, FS_CardinalityType
    <3>2. Cardinality(V \cup E) <= Cardinality(V) + Cardinality(E)
      BY <2>5, <2>1, <2>2, <3>1
    <3> QED BY <1>1, <1>2, <1>3, <2>2, <3>1, <3>2
  <2>4. ASSUME Arrays \subseteq V \cup E PROVE FALSE
    <3>1. Cardinality(Arrays) <= Cardinality(V \cup E)
      BY <2>1, <2>4, FS_Subset
    <3> QED BY <1>1, <1>4, <2>3, <3>1
  <2> QED BY <2>4
<1>6. PICK a \in Arrays : a \notin V \cup E
  BY <1>5
<1>7. /\ \A p \in Procs : pc[p] # "idle" => view[p].arr # a
      /\ \A s \in entry : s.arr # a
  BY <1>6
<1> QED BY <1>7 DEF NewArray

-----------------------------------------------------------------------------
(* The shape is kept *)

Typed ==
    /\ heap \in [Arrays -> Seq(Kline \cup {Nil})]
    /\ pc \in [Procs -> Steps] /\ view \in [Procs -> Slice]
    /\ lo \in [Procs -> Nat] /\ hi \in [Procs -> Nat]
    /\ todo \in [Putters -> Seq(Kline)]
    /\ ask \in [Getters -> Asks]
    /\ out \in [Getters -> Seq(Kline \cup {Nil})]
    /\ puts \in 0..MaxPuts

(* Only the variables of p change, and the lengths of no array in use. *)
OnlyOf(p) ==
    /\ \A q \in Procs \ {p} :
          /\ pc'[q] = pc[q] /\ view'[q] = view[q] /\ lo'[q] = lo[q] /\ hi'[q] = hi[q]
          /\ q \in Getters => out'[q] = out[q]
          /\ q \in Putters => todo'[q] = todo[q]
          /\ pc[q] # "idle" => Len(heap'[view[q].arr]) = Len(heap[view[q].arr])
    /\ \A s \in entry : Len(heap'[s.arr]) = Len(heap[s.arr])

LEMMA ShapeStep ==
    ASSUME Shape, Typed', NEW p \in Procs, OnlyOf(p), ShapeOf(p)', UNCHANGED entry
    PROVE  Shape'
<1>1. ASSUME NEW q \in Procs PROVE ShapeOf(q)'
  <2>1. CASE q = p
    BY <2>1
  <2>2. CASE q # p
    <3>1. /\ pc'[q] = pc[q] /\ view'[q] = view[q] /\ lo'[q] = lo[q] /\ hi'[q] = hi[q]
          /\ q \in Getters => out'[q] = out[q]
          /\ q \in Putters => todo'[q] = todo[q]
          /\ pc[q] # "idle" => Len(heap'[view[q].arr]) = Len(heap[view[q].arr])
      BY <2>2 DEF OnlyOf
    <3>2. ShapeOf(q)
      BY DEF Shape
    <3> QED BY <3>1, <3>2 DEF ShapeOf
  <2> QED BY <2>1, <2>2
<1>2. \A s \in entry : s.len \in 1..MaxItems /\ s.off + s.len <= Len(heap'[s.arr])
  BY DEF Shape, OnlyOf
<1> QED BY <1>1, <1>2 DEF Shape, Typed

LEMMA ProcsParts ==
    /\ \A p \in Putters : p \in Procs /\ p \notin Getters
    /\ \A g \in Getters : g \in Procs /\ g \notin Putters
  BY CacheAssumption DEF Procs

(* The middle of a search. *)
LEMMA Middle ==
    ASSUME NEW l \in Nat, NEW h \in Nat, l < h
    PROVE  (l + h) \div 2 \in Nat /\ l <= (l + h) \div 2 /\ (l + h) \div 2 < h
  OBVIOUS

LEMMA ProbeOutcome ==
    ASSUME Shape, NEW p \in Procs, Probe(p)
    PROVE  /\ pc[p] = "search" /\ lo[p] < hi[p] /\ hi[p] <= view[p].len
           /\ UNCHANGED <<heap, entry, view, todo, ask, out, puts, known, based>>
           /\ \E h \in Nat :
                 /\ lo[p] <= h /\ h < hi[p]
                 /\ \/ /\ Cell(view[p], h) = Nil /\ pc' = [pc EXCEPT ![p] = "panic"]
                       /\ UNCHANGED <<lo, hi>>
                    \/ /\ Cell(view[p], h) # Nil /\ Cell(view[p], h).st >= Target(p)
                       /\ hi' = [hi EXCEPT ![p] = h] /\ UNCHANGED <<lo, pc>>
                    \/ /\ Cell(view[p], h) # Nil /\ ~(Cell(view[p], h).st >= Target(p))
                       /\ lo' = [lo EXCEPT ![p] = h + 1] /\ UNCHANGED <<hi, pc>>
<1> DEFINE h == (lo[p] + hi[p]) \div 2
<1>1. /\ pc[p] = "search" /\ lo[p] < hi[p]
      /\ UNCHANGED <<heap, entry, view, todo, ask, out, puts, known, based>>
      /\ \/ /\ Cell(view[p], h) = Nil /\ pc' = [pc EXCEPT ![p] = "panic"]
            /\ UNCHANGED <<lo, hi>>
         \/ /\ Cell(view[p], h) # Nil /\ Cell(view[p], h).st >= Target(p)
            /\ hi' = [hi EXCEPT ![p] = h] /\ UNCHANGED <<lo, pc>>
         \/ /\ Cell(view[p], h) # Nil /\ ~(Cell(view[p], h).st >= Target(p))
            /\ lo' = [lo EXCEPT ![p] = h + 1] /\ UNCHANGED <<hi, pc>>
  BY DEF Probe, Goto, Reaches
<1>2. lo[p] \in Nat /\ hi[p] \in Nat /\ hi[p] <= view[p].len
  BY <1>1 DEF Shape, ShapeOf
<1>3. h \in Nat /\ lo[p] <= h /\ h < hi[p]
  BY <1>1, <1>2, Middle
<1> HIDE DEF h
<1> QED BY <1>1, <1>2, <1>3

LEMMA ProbeShape ==
    ASSUME Shape, NEW p \in Procs, Probe(p)
    PROVE  Shape'
<1>1. /\ pc[p] = "search" /\ lo[p] < hi[p] /\ hi[p] <= view[p].len
      /\ UNCHANGED <<heap, entry, view, todo, ask, out, puts>>
  BY ProbeOutcome
<1>2. PICK h \in Nat :
         /\ lo[p] <= h /\ h < hi[p]
         /\ \/ pc' = [pc EXCEPT ![p] = "panic"] /\ UNCHANGED <<lo, hi>>
            \/ hi' = [hi EXCEPT ![p] = h] /\ UNCHANGED <<lo, pc>>
            \/ lo' = [lo EXCEPT ![p] = h + 1] /\ UNCHANGED <<hi, pc>>
  BY ProbeOutcome
<1>3. Typed'
  <2>1. pc' \in [Procs -> Steps] /\ lo' \in [Procs -> Nat] /\ hi' \in [Procs -> Nat]
    <3>1. /\ pc \in [Procs -> Steps] /\ lo \in [Procs -> Nat] /\ hi \in [Procs -> Nat]
          /\ "panic" \in Steps /\ h + 1 \in Nat
      BY DEF Shape, Steps
    <3> QED BY <1>2, <3>1
  <2> QED BY <1>1, <2>1 DEF Shape, Typed
<1>4. OnlyOf(p)
  BY <1>1, <1>2 DEF Shape, OnlyOf
<1>5. /\ lo[p] \in Nat /\ hi[p] \in Nat /\ view[p].len \in Nat /\ ShapeOf(p)
      /\ pc[p] \in Steps
  BY SliceType DEF Shape
<1>6. ShapeOf(p)'
  <2>1. CASE pc' = [pc EXCEPT ![p] = "panic"] /\ UNCHANGED <<lo, hi>>
    <3>1. pc'[p] = "panic"
      BY <2>1 DEF Shape
    <3> QED BY <1>1, <1>5, <2>1, <3>1 DEF ShapeOf
  <2>2. CASE hi' = [hi EXCEPT ![p] = h] /\ UNCHANGED <<lo, pc>>
    <3>1. hi'[p] = h
      BY <2>2 DEF Shape
    <3> QED BY <1>1, <1>2, <1>5, <2>2, <3>1 DEF ShapeOf
  <2>3. CASE lo' = [lo EXCEPT ![p] = h + 1] /\ UNCHANGED <<hi, pc>>
    <3>1. lo'[p] = h + 1
      BY <2>3 DEF Shape
    <3> QED BY <1>1, <1>2, <1>5, <2>3, <3>1 DEF ShapeOf
  <2> QED BY <1>2, <2>1, <2>2, <2>3
<1> QED BY <1>1, <1>3, <1>4, <1>6, ShapeStep

LEMMA BeginPutOutcome ==
    ASSUME Shape, NEW p \in Putters, NEW list \in Lists, BeginPut(p, list)
    PROVE  /\ pc[p] = "idle" /\ pc' = [pc EXCEPT ![p] = "search"]
           /\ lo' = [lo EXCEPT ![p] = 0] /\ hi' = [hi EXCEPT ![p] = view'[p].len]
           /\ \E ks \in Seq(Kline) : ks # <<>> /\ todo' = [todo EXCEPT ![p] = ks]
           /\ puts' = puts + 1 /\ puts' \in 0..MaxPuts
           /\ UNCHANGED <<entry, ask, out, known>>
           /\ \/ \E s \in entry : /\ view' = [view EXCEPT ![p] = s]
                                  /\ based' = [based EXCEPT ![p] = known]
                                  /\ UNCHANGED heap
              \/ /\ entry = {}
                 /\ view' = [view EXCEPT ![p] = [arr |-> NewArray, off |-> 0, len |-> 0]]
                 /\ based' = [based EXCEPT ![p] = {}]
                 /\ heap' = [heap EXCEPT ![NewArray] = [i \in 1..MaxItems |-> Nil]]
<1> DEFINE ks == [i \in DOMAIN list |-> [st |-> list[i], ver |-> puts']]
<1>1. /\ pc[p] = "idle" /\ pc' = [pc EXCEPT ![p] = "search"]
      /\ lo' = [lo EXCEPT ![p] = 0] /\ hi' = [hi EXCEPT ![p] = view'[p].len]
      /\ todo' = [todo EXCEPT ![p] = ks]
      /\ puts < MaxPuts /\ puts' = puts + 1
      /\ UNCHANGED <<entry, ask, out, known>>
  BY DEF BeginPut, Goto, SearchIn
<1>2. puts' \in 0..MaxPuts
  BY <1>1, CacheAssumption DEF Shape
<1>3. ks \in Seq(Kline) /\ ks # <<>>
  <2>1. list \in Seq(Nat) /\ list # <<>> /\ puts' \in Nat
    BY <1>2, CacheAssumption
  <2>2. /\ Len(list) \in Nat /\ DOMAIN list = 1..Len(list) /\ Len(list) # 0
        /\ \A i \in 1..Len(list) : list[i] \in Nat
    BY <2>1
  <2>3. \A i \in 1..Len(list) : [st |-> list[i], ver |-> puts'] \in Kline
    BY <2>1, <2>2 DEF Kline
  <2>4. ks = [i \in 1..Len(list) |-> [st |-> list[i], ver |-> puts']]
    BY <2>2
  <2>5. ks \in [1..Len(list) -> Kline]
    BY <2>3, <2>4
  <2>6. ks \in Seq(Kline) /\ DOMAIN ks = 1..Len(list)
    BY <2>2, <2>5, SeqDef
  <2>7. 1 \in DOMAIN ks
    BY <2>2, <2>6
  <2> HIDE DEF ks
  <2> QED BY <2>6, <2>7
<1>4. \/ \E s \in entry : /\ view' = [view EXCEPT ![p] = s]
                          /\ based' = [based EXCEPT ![p] = known]
                          /\ UNCHANGED heap
      \/ /\ entry = {}
         /\ view' = [view EXCEPT ![p] = [arr |-> NewArray, off |-> 0, len |-> 0]]
         /\ based' = [based EXCEPT ![p] = {}]
         /\ heap' = [heap EXCEPT ![NewArray] = [i \in 1..MaxItems |-> Nil]]
  <2>1. CASE entry # {}
    <3>1. (CHOOSE s \in entry : TRUE) \in entry
      BY <2>1
    <3> QED BY <2>1, <3>1 DEF BeginPut
  <2>2. CASE entry = {}
    <3>1. [Empty EXCEPT !.arr = NewArray] = [arr |-> NewArray, off |-> 0, len |-> 0]
      BY DEF Empty
    <3> QED BY <2>2, <3>1 DEF BeginPut
  <2> QED BY <2>1, <2>2
<1> HIDE DEF ks
<1> QED BY <1>1, <1>2, <1>3, <1>4

LEMMA BeginPutShape ==
    ASSUME Shape, NEW p \in Putters, NEW list \in Lists, BeginPut(p, list)
    PROVE  Shape'
<1>0. p \in Procs /\ p \notin Getters
  BY ProcsParts
<1>1. /\ pc[p] = "idle" /\ pc' = [pc EXCEPT ![p] = "search"]
      /\ lo' = [lo EXCEPT ![p] = 0] /\ hi' = [hi EXCEPT ![p] = view'[p].len]
      /\ puts' \in 0..MaxPuts
      /\ UNCHANGED <<entry, ask, out>>
  BY BeginPutOutcome
<1>2. PICK ks \in Seq(Kline) : ks # <<>> /\ todo' = [todo EXCEPT ![p] = ks]
  BY BeginPutOutcome
<1>3. PICK s \in Slice :
         /\ view' = [view EXCEPT ![p] = s]
         /\ heap' \in [Arrays -> Seq(Kline \cup {Nil})]
         /\ s.off + s.len <= Len(heap'[s.arr]) /\ s.off < Len(heap'[s.arr])
         /\ \A q \in Procs \ {p} :
               pc[q] # "idle" => Len(heap'[view[q].arr]) = Len(heap[view[q].arr])
         /\ \A r \in entry : Len(heap'[r.arr]) = Len(heap[r.arr])
  <2>1. CASE \E s \in entry : view' = [view EXCEPT ![p] = s] /\ UNCHANGED heap
    <3>1. PICK s \in entry : view' = [view EXCEPT ![p] = s] /\ UNCHANGED heap
      BY <2>1
    <3>2. /\ s \in Slice /\ s.len \in 1..MaxItems /\ s.off + s.len <= Len(heap[s.arr])
          /\ heap \in [Arrays -> Seq(Kline \cup {Nil})]
      BY DEF Shape
    <3>3. s.off \in Nat /\ Len(heap[s.arr]) \in Nat
      BY <3>2, SliceType
    <3>4. s.off < Len(heap[s.arr])
      BY <3>2, <3>3, CacheAssumption
    <3> QED BY <3>1, <3>2, <3>4
  <2>2. CASE /\ entry = {}
             /\ view' = [view EXCEPT ![p] = [arr |-> NewArray, off |-> 0, len |-> 0]]
             /\ heap' = [heap EXCEPT ![NewArray] = [i \in 1..MaxItems |-> Nil]]
    <3> DEFINE s == [arr |-> NewArray, off |-> 0, len |-> 0]
               c == [i \in 1..MaxItems |-> Nil]
    <3>1. NewArray \in Arrays /\ \A q \in Procs : pc[q] # "idle" => view[q].arr # NewArray
      BY NewArrayUnused
    <3>2. s \in Slice /\ s.arr = NewArray /\ s.off = 0 /\ s.len = 0
      BY <3>1, SliceType
    <3>3. c \in Seq(Kline \cup {Nil}) /\ Len(c) = MaxItems /\ MaxItems \in Nat \ {0}
      BY CacheAssumption, NilCells
    <3>4. view' = [view EXCEPT ![p] = s] /\ heap' = [heap EXCEPT ![NewArray] = c]
      BY <2>2
    <3> HIDE DEF s, c
    <3>5. /\ heap' \in [Arrays -> Seq(Kline \cup {Nil})] /\ heap'[NewArray] = c
          /\ \A b \in Arrays : b # NewArray => heap'[b] = heap[b]
      BY <3>1, <3>3, <3>4, ArrayMade DEF Shape
    <3>6. \A q \in Procs : view[q].arr \in Arrays
      BY SliceType DEF Shape
    <3>7. s.off + s.len <= Len(heap'[s.arr]) /\ s.off < Len(heap'[s.arr])
      BY <3>2, <3>3, <3>5
    <3>8. \A q \in Procs \ {p} :
             pc[q] # "idle" => Len(heap'[view[q].arr]) = Len(heap[view[q].arr])
      BY <3>1, <3>5, <3>6
    <3> QED BY <2>2, <3>2, <3>4, <3>5, <3>7, <3>8
  <2> QED BY <2>1, <2>2, BeginPutOutcome
<1>4. view'[p] = s /\ lo'[p] = 0 /\ hi'[p] = s.len /\ pc'[p] = "search" /\ todo'[p] = ks
  BY <1>0, <1>1, <1>2, <1>3 DEF Shape
<1>5. Typed'
  <2>1. s.len \in Nat
    BY SliceType
  <2>2. hi' = [hi EXCEPT ![p] = s.len]
    BY <1>1, <1>4
  <2> QED BY <1>0, <1>1, <1>2, <1>3, <2>1, <2>2 DEF Shape, Typed, Steps
<1>6. OnlyOf(p)
  BY <1>0, <1>1, <1>2, <1>3 DEF Shape, OnlyOf
<1>7. ShapeOf(p)'
  <2>1. s.len \in Nat
    BY SliceType
  <2> QED BY <1>0, <1>2, <1>3, <1>4, <2>1 DEF ShapeOf
<1> QED BY <1>0, <1>1, <1>5, <1>6, <1>7, ShapeStep

-----------------------------------------------------------------------------
(* What the steps that write do *)

(* The cell at place i of the slice s in a heap h. *)
At(h, s, i) == h[s.arr][s.off + i + 1]

LEMMA CellAt == \A s, i : Cell(s, i) = At(heap, s, i)
  BY DEF Cell, At

LEMMA CellWritten ==
    ASSUME Shape, NEW s \in Slice, NEW i \in Nat, s.off + i < Len(heap[s.arr]),
           NEW k \in Kline \cup {Nil}, heap' = Written(s, i, k)
    PROVE  /\ heap' \in [Arrays -> Seq(Kline \cup {Nil})]
           /\ \A a \in Arrays : Len(heap'[a]) = Len(heap[a])
           /\ \A r \in Slice, j \in Nat : r.off + j < Len(heap[r.arr]) =>
                 At(heap', r, j) = IF r.arr = s.arr /\ r.off + j = s.off + i THEN k
                                   ELSE At(heap, r, j)
<1>1. heap \in [Arrays -> Seq(Kline \cup {Nil})] /\ s.arr \in Arrays /\ s.off \in Nat
  BY SliceType DEF Shape
<1>2. Len(heap[s.arr]) \in Nat /\ s.off + i + 1 \in 1..Len(heap[s.arr])
  BY <1>1
<1>3. heap' = [heap EXCEPT ![s.arr][s.off + i + 1] = k]
  BY DEF Written
<1>4. /\ heap' \in [Arrays -> Seq(Kline \cup {Nil})]
      /\ \A b \in Arrays :
            /\ Len(heap'[b]) = Len(heap[b])
            /\ \A j \in 1..Len(heap[b]) :
                  heap'[b][j] = IF b = s.arr /\ j = s.off + i + 1 THEN k ELSE heap[b][j]
  BY <1>1, <1>2, <1>3, CellChanged
<1>5. ASSUME NEW r \in Slice, NEW j \in Nat, r.off + j < Len(heap[r.arr])
      PROVE  At(heap', r, j) = IF r.arr = s.arr /\ r.off + j = s.off + i THEN k
                               ELSE At(heap, r, j)
  <2>1. r.arr \in Arrays /\ r.off \in Nat /\ Len(heap[r.arr]) \in Nat
    BY <1>1, <1>5, SliceType
  <2>2. r.off + j + 1 \in 1..Len(heap[r.arr])
    BY <1>5, <2>1, SMTT(20)
  <2>3. r.off + j + 1 = s.off + i + 1 <=> r.off + j = s.off + i
    <3>1. r.off + j \in Nat /\ s.off + i \in Nat
      BY <1>1, <2>1, SMTT(20)
    <3>2. \A m, n \in Nat : m + 1 = n + 1 <=> m = n
      OBVIOUS
    <3> QED BY <3>1, <3>2
  <2> QED BY <1>4, <2>1, <2>2, <2>3 DEF At
<1> QED BY <1>4, <1>5

LEMMA AdvanceOutcome ==
    ASSUME Shape, NEW p \in Putters, todo[p] # <<>>, Advance(p)
    PROVE  /\ Head(todo[p]) \in Kline /\ Tail(todo[p]) \in Seq(Kline)
           /\ todo' = [todo EXCEPT ![p] = Tail(todo[p])]
           /\ based' = [based EXCEPT ![p] = Upserted(based[p], Head(todo[p]))]
           /\ lo' = [lo EXCEPT ![p] = 0] /\ hi' = [hi EXCEPT ![p] = view[p].len]
           /\ \/ pc' = [pc EXCEPT ![p] = "set"]
              \/ pc' = [pc EXCEPT ![p] = "search"] /\ Tail(todo[p]) # <<>>
<1>1. todo[p] \in Seq(Kline)
  BY DEF Shape
<1>2. /\ Head(todo[p]) \in Kline /\ Tail(todo[p]) \in Seq(Kline)
      /\ Len(Tail(todo[p])) = Len(todo[p]) - 1 /\ Len(todo[p]) \in Nat
  BY <1>1, HeadTailProperties
<1>3. Len(todo[p]) # 1 => Tail(todo[p]) # <<>>
  <2>1. Len(todo[p]) # 1 => Len(Tail(todo[p])) # 0
    BY <1>2
  <2> QED BY <2>1
<1>4. /\ todo' = [todo EXCEPT ![p] = Tail(todo[p])]
      /\ based' = [based EXCEPT ![p] = Upserted(based[p], Head(todo[p]))]
      /\ lo' = [lo EXCEPT ![p] = 0] /\ hi' = [hi EXCEPT ![p] = view[p].len]
      /\ pc' = [pc EXCEPT ![p] = IF Len(todo[p]) = 1 THEN "set" ELSE "search"]
  BY DEF Advance, Goto, SearchIn
<1> QED BY <1>2, <1>3, <1>4

(* A search that has found its place. *)
LEMMA FoundPlace ==
    ASSUME Shape, NEW p \in Procs, Found(p)
    PROVE  /\ pc[p] = "search" /\ lo[p] = hi[p] /\ lo[p] \in Nat
           /\ view[p] \in Slice /\ view[p].len \in Nat /\ view[p].off \in Nat
           /\ view[p].arr \in Arrays
           /\ hi[p] <= view[p].len
           /\ view[p].off + view[p].len <= Len(heap[view[p].arr])
           /\ view[p].off < Len(heap[view[p].arr])
           /\ Len(heap[view[p].arr]) \in Nat
           /\ p \in Putters => todo[p] # <<>> /\ Head(todo[p]) \in Kline
<1>1. /\ pc[p] = "search" /\ lo[p] = hi[p] /\ lo[p] \in Nat /\ view[p] \in Slice
      /\ hi[p] <= view[p].len
      /\ view[p].off + view[p].len <= Len(heap[view[p].arr])
      /\ view[p].off < Len(heap[view[p].arr])
      /\ p \in Putters => todo[p] # <<>> /\ todo[p] \in Seq(Kline)
  BY DEF Found, Shape, ShapeOf
<1>2. view[p].arr \in Arrays /\ view[p].off \in Nat /\ view[p].len \in Nat
  BY <1>1, SliceType
<1>3. Len(heap[view[p].arr]) \in Nat
  BY <1>2 DEF Shape
<1> QED BY <1>1, <1>2, <1>3, HeadTailProperties

LEMMA OverwriteOutcome ==
    ASSUME Shape, NEW p \in Putters, Overwrite(p)
    PROVE  /\ Found(p) /\ lo[p] < view[p].len
           /\ UNCHANGED <<entry, view, ask, out, puts, known>>
           /\ \/ /\ At(heap, view[p], lo[p]) = Nil /\ pc' = [pc EXCEPT ![p] = "panic"]
                 /\ UNCHANGED <<heap, todo, based, lo, hi>>
              \/ /\ At(heap, view[p], lo[p]) # Nil
                 /\ At(heap, view[p], lo[p]).st = Head(todo[p]).st
                 /\ heap' = Written(view[p], lo[p], Head(todo[p]))
                 /\ Advance(p)
  BY CellAt DEF Overwrite, Goto, Write

(* After append, whether in place or in a new array, the slice is one cell longer, its
   cells are the same and the new one is nil; nothing else changes that is in use. *)
LEMMA AppendOutcome ==
    ASSUME Shape, NEW p \in Putters, AppendNil(p)
    PROVE  /\ Found(p) /\ hi' = [hi EXCEPT ![p] = view[p].len]
           /\ pc' = [pc EXCEPT ![p] = "insert"]
           /\ UNCHANGED <<entry, lo, todo, ask, out, puts, known, based>>
           /\ lo[p] < view[p].len => /\ At(heap, view[p], lo[p]) # Nil
                                     /\ At(heap, view[p], lo[p]).st # Head(todo[p]).st
           /\ \E s \in Slice :
                 /\ view' = [view EXCEPT ![p] = s] /\ s.len = view[p].len + 1
                 /\ heap' \in [Arrays -> Seq(Kline \cup {Nil})]
                 /\ s.off + s.len <= Len(heap'[s.arr])
                 /\ \A i \in 0..(view[p].len - 1) : At(heap', s, i) = At(heap, view[p], i)
                 /\ At(heap', s, view[p].len) = Nil
                 /\ \A a \in Arrays : a # s.arr => heap'[a] = heap[a]
                 /\ \/ /\ s.arr = NewArray /\ s.off = 0
                    \/ /\ s.arr = view[p].arr /\ s.off = view[p].off
                       /\ Len(heap'[s.arr]) = Len(heap[s.arr])
                       /\ \A r \in Slice, j \in Nat :
                             /\ r.off + j < Len(heap[r.arr])
                             /\ ~(r.arr = s.arr /\ r.off + j = s.off + view[p].len)
                             => At(heap', r, j) = At(heap, r, j)
<1> DEFINE v == view[p]
<1>0. p \in Procs
  BY ProcsParts
<1>1. /\ Found(p) /\ hi' = [hi EXCEPT ![p] = v.len] /\ pc' = [pc EXCEPT ![p] = "insert"]
      /\ UNCHANGED <<entry, lo, todo, ask, out, puts, known, based>>
      /\ lo[p] < v.len => At(heap, v, lo[p]) # Nil /\ At(heap, v, lo[p]).st # Head(todo[p]).st
  BY CellAt DEF AppendNil, Goto
<1>2. /\ v \in Slice /\ v.len \in Nat /\ v.off \in Nat /\ v.arr \in Arrays
      /\ v.off + v.len <= Len(heap[v.arr]) /\ v.off < Len(heap[v.arr])
      /\ Len(heap[v.arr]) \in Nat
  BY <1>0, <1>1, FoundPlace
<1>3. \/ /\ v.len < Cap(v) /\ heap' = Written(v, v.len, Nil)
         /\ view' = [view EXCEPT ![p] = [arr |-> v.arr, off |-> v.off, len |-> v.len + 1]]
      \/ /\ ~(v.len < Cap(v))
         /\ heap' = [heap EXCEPT ![NewArray] = CellsOf(v) \o [i \in 1..Cap(v) |-> Nil]]
         /\ view' = [view EXCEPT ![p] = [arr |-> NewArray, off |-> 0, len |-> v.len + 1]]
  <2>1. [v EXCEPT !.len = v.len + 1] = [arr |-> v.arr, off |-> v.off, len |-> v.len + 1]
    BY <1>2 DEF Slice
  <2>2. view \in [Procs -> Slice]
    BY DEF Shape
  <2>3. [view EXCEPT ![p].len = @ + 1] = [view EXCEPT ![p] = [v EXCEPT !.len = v.len + 1]]
    BY <1>0, <2>2
  <2> QED BY <2>1, <2>3 DEF AppendNil, Write
<1>4. CASE /\ v.len < Cap(v) /\ heap' = Written(v, v.len, Nil)
           /\ view' = [view EXCEPT ![p] = [arr |-> v.arr, off |-> v.off, len |-> v.len + 1]]
  <2> DEFINE s == [arr |-> v.arr, off |-> v.off, len |-> v.len + 1]
  <2>1. s \in Slice /\ s.arr = v.arr /\ s.off = v.off /\ s.len = v.len + 1
    BY <1>2, SliceType
  <2>2. v.off + v.len < Len(heap[v.arr])
    BY <1>2, <1>4 DEF Cap
  <2>3. view' = [view EXCEPT ![p] = s]
    BY <1>4
  <2> HIDE DEF s
  <2>4. /\ heap' \in [Arrays -> Seq(Kline \cup {Nil})]
        /\ \A a \in Arrays : Len(heap'[a]) = Len(heap[a])
        /\ \A r \in Slice, j \in Nat : r.off + j < Len(heap[r.arr]) =>
              At(heap', r, j) = IF r.arr = v.arr /\ r.off + j = v.off + v.len THEN Nil
                                ELSE At(heap, r, j)
    <3> HIDE DEF v
    <3> QED BY <1>2, <1>4, <2>2, CellWritten
  <2>5. \A a \in Arrays : a # s.arr => heap'[a] = heap[a]
    BY <1>2, <1>4, <2>1 DEF Written, Shape
  <2>6. \A i \in 0..(v.len - 1) : At(heap', s, i) = At(heap, v, i)
    <3>1. ASSUME NEW i \in 0..(v.len - 1) PROVE At(heap', s, i) = At(heap, v, i)
      <4>1. i \in Nat /\ v.off + i < Len(heap[v.arr]) /\ v.off + i # v.off + v.len
        BY <1>2, SMTT(20)
      <4> QED BY <2>1, <2>4, <4>1 DEF At
    <3> QED BY <3>1
  <2>7. At(heap', s, v.len) = Nil
    <3>1. s.off + v.len < Len(heap[s.arr]) /\ v.len \in Nat
      BY <1>2, <2>1, <2>2
    <3> QED BY <2>1, <2>4, <3>1
  <2>8. s.off + s.len <= Len(heap'[s.arr]) /\ Len(heap'[s.arr]) = Len(heap[s.arr])
    <3>1. v.off + (v.len + 1) <= Len(heap[v.arr])
      BY <1>2, <2>2, SMTT(20)
    <3>2. Len(heap'[s.arr]) = Len(heap[s.arr])
      BY <1>2, <2>1, <2>4
    <3> HIDE DEF v
    <3> QED BY <2>1, <3>1, <3>2
  <2>9. \A r \in Slice, j \in Nat :
           /\ r.off + j < Len(heap[r.arr])
           /\ ~(r.arr = s.arr /\ r.off + j = s.off + v.len)
           => At(heap', r, j) = At(heap, r, j)
    BY <2>1, <2>4
  <2>10. heap' \in [Arrays -> Seq(Kline \cup {Nil})]
    BY <2>4
  <2> QED BY <1>1, <2>1, <2>3, <2>5, <2>6, <2>7, <2>8, <2>9, <2>10
<1>5. CASE /\ ~(v.len < Cap(v))
           /\ heap' = [heap EXCEPT ![NewArray] = CellsOf(v) \o [i \in 1..Cap(v) |-> Nil]]
           /\ view' = [view EXCEPT ![p] = [arr |-> NewArray, off |-> 0, len |-> v.len + 1]]
  <2> DEFINE s == [arr |-> NewArray, off |-> 0, len |-> v.len + 1]
             nils == [i \in 1..Cap(v) |-> Nil]
             c == CellsOf(v) \o nils
  <2>1. NewArray \in Arrays
    BY NewArrayUnused
  <2>2. s \in Slice /\ s.arr = NewArray /\ s.off = 0 /\ s.len = v.len + 1
    <3>1. v.len + 1 \in Nat /\ 0 \in Nat
      BY <1>2
    <3> HIDE DEF v
    <3> QED BY <2>1, <3>1, SliceType
  <2>3. Cap(v) = v.len /\ v.len >= 1
    <3>1. \A l, o, n \in Nat :
             ~(l < n - o) /\ o + l <= n /\ o < n => n - o = l /\ l >= 1
      OBVIOUS
    <3>2. ~(v.len < Len(heap[v.arr]) - v.off) /\ Cap(v) = Len(heap[v.arr]) - v.off
      BY <1>5 DEF Cap
    <3> HIDE DEF v
    <3> QED BY <1>2, <3>1, <3>2
  <2>4. /\ CellsOf(v) \in Seq(Kline \cup {Nil}) /\ Len(CellsOf(v)) = v.len
        /\ \A i \in 0..(v.len - 1) : CellsOf(v)[i + 1] = At(heap, v, i)
    <3>1. heap \in [Arrays -> Seq(Kline \cup {Nil})]
      BY DEF Shape
    <3> HIDE DEF v
    <3> QED BY <1>2, <3>1, CellAt, CellsProperties
  <2>5. nils \in Seq(Kline \cup {Nil}) /\ Len(nils) = v.len /\ nils[1] = Nil
    BY <1>2, <2>3, NilCells
  <2> HIDE DEF s, nils, v
  <2>6. /\ c \in Seq(Kline \cup {Nil}) /\ Len(c) = v.len + v.len
        /\ \A i \in 1..(v.len + v.len) : c[i] = IF i <= v.len THEN CellsOf(v)[i] ELSE nils[i - v.len]
    <3> DEFINE d == CellsOf(v)
    <3>1. d \in Seq(Kline \cup {Nil}) /\ Len(d) = v.len /\ v.len \in Nat
      BY <1>2, <2>4 DEF v
    <3> HIDE DEF d
    <3>2. /\ d \o nils \in Seq(Kline \cup {Nil}) /\ Len(d \o nils) = Len(d) + Len(nils)
          /\ \A i \in 1..(Len(d) + Len(nils)) :
                (d \o nils)[i] = IF i <= Len(d) THEN d[i] ELSE nils[i - Len(d)]
      BY <2>5, <3>1, ConcatProperties
    <3> QED BY <2>5, <3>1, <3>2 DEF d
  <2>7. view' = [view EXCEPT ![p] = s] /\ heap' = [heap EXCEPT ![NewArray] = c]
    BY <1>5 DEF s, nils
  <2> HIDE DEF c
  <2>8. /\ heap' \in [Arrays -> Seq(Kline \cup {Nil})] /\ heap'[NewArray] = c
        /\ \A b \in Arrays : b # NewArray => heap'[b] = heap[b]
    BY <2>1, <2>6, <2>7, ArrayMade DEF Shape
  <2>9. ASSUME NEW i \in 0..(v.len - 1) PROVE At(heap', s, i) = At(heap, v, i)
    <3>1. i + 1 \in 1..(v.len + v.len) /\ i + 1 <= v.len /\ 0 + i + 1 = i + 1
      BY <1>2
    <3> QED BY <2>2, <2>4, <2>6, <2>8, <3>1 DEF At
  <2>10. At(heap', s, v.len) = Nil
    <3>1. /\ v.len + 1 \in 1..(v.len + v.len) /\ ~(v.len + 1 <= v.len)
          /\ 0 + v.len + 1 = v.len + 1 /\ (v.len + 1) - v.len = 1
      BY <1>2, <2>3
    <3> QED BY <2>2, <2>5, <2>6, <2>8, <3>1 DEF At
  <2>11. s.off + s.len <= Len(heap'[s.arr])
    BY <1>2, <2>2, <2>3, <2>6, <2>8
  <2> QED BY <1>1, <2>2, <2>7, <2>8, <2>9, <2>10, <2>11 DEF v
<1> QED BY <1>3, <1>4, <1>5

LEMMA ShiftOutcome ==
    ASSUME Shape, NEW p \in Putters, ShiftCell(p)
    PROVE  /\ pc[p] = "insert" /\ lo[p] < hi[p]
           /\ heap' = Written(view[p], hi[p], At(heap, view[p], hi[p] - 1))
           /\ hi' = [hi EXCEPT ![p] = hi[p] - 1]
           /\ UNCHANGED <<entry, pc, view, lo, todo, ask, out, puts, known, based>>
  BY CellAt DEF ShiftCell, Shifted, Write

LEMMA FillOutcome ==
    ASSUME Shape, NEW p \in Putters, FillGap(p)
    PROVE  /\ pc[p] = "insert" /\ lo[p] = hi[p]
           /\ heap' = Written(view[p], lo[p], Head(todo[p])) /\ Advance(p)
           /\ UNCHANGED <<entry, view, ask, out, puts, known>>
  BY DEF FillGap, Write

LEMMA AdvanceShape ==
    ASSUME Shape, NEW p \in Putters, pc[p] # "idle", todo[p] # <<>>, view[p].len > 0,
           Advance(p), UNCHANGED <<entry, view, ask, out, puts>>,
           heap' \in [Arrays -> Seq(Kline \cup {Nil})],
           \A a \in Arrays : Len(heap'[a]) = Len(heap[a])
    PROVE  Shape'
<1>0. /\ p \in Procs /\ p \notin Getters /\ view[p].len \in Nat
      /\ \A q \in Procs : view[q].arr \in Arrays
      /\ \A s \in entry : s.arr \in Arrays
  BY ProcsParts, SliceType DEF Shape
<1>1. /\ Tail(todo[p]) \in Seq(Kline)
      /\ todo' = [todo EXCEPT ![p] = Tail(todo[p])]
      /\ lo' = [lo EXCEPT ![p] = 0] /\ hi' = [hi EXCEPT ![p] = view[p].len]
      /\ \/ pc' = [pc EXCEPT ![p] = "set"]
         \/ pc' = [pc EXCEPT ![p] = "search"] /\ Tail(todo[p]) # <<>>
  BY AdvanceOutcome
<1>2. /\ lo'[p] = 0 /\ hi'[p] = view[p].len /\ todo'[p] = Tail(todo[p])
      /\ pc'[p] = "set" \/ (pc'[p] = "search" /\ Tail(todo[p]) # <<>>)
  BY <1>0, <1>1 DEF Shape
<1>3. Typed'
  <2>1. pc' \in [Procs -> Steps]
    BY <1>1 DEF Shape, Steps
  <2> QED BY <1>0, <1>1, <2>1 DEF Shape, Typed
<1>4. OnlyOf(p)
  BY <1>0, <1>1 DEF Shape, OnlyOf
<1>5. ShapeOf(p)'
  <2>1. ShapeOf(p)
    BY <1>0 DEF Shape
  <2> QED BY <1>0, <1>2, <2>1 DEF ShapeOf
<1> QED BY <1>0, <1>3, <1>4, <1>5, ShapeStep

LEMMA OverwriteShape ==
    ASSUME Shape, NEW p \in Putters, Overwrite(p)
    PROVE  Shape'
<1>0. p \in Procs /\ p \notin Getters
  BY ProcsParts
<1>1. /\ Found(p) /\ lo[p] < view[p].len
      /\ UNCHANGED <<entry, view, ask, out, puts, known>>
      /\ \/ /\ pc' = [pc EXCEPT ![p] = "panic"] /\ UNCHANGED <<heap, todo, based, lo, hi>>
         \/ heap' = Written(view[p], lo[p], Head(todo[p])) /\ Advance(p)
  BY OverwriteOutcome
<1>2. /\ pc[p] = "search" /\ lo[p] \in Nat
      /\ view[p] \in Slice /\ view[p].len \in Nat /\ view[p].off \in Nat
      /\ view[p].off + view[p].len <= Len(heap[view[p].arr])
      /\ Len(heap[view[p].arr]) \in Nat
      /\ todo[p] # <<>> /\ Head(todo[p]) \in Kline
  BY <1>0, <1>1, FoundPlace
<1>3. CASE pc' = [pc EXCEPT ![p] = "panic"] /\ UNCHANGED <<heap, todo, based, lo, hi>>
  <2>1. pc'[p] = "panic" /\ pc' \in [Procs -> Steps]
    BY <1>0, <1>3 DEF Shape, Steps
  <2>2. Typed' /\ OnlyOf(p)
    BY <1>1, <1>3, <2>1 DEF Shape, Typed, OnlyOf
  <2>3. ShapeOf(p)'
    BY <1>0, <1>1, <1>2, <1>3, <2>1 DEF Shape, ShapeOf
  <2> QED BY <1>0, <1>1, <2>2, <2>3, ShapeStep
<1>4. CASE heap' = Written(view[p], lo[p], Head(todo[p])) /\ Advance(p)
  <2>1. view[p].off + lo[p] < Len(heap[view[p].arr])
    BY <1>1, <1>2, SMTT(20)
  <2>2. /\ heap' \in [Arrays -> Seq(Kline \cup {Nil})]
        /\ \A a \in Arrays : Len(heap'[a]) = Len(heap[a])
    BY <1>2, <1>4, <2>1, CellWritten
  <2>3. view[p].len > 0 /\ pc[p] # "idle"
    BY <1>1, <1>2
  <2> QED BY <1>1, <1>2, <1>4, <2>2, <2>3, AdvanceShape
<1> QED BY <1>1, <1>3, <1>4

LEMMA AppendShape ==
    ASSUME Shape, NEW p \in Putters, AppendNil(p)
    PROVE  Shape'
<1>0. p \in Procs /\ p \notin Getters
  BY ProcsParts
<1>1. /\ Found(p) /\ hi' = [hi EXCEPT ![p] = view[p].len] /\ pc' = [pc EXCEPT ![p] = "insert"]
      /\ UNCHANGED <<entry, lo, todo, ask, out, puts>>
  BY AppendOutcome
<1>2. PICK s \in Slice :
         /\ view' = [view EXCEPT ![p] = s] /\ s.len = view[p].len + 1
         /\ heap' \in [Arrays -> Seq(Kline \cup {Nil})]
         /\ s.off + s.len <= Len(heap'[s.arr])
         /\ \A a \in Arrays : a # s.arr => heap'[a] = heap[a]
         /\ s.arr = NewArray \/ Len(heap'[s.arr]) = Len(heap[s.arr])
  BY AppendOutcome
<1>3. /\ pc[p] = "search" /\ lo[p] = hi[p] /\ lo[p] \in Nat /\ view[p].len \in Nat
      /\ hi[p] <= view[p].len /\ todo[p] # <<>>
  BY <1>0, <1>1, FoundPlace
<1>4. /\ pc'[p] = "insert" /\ hi'[p] = view[p].len /\ view'[p] = s /\ lo'[p] = lo[p]
      /\ todo'[p] = todo[p]
  BY <1>0, <1>1, <1>2 DEF Shape
<1>5. Typed'
  <2>1. pc' \in [Procs -> Steps]
    BY <1>1 DEF Shape, Steps
  <2> QED BY <1>0, <1>1, <1>2, <1>3, <2>1 DEF Shape, Typed
<1>6. OnlyOf(p)
  <2>1. /\ \A q \in Procs : pc[q] # "idle" => view[q].arr # NewArray
        /\ \A r \in entry : r.arr # NewArray
    BY NewArrayUnused
  <2>2. /\ \A q \in Procs : view[q].arr \in Arrays
        /\ \A r \in entry : r.arr \in Arrays
    BY SliceType DEF Shape
  <2>3. \A a \in Arrays : a # NewArray => Len(heap'[a]) = Len(heap[a])
    BY <1>2
  <2> QED BY <1>0, <1>1, <1>2, <2>1, <2>2, <2>3 DEF Shape, OnlyOf
<1>7. ShapeOf(p)'
  <2>1. /\ s.off \in Nat /\ s.len \in Nat /\ Len(heap'[s.arr]) \in Nat
    BY <1>2, SliceType
  <2>2. s.off < Len(heap'[s.arr])
    BY <1>2, <1>3, <2>1, SMTT(20)
  <2> QED BY <1>0, <1>2, <1>3, <1>4, <2>2 DEF ShapeOf
<1> QED BY <1>0, <1>1, <1>5, <1>6, <1>7, ShapeStep

(* The slice of a put that inserts. *)
LEMMA InsertPlace ==
    ASSUME Shape, NEW p \in Putters, pc[p] = "insert"
    PROVE  /\ lo[p] \in Nat /\ hi[p] \in Nat /\ lo[p] <= hi[p]
           /\ view[p] \in Slice /\ view[p].len \in Nat /\ view[p].off \in Nat
           /\ view[p].arr \in Arrays /\ view[p].len >= hi[p] + 1
           /\ view[p].off + view[p].len <= Len(heap[view[p].arr])
           /\ Len(heap[view[p].arr]) \in Nat
           /\ todo[p] # <<>> /\ Head(todo[p]) \in Kline
<1>0. p \in Procs
  BY ProcsParts
<1>1. /\ view[p] \in Slice /\ lo[p] \in Nat /\ hi[p] \in Nat /\ lo[p] <= hi[p]
      /\ view[p].len >= hi[p] + 1
      /\ view[p].off + view[p].len <= Len(heap[view[p].arr])
      /\ todo[p] # <<>> /\ todo[p] \in Seq(Kline)
  BY <1>0 DEF Shape, ShapeOf
<1>2. view[p].arr \in Arrays /\ view[p].off \in Nat /\ view[p].len \in Nat
  BY <1>1, SliceType
<1>3. Len(heap[view[p].arr]) \in Nat
  BY <1>2 DEF Shape
<1> QED BY <1>1, <1>2, <1>3, HeadTailProperties

LEMMA ShiftShape ==
    ASSUME Shape, NEW p \in Putters, ShiftCell(p)
    PROVE  Shape'
<1>0. p \in Procs /\ p \notin Getters
  BY ProcsParts
<1>1. /\ pc[p] = "insert" /\ lo[p] < hi[p]
      /\ heap' = Written(view[p], hi[p], At(heap, view[p], hi[p] - 1))
      /\ hi' = [hi EXCEPT ![p] = hi[p] - 1]
      /\ UNCHANGED <<entry, pc, view, lo, todo, ask, out, puts>>
  BY ShiftOutcome
<1>2. /\ lo[p] \in Nat /\ hi[p] \in Nat
      /\ view[p] \in Slice /\ view[p].len \in Nat /\ view[p].off \in Nat
      /\ view[p].arr \in Arrays /\ view[p].len >= hi[p] + 1
      /\ view[p].off + view[p].len <= Len(heap[view[p].arr])
      /\ Len(heap[view[p].arr]) \in Nat
  BY <1>1, InsertPlace
<1>3. At(heap, view[p], hi[p] - 1) \in Kline \cup {Nil}
  <2>1. view[p].off + (hi[p] - 1) + 1 \in 1..Len(heap[view[p].arr])
    <3>1. \A o, h, l, n \in Nat : h >= 1 /\ l >= h + 1 /\ o + l <= n => o + (h - 1) + 1 \in 1..n
      OBVIOUS
    <3>2. hi[p] >= 1
      BY <1>1, <1>2
    <3> QED BY <1>2, <3>1, <3>2
  <2>2. heap[view[p].arr] \in Seq(Kline \cup {Nil})
    BY <1>2 DEF Shape
  <2> QED BY <2>1, <2>2, ElementOfSeq DEF At
<1>4. /\ heap' \in [Arrays -> Seq(Kline \cup {Nil})]
      /\ \A a \in Arrays : Len(heap'[a]) = Len(heap[a])
  <2>1. view[p].off + hi[p] < Len(heap[view[p].arr])
    <3>1. \A o, h, l, n \in Nat : l >= h + 1 /\ o + l <= n => o + h < n
      OBVIOUS
    <3> QED BY <1>2, <3>1
  <2> QED BY <1>1, <1>2, <1>3, <2>1, CellWritten
<1>5. hi[p] - 1 \in Nat /\ lo[p] <= hi[p] - 1 /\ hi'[p] = hi[p] - 1
  BY <1>0, <1>1, <1>2 DEF Shape
<1>6. Typed'
  BY <1>0, <1>1, <1>4, <1>5 DEF Shape, Typed
<1>7. OnlyOf(p)
  <2>1. /\ \A q \in Procs : view[q].arr \in Arrays
        /\ \A r \in entry : r.arr \in Arrays
    BY SliceType DEF Shape
  <2> QED BY <1>0, <1>1, <1>4, <2>1 DEF Shape, OnlyOf
<1>8. ShapeOf(p)'
  <2>1. ShapeOf(p) /\ Len(heap'[view[p].arr]) = Len(heap[view[p].arr])
    BY <1>0, <1>2, <1>4 DEF Shape
  <2>2. view[p].len >= (hi[p] - 1) + 1
    BY <1>2
  <2> QED BY <1>0, <1>1, <1>5, <2>1, <2>2 DEF ShapeOf
<1> QED BY <1>0, <1>1, <1>6, <1>7, <1>8, ShapeStep

LEMMA FillShape ==
    ASSUME Shape, NEW p \in Putters, FillGap(p)
    PROVE  Shape'
<1>1. /\ pc[p] = "insert" /\ lo[p] = hi[p]
      /\ heap' = Written(view[p], lo[p], Head(todo[p])) /\ Advance(p)
      /\ UNCHANGED <<entry, view, ask, out, puts>>
  BY FillOutcome
<1>2. /\ lo[p] \in Nat /\ hi[p] \in Nat
      /\ view[p] \in Slice /\ view[p].len \in Nat /\ view[p].off \in Nat
      /\ view[p].arr \in Arrays /\ view[p].len >= hi[p] + 1
      /\ view[p].off + view[p].len <= Len(heap[view[p].arr])
      /\ Len(heap[view[p].arr]) \in Nat
      /\ todo[p] # <<>> /\ Head(todo[p]) \in Kline
  BY <1>1, InsertPlace
<1>3. view[p].off + lo[p] < Len(heap[view[p].arr]) /\ view[p].len > 0
  BY <1>1, <1>2, SMTT(20)
<1>4. /\ heap' \in [Arrays -> Seq(Kline \cup {Nil})]
      /\ \A a \in Arrays : Len(heap'[a]) = Len(heap[a])
  BY <1>1, <1>2, <1>3, CellWritten
<1> QED BY <1>1, <1>2, <1>3, <1>4, AdvanceShape

LEMMA SetShape ==
    ASSUME Shape, NEW p \in Putters, SetEntry(p)
    PROVE  /\ Shape' /\ pc[p] = "set" /\ pc' = [pc EXCEPT ![p] = "idle"]
           /\ UNCHANGED <<heap, view, lo, hi, todo, ask, out, puts, based>>
           /\ entry' = {Kept(view[p])} /\ known' = based[p]
           /\ view[p] \in Slice /\ view[p].len > 0
           /\ Kept(view[p]) \in Slice /\ Kept(view[p]).arr = view[p].arr
           /\ Kept(view[p]).off + Kept(view[p]).len = view[p].off + view[p].len
           /\ Kept(view[p]).len = (IF view[p].len > MaxItems THEN MaxItems ELSE view[p].len)
           /\ view[p].off + view[p].len <= Len(heap[view[p].arr])
<1> DEFINE v == view[p]
           s == Kept(v)
<1>0. p \in Procs /\ p \notin Getters
  BY ProcsParts
<1>1. /\ pc[p] = "set" /\ pc' = [pc EXCEPT ![p] = "idle"]
      /\ UNCHANGED <<heap, view, lo, hi, todo, ask, out, puts, based>>
      /\ entry' = {s} /\ known' = based[p]
  BY DEF SetEntry, Goto
<1>2. /\ v \in Slice /\ v.arr \in Arrays /\ v.off \in Nat /\ v.len \in Nat /\ v.len > 0
      /\ v.off + v.len <= Len(heap[v.arr])
  BY <1>0, <1>1, SliceType DEF Shape, ShapeOf
<1>3. /\ s \in Slice /\ s.arr = v.arr /\ s.off + s.len = v.off + v.len
      /\ s.len = IF v.len > MaxItems THEN MaxItems ELSE v.len
  <2>1. MaxItems \in Nat \ {0}
    BY CacheAssumption
  <2>2. CASE v.len > MaxItems
    <3>1. s = [arr |-> v.arr, off |-> v.off + v.len - MaxItems, len |-> MaxItems]
      BY <1>2, <2>2 DEF Kept, Slice
    <3>2. v.off + v.len - MaxItems \in Nat
      BY <1>2, <2>1, <2>2, SMTT(20)
    <3> HIDE DEF s, v
    <3>3. /\ s \in Slice /\ s.arr = v.arr /\ s.off = v.off + v.len - MaxItems
          /\ s.len = MaxItems
      BY <1>2, <2>1, <3>1, <3>2, SliceType
    <3> QED BY <1>2, <2>1, <2>2, <3>3
  <2>3. CASE ~(v.len > MaxItems)
    <3>1. s = v
      BY <2>3 DEF Kept
    <3> QED BY <1>2, <2>3, <3>1
  <2> QED BY <2>2, <2>3
<1>4. s.len \in 1..MaxItems
  BY <1>2, <1>3, CacheAssumption
<1>5. Shape'
  <2> HIDE DEF s
  <2>1. Typed'
    BY <1>1 DEF Shape, Typed, Steps
  <2>2. ASSUME NEW q \in Procs PROVE ShapeOf(q)'
    <3>1. CASE q = p
      <4>1. pc'[q] = "idle"
        BY <1>0, <1>1, <3>1 DEF Shape
      <4> QED BY <4>1 DEF ShapeOf
    <3>2. CASE q # p
      <4>1. pc'[q] = pc[q]
        BY <1>1, <3>2 DEF Shape
      <4>2. ShapeOf(q)
        BY DEF Shape
      <4> QED BY <1>1, <4>1, <4>2 DEF ShapeOf
    <3> QED BY <3>1, <3>2
  <2>3. \A r \in entry' : r \in Slice /\ r.len \in 1..MaxItems /\ r.off + r.len <= Len(heap[r.arr])
    BY <1>1, <1>2, <1>3, <1>4
  <2>4. \A r, t \in entry' : r = t
    BY <1>1
  <2> QED BY <1>1, <2>1, <2>2, <2>3, <2>4 DEF Shape, Typed
<1> QED BY <1>1, <1>2, <1>3, <1>5

(* What a getter does to the state other goroutines see: nothing. *)
LEMMA GetterShape ==
    ASSUME Shape, NEW g \in Getters, UNCHANGED <<heap, entry, todo, puts>>,
           NEW s \in Slice, view' = [view EXCEPT ![g] = s],
           NEW l \in Nat, lo' = [lo EXCEPT ![g] = l],
           NEW h \in Nat, hi' = [hi EXCEPT ![g] = h],
           NEW step \in Steps, pc' = [pc EXCEPT ![g] = step],
           NEW o \in Seq(Kline \cup {Nil}), out' = [out EXCEPT ![g] = o],
           ask' \in [Getters -> Asks],
           step # "insert", step # "set",
           step # "idle" => /\ s.off + s.len <= Len(heap[s.arr])
                            /\ s.off < Len(heap[s.arr]),
           step \in {"search", "scan", "copy"} => l <= h /\ h <= s.len,
           step = "copy" => l + Len(o) <= h,
           step \in {"search", "scan"} => o = <<>>
    PROVE  Shape'
<1>0. g \in Procs /\ g \notin Putters
  BY ProcsParts
<1>1. /\ view'[g] = s /\ lo'[g] = l /\ hi'[g] = h /\ pc'[g] = step /\ out'[g] = o
  BY <1>0 DEF Shape
<1>2. Typed'
  BY <1>0 DEF Shape, Typed
<1>3. OnlyOf(g)
  BY <1>0 DEF Shape, OnlyOf
<1>4. ShapeOf(g)'
  BY <1>0, <1>1 DEF ShapeOf
<1> QED BY <1>0, <1>2, <1>3, <1>4, ShapeStep

(* A getter goes on to a slice, bounds, a step and what it has copied. *)
GoesTo(g, s, l, h, step, o) ==
    /\ view' = [view EXCEPT ![g] = s] /\ lo' = [lo EXCEPT ![g] = l]
    /\ hi' = [hi EXCEPT ![g] = h] /\ pc' = [pc EXCEPT ![g] = step]
    /\ out' = [out EXCEPT ![g] = o]

(* The steps of a getter. *)
Gets(g, s, l, h, step, o) ==
    \/ /\ pc[g] = "idle" /\ s \in entry /\ l = 0 /\ h = s.len /\ step = "search" /\ o = <<>>
    \/ /\ pc[g] = "search" /\ lo[g] = hi[g] /\ step = "scan"
       /\ s = view[g] /\ l = lo[g] /\ h = hi[g] /\ o = out[g] /\ ask' = ask
    \/ /\ pc[g] = "scan" /\ s = view[g] /\ l = lo[g] /\ o = out[g] /\ ask' = ask
       /\ \/ /\ hi[g] < s.len /\ At(heap, s, hi[g]) = Nil /\ h = hi[g] /\ step = "panic"
          \/ /\ hi[g] < s.len /\ At(heap, s, hi[g]) # Nil /\ h = hi[g] + 1 /\ step = "scan"
             /\ ~(At(heap, s, hi[g]).st >= ask[g].to)
          \/ /\ h = hi[g] /\ step = "copy"
    \/ /\ pc[g] = "copy" /\ s = view[g] /\ l = lo[g] /\ h = hi[g] /\ ask' = ask
       /\ \/ /\ lo[g] + Len(out[g]) < hi[g] /\ step = "copy"
             /\ o = Append(out[g], At(heap, s, lo[g] + Len(out[g])))
          \/ /\ o = out[g] /\ step = "idle"

(* The state of a getter. *)
LEMMA GetterState ==
    ASSUME Shape, NEW g \in Getters
    PROVE  /\ g \in Procs /\ g \notin Putters /\ ShapeOf(g)
           /\ view[g] \in Slice /\ view[g].arr \in Arrays
           /\ view[g].len \in Nat /\ view[g].off \in Nat
           /\ lo[g] \in Nat /\ hi[g] \in Nat /\ pc[g] \in Steps
           /\ out[g] \in Seq(Kline \cup {Nil}) /\ Len(out[g]) \in Nat
           /\ view = [view EXCEPT ![g] = view[g]] /\ lo = [lo EXCEPT ![g] = lo[g]]
           /\ hi = [hi EXCEPT ![g] = hi[g]] /\ pc = [pc EXCEPT ![g] = pc[g]]
           /\ out = [out EXCEPT ![g] = out[g]]
           /\ Len(heap[view[g].arr]) \in Nat
<1>1. /\ g \in Procs /\ g \notin Putters
      /\ view[g] \in Slice /\ lo[g] \in Nat /\ hi[g] \in Nat /\ pc[g] \in Steps
      /\ out[g] \in Seq(Kline \cup {Nil}) /\ ShapeOf(g)
  BY ProcsParts DEF Shape
<1>2. view[g].arr \in Arrays /\ view[g].len \in Nat /\ view[g].off \in Nat
  BY <1>1, SliceType
<1>3. /\ view = [view EXCEPT ![g] = view[g]] /\ lo = [lo EXCEPT ![g] = lo[g]]
      /\ hi = [hi EXCEPT ![g] = hi[g]] /\ pc = [pc EXCEPT ![g] = pc[g]]
      /\ out = [out EXCEPT ![g] = out[g]]
  BY DEF Shape
<1>4. Len(heap[view[g].arr]) \in Nat
  BY <1>2 DEF Shape
<1> QED BY <1>1, <1>2, <1>3, <1>4

LEMMA GetOutcome ==
    ASSUME Shape, NEW g \in Getters, GetStep(g)
    PROVE  /\ UNCHANGED <<heap, entry, todo, puts, known, based>>
           /\ ask' \in [Getters -> Asks] /\ \A f \in Getters \ {g} : ask'[f] = ask[f]
           /\ \E s \in Slice, l \in Nat, h \in Nat, step \in Steps, o \in Seq(Kline \cup {Nil}) :
                 GoesTo(g, s, l, h, step, o) /\ Gets(g, s, l, h, step, o)
<1> DEFINE Outcome ==
              \E s \in Slice, l \in Nat, h \in Nat, step \in Steps, o \in Seq(Kline \cup {Nil}) :
                 GoesTo(g, s, l, h, step, o) /\ Gets(g, s, l, h, step, o)
<1>0. /\ g \in Procs
      /\ view[g] \in Slice /\ view[g].len \in Nat /\ view[g].off \in Nat
      /\ view[g].arr \in Arrays
      /\ lo[g] \in Nat /\ hi[g] \in Nat /\ pc[g] \in Steps
      /\ out[g] \in Seq(Kline \cup {Nil}) /\ Len(out[g]) \in Nat
      /\ view = [view EXCEPT ![g] = view[g]] /\ lo = [lo EXCEPT ![g] = lo[g]]
      /\ hi = [hi EXCEPT ![g] = hi[g]] /\ pc = [pc EXCEPT ![g] = pc[g]]
      /\ out = [out EXCEPT ![g] = out[g]]
  BY GetterState
<1>1. /\ ask \in [Getters -> Asks] /\ ShapeOf(g) /\ heap \in [Arrays -> Seq(Kline \cup {Nil})]
  BY <1>0 DEF Shape
<1>2. {"search", "scan", "copy", "idle", "panic"} \subseteq Steps
  BY DEF Steps
<1>3. ASSUME NEW a \in Asks, BeginGet(g, a)
      PROVE  /\ UNCHANGED <<heap, entry, todo, puts, known, based>> /\ Outcome
             /\ ask' \in [Getters -> Asks] /\ \A f \in Getters \ {g} : ask'[f] = ask[f]
  <2> DEFINE s == CHOOSE r \in entry : TRUE
  <2>1. /\ pc[g] = "idle" /\ entry # {} /\ ask' = [ask EXCEPT ![g] = a]
        /\ view' = [view EXCEPT ![g] = s] /\ lo' = [lo EXCEPT ![g] = 0]
        /\ hi' = [hi EXCEPT ![g] = view'[g].len] /\ out' = [out EXCEPT ![g] = <<>>]
        /\ pc' = [pc EXCEPT ![g] = "search"]
        /\ UNCHANGED <<heap, entry, todo, puts, known, based>>
    BY <1>3 DEF BeginGet, SearchIn, Goto
  <2>2. s \in entry
    BY <2>1
  <2> HIDE DEF s
  <2>3. view'[g] = s /\ s \in Slice /\ s.len \in Nat
    BY <1>0, <2>1, <2>2, SliceType DEF Shape
  <2>4. <<>> \in Seq(Kline \cup {Nil})
    OBVIOUS
  <2>5. GoesTo(g, s, 0, s.len, "search", <<>>) /\ Gets(g, s, 0, s.len, "search", <<>>)
    BY <2>1, <2>2, <2>3 DEF GoesTo, Gets
  <2>6. Outcome
    BY <1>2, <2>3, <2>4, <2>5
  <2>7. ask' \in [Getters -> Asks] /\ \A f \in Getters \ {g} : ask'[f] = ask[f]
    BY <1>1, <2>1
  <2> QED BY <2>1, <2>6, <2>7
<1>4. ASSUME BeginScan(g)
      PROVE  UNCHANGED <<heap, entry, todo, puts, known, based, ask>> /\ Outcome
  <2>1. /\ pc[g] = "search" /\ lo[g] = hi[g] /\ pc' = [pc EXCEPT ![g] = "scan"]
        /\ UNCHANGED <<heap, entry, view, lo, hi, todo, ask, out, puts, known, based>>
    BY <1>4 DEF BeginScan, Goto, Found
  <2>2. /\ GoesTo(g, view[g], lo[g], hi[g], "scan", out[g])
        /\ Gets(g, view[g], lo[g], hi[g], "scan", out[g])
    BY <1>0, <2>1 DEF GoesTo, Gets
  <2> QED BY <1>0, <1>2, <2>1, <2>2
<1>5. ASSUME ScanCell(g) \/ EndScan(g)
      PROVE  UNCHANGED <<heap, entry, todo, puts, known, based, ask>> /\ Outcome
  <2>1. /\ pc[g] = "scan"
        /\ UNCHANGED <<heap, entry, view, lo, todo, ask, out, puts, known, based>>
    BY <1>5 DEF ScanCell, EndScan
  <2>2. hi[g] <= view[g].len
    BY <1>1, <2>1 DEF ShapeOf
  <2>3. CASE EndScan(g)
    <3>1. pc' = [pc EXCEPT ![g] = "copy"] /\ UNCHANGED hi
      BY <2>3 DEF EndScan, Goto
    <3>2. /\ GoesTo(g, view[g], lo[g], hi[g], "copy", out[g])
          /\ Gets(g, view[g], lo[g], hi[g], "copy", out[g])
      BY <1>0, <2>1, <3>1 DEF GoesTo, Gets
    <3> QED BY <1>0, <1>2, <2>1, <3>2
  <2>4. CASE ScanCell(g)
    <3>1. /\ hi[g] < view[g].len
          /\ At(heap, view[g], hi[g]) # Nil => ~(At(heap, view[g], hi[g]).st >= ask[g].to)
      <4>1. ~ScanEnds(g)
        BY <2>4 DEF ScanCell
      <4>2. /\ hi[g] # view[g].len
            /\ hi[g] < view[g].len /\ Cell(view[g], hi[g]) # Nil
               => ~(Cell(view[g], hi[g]).st >= ask[g].to)
        BY <4>1 DEF ScanEnds, Beyond
      <4>3. hi[g] < view[g].len
        BY <1>0, <2>2, <4>2
      <4> QED BY <4>2, <4>3, CellAt
    <3>2. CASE At(heap, view[g], hi[g]) = Nil
      <4>1. pc' = [pc EXCEPT ![g] = "panic"] /\ UNCHANGED hi
        BY <2>4, <3>2, CellAt DEF ScanCell, Goto
      <4>2. /\ GoesTo(g, view[g], lo[g], hi[g], "panic", out[g])
            /\ Gets(g, view[g], lo[g], hi[g], "panic", out[g])
        BY <1>0, <2>1, <3>1, <3>2, <4>1 DEF GoesTo, Gets
      <4> QED BY <1>0, <1>2, <2>1, <4>2
    <3>3. CASE At(heap, view[g], hi[g]) # Nil
      <4>1. hi' = [hi EXCEPT ![g] = hi[g] + 1] /\ UNCHANGED pc
        BY <2>4, <3>3, CellAt DEF ScanCell
      <4>2. /\ GoesTo(g, view[g], lo[g], hi[g] + 1, "scan", out[g])
            /\ Gets(g, view[g], lo[g], hi[g] + 1, "scan", out[g])
        BY <1>0, <2>1, <3>1, <3>3, <4>1 DEF GoesTo, Gets
      <4>3. hi[g] + 1 \in Nat
        BY <1>0
      <4> QED BY <1>0, <1>2, <2>1, <4>2, <4>3
    <3> QED BY <3>2, <3>3
  <2> QED BY <1>5, <2>3, <2>4
<1>6. ASSUME CopyCell(g)
      PROVE  UNCHANGED <<heap, entry, todo, puts, known, based, ask>> /\ Outcome
  <2> DEFINE o == Append(out[g], At(heap, view[g], lo[g] + Len(out[g])))
  <2>1. /\ pc[g] = "copy" /\ lo[g] + Len(out[g]) < hi[g]
        /\ out' = [out EXCEPT ![g] = o]
        /\ UNCHANGED <<heap, entry, pc, view, lo, hi, todo, ask, puts, known, based>>
    BY <1>6, CellAt DEF CopyCell
  <2>2. At(heap, view[g], lo[g] + Len(out[g])) \in Kline \cup {Nil}
    <3>1. /\ hi[g] <= view[g].len /\ view[g].off + view[g].len <= Len(heap[view[g].arr])
      BY <1>1, <2>1 DEF ShapeOf
    <3>2. /\ Len(heap[view[g].arr]) \in Nat /\ heap[view[g].arr] \in Seq(Kline \cup {Nil})
      BY <1>0, <1>1
    <3>a. \A x, l, c, h, n, m \in Nat :
            l + c < h /\ h <= n /\ x + n <= m => x + (l + c) + 1 \in 1..m
      OBVIOUS
    <3>b. /\ view[g].off \in Nat /\ view[g].len \in Nat /\ lo[g] \in Nat /\ hi[g] \in Nat
          /\ Len(out[g]) \in Nat
      BY <1>0
    <3>3. view[g].off + (lo[g] + Len(out[g])) + 1 \in 1..Len(heap[view[g].arr])
      <4>1. lo[g] + Len(out[g]) < hi[g]
        BY <2>1
      <4> QED BY <3>a, <3>b, <3>1, <3>2, <4>1
    <3> QED BY <3>2, <3>3, ElementOfSeq DEF At
  <2>3. o \in Seq(Kline \cup {Nil})
    BY <1>0, <2>2, AppendProperties
  <2>4. GoesTo(g, view[g], lo[g], hi[g], "copy", o) /\ Gets(g, view[g], lo[g], hi[g], "copy", o)
    BY <1>0, <2>1 DEF GoesTo, Gets
  <2> HIDE DEF o
  <2> QED BY <1>0, <1>2, <2>1, <2>3, <2>4
<1>7. ASSUME EndGet(g)
      PROVE  UNCHANGED <<heap, entry, todo, puts, known, based, ask>> /\ Outcome
  <2>1. /\ pc[g] = "copy" /\ pc' = [pc EXCEPT ![g] = "idle"]
        /\ UNCHANGED <<heap, entry, view, lo, hi, todo, ask, out, puts, known, based>>
    BY <1>7 DEF EndGet, Goto
  <2>2. /\ GoesTo(g, view[g], lo[g], hi[g], "idle", out[g])
        /\ Gets(g, view[g], lo[g], hi[g], "idle", out[g])
    BY <1>0, <2>1 DEF GoesTo, Gets
  <2> QED BY <1>0, <1>2, <2>1, <2>2
<1> HIDE DEF Outcome
<1>8. /\ UNCHANGED <<heap, entry, todo, puts, known, based>> /\ Outcome
      /\ ask' \in [Getters -> Asks] /\ \A f \in Getters \ {g} : ask'[f] = ask[f]
  BY <1>1, <1>3, <1>4, <1>5, <1>6, <1>7 DEF GetStep
<1> QED BY <1>8 DEF Outcome

LEMMA GetShape ==
    ASSUME Shape, NEW g \in Getters, GetStep(g)
    PROVE  Shape'
<1>1. UNCHANGED <<heap, entry, todo, puts>> /\ ask' \in [Getters -> Asks]
  BY GetOutcome
<1>2. PICK s \in Slice, l \in Nat, h \in Nat, step \in Steps, o \in Seq(Kline \cup {Nil}) :
         GoesTo(g, s, l, h, step, o) /\ Gets(g, s, l, h, step, o)
  BY GetOutcome
<1>3. /\ view' = [view EXCEPT ![g] = s] /\ lo' = [lo EXCEPT ![g] = l]
      /\ hi' = [hi EXCEPT ![g] = h] /\ pc' = [pc EXCEPT ![g] = step]
      /\ out' = [out EXCEPT ![g] = o]
  BY <1>2 DEF GoesTo
<1>4. /\ ShapeOf(g) /\ lo[g] \in Nat /\ hi[g] \in Nat /\ Len(out[g]) \in Nat
      /\ out[g] \in Seq(Kline \cup {Nil}) /\ g \notin Putters
      /\ view[g].len \in Nat
  BY GetterState
<1>5. \A r \in entry : /\ r.len \in Nat /\ r.off \in Nat /\ Len(heap[r.arr]) \in Nat
                       /\ r.off + r.len <= Len(heap[r.arr]) /\ r.off < Len(heap[r.arr])
  <2>1. ASSUME NEW r \in entry
        PROVE  /\ r.len \in Nat /\ r.off \in Nat /\ Len(heap[r.arr]) \in Nat
               /\ r.off + r.len <= Len(heap[r.arr]) /\ r.off < Len(heap[r.arr])
    <3>1. r \in Slice /\ r.len \in 1..MaxItems /\ r.off + r.len <= Len(heap[r.arr])
      BY DEF Shape
    <3>2. r.arr \in Arrays /\ r.len \in Nat /\ r.off \in Nat
      BY <3>1, SliceType
    <3>3. Len(heap[r.arr]) \in Nat
      BY <3>2 DEF Shape
    <3> QED BY <3>1, <3>2, <3>3, CacheAssumption
  <2> QED BY <2>1
<1>6. /\ step # "insert" /\ step # "set"
      /\ step \in {"search", "scan", "copy"} => l <= h /\ h <= s.len
      /\ step \in {"search", "scan"} => o = <<>>
      /\ step # "idle" => s.off + s.len <= Len(heap[s.arr]) /\ s.off < Len(heap[s.arr])
  <2>1. CASE /\ pc[g] = "idle" /\ s \in entry /\ l = 0 /\ h = s.len /\ step = "search"
             /\ o = <<>>
    BY <1>5, <2>1
  <2>2. CASE pc[g] = "search" /\ s = view[g] /\ l = lo[g] /\ h = hi[g] /\ step = "scan" /\ o = out[g]
    BY <1>4, <2>2 DEF ShapeOf
  <2>3. CASE /\ pc[g] = "scan" /\ s = view[g] /\ l = lo[g] /\ o = out[g]
             /\ \/ step = "panic"
                \/ hi[g] < s.len /\ h = hi[g] + 1 /\ step = "scan"
                \/ h = hi[g] /\ step = "copy"
    BY <1>4, <2>3 DEF ShapeOf
  <2>4. CASE /\ pc[g] = "copy" /\ s = view[g] /\ l = lo[g] /\ h = hi[g]
             /\ step = "copy" \/ step = "idle"
    BY <1>4, <2>4 DEF ShapeOf
  <2> QED BY <1>2, <2>1, <2>2, <2>3, <2>4 DEF Gets
<1>7. step = "copy" => l + Len(o) <= h
  <2>1. ASSUME step = "copy" PROVE l + Len(o) <= h
    <3>1. CASE pc[g] = "scan" /\ l = lo[g] /\ o = out[g] /\ h = hi[g]
      <4>1. out[g] = <<>> /\ lo[g] <= hi[g] /\ Len(<<>>) = 0
        BY <1>4, <3>1 DEF ShapeOf
      <4> QED BY <1>4, <3>1, <4>1
    <3>2. CASE /\ pc[g] = "copy" /\ s = view[g] /\ l = lo[g] /\ h = hi[g]
               /\ lo[g] + Len(out[g]) < hi[g]
               /\ o = Append(out[g], At(heap, s, lo[g] + Len(out[g])))
      <4>1. Len(o) = Len(out[g]) + 1
        BY <1>4, <3>2
      <4> QED BY <1>4, <3>2, <4>1, SMTT(20)
    <3> QED BY <1>2, <2>1, <3>1, <3>2 DEF Gets
  <2> QED BY <2>1
<1> QED BY <1>1, <1>3, <1>6, <1>7, GetterShape

LEMMA InitShape == Init => Shape
<1> SUFFICES ASSUME Init PROVE Shape
  OBVIOUS
<1>1. Empty \in Slice
  <2>1. Cardinality(Procs) \in Nat
    BY CacheAssumption, FS_CardinalityType
  <2> QED BY <2>1 DEF Empty, Slice, Arrays
<1>2. \A p \in Procs : ShapeOf(p)
  BY DEF Init, ShapeOf
<1>3. 0 \in 0..MaxPuts
  BY CacheAssumption
<1> QED BY <1>1, <1>2, <1>3 DEF Init, Shape, Steps

LEMMA ExpireShape == Shape /\ Expire => Shape'
  BY DEF Expire, Shape, ShapeOf

LEMMA NextShape == Shape /\ [Next]_vars => Shape'
<1> SUFFICES ASSUME Shape, [Next]_vars PROVE Shape'
  OBVIOUS
<1>1. CASE UNCHANGED vars
  BY <1>1 DEF vars, Shape, ShapeOf
<1>2. CASE \E p \in Procs : Probe(p)
  BY <1>2, ProbeShape
<1>3. CASE \E p \in Putters : PutStep(p)
  BY <1>3, BeginPutShape, OverwriteShape, AppendShape, ShiftShape, FillShape, SetShape DEF PutStep
<1>4. CASE \E g \in Getters : GetStep(g)
  BY <1>4, GetShape
<1>5. CASE Expire
  BY <1>5, ExpireShape
<1> QED BY <1>1, <1>2, <1>3, <1>4, <1>5 DEF Next

LEMMA Shaped == Spec => []Shape
  BY InitShape, NextShape, PTL DEF Spec

(* Type correctness for any number of goroutines: no step of a put or a get, however
   they interleave, goes beyond the array of a slice. *)
THEOREM TypeCorrect == Spec => []TypeOK
<1>1. Init => overlap \in BOOLEAN
  BY DEF Init
<1>2. overlap \in BOOLEAN /\ [Next]_vars => (overlap \in BOOLEAN)'
  <2> SUFFICES ASSUME overlap \in BOOLEAN, [Next]_vars
               PROVE  overlap' = overlap \/ overlap' \in BOOLEAN
    OBVIOUS
  <2>1. CASE UNCHANGED vars
    BY <2>1 DEF vars
  <2>2. ASSUME NEW p \in Procs, Probe(p) PROVE overlap' = overlap
    BY <2>2 DEF Probe
  <2>3. ASSUME NEW p \in Putters, PutStep(p)
        PROVE  overlap' = overlap \/ overlap' \in BOOLEAN
    <3>1. CASE \E list \in Lists : BeginPut(p, list)
      <4>1. overlap' = (overlap \/ Busy # {})
        BY <3>1 DEF BeginPut
      <4> QED BY <4>1
    <3>2. CASE Overwrite(p) \/ AppendNil(p) \/ ShiftCell(p) \/ FillGap(p) \/ SetEntry(p)
      BY <3>2 DEF Overwrite, AppendNil, ShiftCell, FillGap, SetEntry
    <3> QED BY <2>3, <3>1, <3>2 DEF PutStep
  <2>4. ASSUME NEW g \in Getters, GetStep(g) PROVE overlap' = overlap
    BY <2>4 DEF GetStep, BeginGet, BeginScan, ScanCell, EndScan, CopyCell, EndGet
  <2>5. CASE Expire
    BY <2>5 DEF Expire
  <2> QED BY <2>1, <2>2, <2>3, <2>4, <2>5 DEF Next
<1> QED BY <1>1, <1>2, Shaped, ShapeType, PTL DEF Spec

-----------------------------------------------------------------------------
(* The klines in order *)

(* The row c of n klines, in order, is of the klines B; one of B that it lacks is older
   than the newest MaxItems of the row. *)
Stands(c, n, B) ==
    /\ c \in [0..(n - 1) -> Kline] /\ B \subseteq Kline /\ IsFiniteSet(B)
    /\ \A i, j \in 0..(n - 1) : i < j => c[i].st < c[j].st
    /\ \A i \in 0..(n - 1) : c[i] \in B
    /\ \A x \in B : \/ \E i \in 0..(n - 1) : c[i] = x
                    \/ n >= MaxItems /\ c[n - MaxItems].st > x.st

LEMMA KlineType == \A k \in Kline : k.st \in Nat /\ k # Nil
  BY CacheAssumption DEF Kline

LEMMA SizeType == MaxItems \in Nat /\ MaxItems > 0
  BY CacheAssumption

LEMMA NothingStands == \A c \in [0..(0 - 1) -> Kline] : Stands(c, 0, {})
<1>1. IsFiniteSet({})
  BY FS_EmptySet
<1> QED BY <1>1, SizeType DEF Stands

(* The klines after k is put. *)
LEMMA UpsertedType ==
    ASSUME NEW B, B \subseteq Kline, IsFiniteSet(B), NEW k \in Kline
    PROVE  Upserted(B, k) \subseteq Kline /\ IsFiniteSet(Upserted(B, k))
<1>1. IsFiniteSet({x \in B : x.st # k.st})
  BY FS_Subset
<1> HIDE DEF Kline
<1>2. IsFiniteSet({x \in B : x.st # k.st} \cup {k})
  BY <1>1, FS_AddElement
<1> QED BY <1>2 DEF Upserted

(* A kline takes the place of one of its start time. *)
LEMMA Replaced ==
    ASSUME NEW n \in Nat, NEW c, NEW B, Stands(c, n, B), NEW k \in Kline,
           NEW p \in 0..(n - 1), c[p].st = k.st
    PROVE  Stands([c EXCEPT ![p] = k], n, Upserted(B, k))
<1> DEFINE d == [c EXCEPT ![p] = k]
<1>1. /\ c \in [0..(n - 1) -> Kline] /\ B \subseteq Kline /\ IsFiniteSet(B)
      /\ \A i, j \in 0..(n - 1) : i < j => c[i].st < c[j].st
      /\ \A i \in 0..(n - 1) : c[i] \in B
      /\ \A x \in B : \/ \E i \in 0..(n - 1) : c[i] = x
                      \/ n >= MaxItems /\ c[n - MaxItems].st > x.st
  BY DEF Stands
<1>2. /\ d \in [0..(n - 1) -> Kline] /\ d[p] = k
      /\ \A i \in 0..(n - 1) : i # p => d[i] = c[i]
  BY <1>1
<1> HIDE DEF d
<1>3. \A i \in 0..(n - 1) : d[i].st = c[i].st
  BY <1>2
<1>4. \A i, j \in 0..(n - 1) : i < j => d[i].st < d[j].st
  BY <1>1, <1>3
<1>5. ASSUME NEW i \in 0..(n - 1) PROVE d[i] \in Upserted(B, k)
  <2>1. CASE i = p
    BY <1>2, <2>1 DEF Upserted
  <2>2. CASE i # p
    <3>1. c[i].st # c[p].st
      <4>1. c[i].st \in Nat /\ c[p].st \in Nat
        BY <1>1, KlineType
      <4>2. i < p \/ p < i
        BY <2>2
      <4> QED BY <1>1, <4>1, <4>2
    <3> QED BY <1>1, <1>2, <2>2, <3>1 DEF Upserted
  <2> QED BY <2>1, <2>2
<1>6. ASSUME NEW x \in Upserted(B, k)
      PROVE  \/ \E i \in 0..(n - 1) : d[i] = x
             \/ n >= MaxItems /\ d[n - MaxItems].st > x.st
  <2>1. CASE x = k
    BY <1>2, <2>1
  <2>2. CASE x # k
    <3>1. x \in B /\ x.st # k.st
      BY <2>2 DEF Upserted
    <3>2. CASE \E i \in 0..(n - 1) : c[i] = x
      BY <1>2, <3>1, <3>2
    <3>3. CASE n >= MaxItems /\ c[n - MaxItems].st > x.st
      <4>1. n - MaxItems \in 0..(n - 1)
        BY <3>3, SizeType
      <4> QED BY <1>3, <3>3, <4>1
    <3> QED BY <1>1, <3>1, <3>2, <3>3
  <2> QED BY <2>1, <2>2
<1>7. Upserted(B, k) \subseteq Kline /\ IsFiniteSet(Upserted(B, k))
  BY <1>1, UpsertedType
<1>8. Stands(d, n, Upserted(B, k))
  BY <1>2, <1>4, <1>5, <1>6, <1>7 DEF Stands
<1> QED BY <1>8 DEF d

(* A kline is inserted at its place. *)
LEMMA Inserted ==
    ASSUME NEW n \in Nat, NEW c, NEW B, Stands(c, n, B), NEW k \in Kline,
           NEW p \in 0..n,
           \A i \in 0..(p - 1) : c[i].st < k.st,
           \A i \in p..(n - 1) : c[i].st > k.st,
           NEW d \in [0..n -> Kline],
           \A i \in 0..(p - 1) : d[i] = c[i],
           d[p] = k,
           \A i \in p..(n - 1) : d[i + 1] = c[i]
    PROVE  Stands(d, n + 1, Upserted(B, k))
<1>1. /\ c \in [0..(n - 1) -> Kline] /\ B \subseteq Kline /\ IsFiniteSet(B)
      /\ \A i, j \in 0..(n - 1) : i < j => c[i].st < c[j].st
      /\ \A i \in 0..(n - 1) : c[i] \in B
      /\ \A x \in B : \/ \E i \in 0..(n - 1) : c[i] = x
                      \/ n >= MaxItems /\ c[n - MaxItems].st > x.st
  BY DEF Stands
<1>2. /\ (n + 1) - 1 = n /\ p \in Nat /\ p <= n
      /\ \A i \in 0..n : /\ i < p => i \in 0..(p - 1) /\ i \in 0..(n - 1)
                         /\ i > p => i - 1 \in p..(n - 1) /\ i - 1 \in 0..(n - 1)
                                     /\ (i - 1) + 1 = i
                         /\ i < p \/ i = p \/ i > p
  OBVIOUS
<1>3. \A i \in 0..(n - 1) : c[i].st \in Nat
  BY <1>1, KlineType
<1>4. \A i \in 0..n : /\ i < p => d[i] = c[i] /\ c[i].st < k.st
                      /\ i > p => d[i] = c[i - 1] /\ c[i - 1].st > k.st
  <2> TAKE i \in 0..n
  <2>1. CASE i < p
    BY <1>2, <2>1
  <2>2. CASE i > p
    <3>1. i - 1 \in p..(n - 1) /\ (i - 1) + 1 = i
      BY <1>2, <2>2
    <3>2. d[(i - 1) + 1] = c[i - 1] /\ c[i - 1].st > k.st
      BY <3>1
    <3> QED BY <1>2, <2>2, <3>1, <3>2
  <2>3. CASE i = p
    BY <2>3
  <2> QED BY <1>2, <2>1, <2>2, <2>3
<1>5. ASSUME NEW i \in 0..n, NEW j \in 0..n, i < j PROVE d[i].st < d[j].st
  <2>1. k.st \in Nat
    BY KlineType
  <2>2. CASE j < p
    <3>1. i < p /\ i \in 0..(n - 1) /\ j \in 0..(n - 1)
      BY <1>2, <1>5, <2>2
    <3> QED BY <1>1, <1>4, <1>5, <2>2, <3>1
  <2>3. CASE j = p
    <3>1. i < p
      BY <1>5, <2>3
    <3> QED BY <1>4, <2>3, <3>1
  <2>4. CASE j > p
    <3>1. j - 1 \in 0..(n - 1) /\ d[j] = c[j - 1] /\ c[j - 1].st > k.st
      BY <1>2, <1>4, <2>4
    <3>2. CASE i < p
      <4>1. i \in 0..(n - 1) /\ d[i] = c[i] /\ c[i].st < k.st
        BY <1>2, <1>4, <3>2
      <4> QED BY <1>3, <2>1, <3>1, <4>1
    <3>3. CASE i = p
      BY <3>1, <3>3
    <3>4. CASE i > p
      <4>1. i - 1 \in 0..(n - 1) /\ d[i] = c[i - 1] /\ i - 1 < j - 1
        BY <1>2, <1>4, <1>5, <3>4
      <4> QED BY <1>1, <3>1, <4>1
    <3> QED BY <1>2, <3>2, <3>3, <3>4
  <2> QED BY <1>2, <2>2, <2>3, <2>4
<1>6. ASSUME NEW i \in 0..n PROVE d[i] \in Upserted(B, k)
  <2>0. k.st \in Nat
    BY KlineType
  <2>1. CASE i = p
    BY <2>1 DEF Upserted
  <2>2. CASE i < p
    <3>1. i \in 0..(n - 1) /\ d[i] = c[i] /\ c[i].st < k.st
      BY <1>2, <1>4, <2>2
    <3>2. c[i] \in B /\ c[i].st # k.st
      BY <1>1, <1>3, <2>0, <3>1
    <3> QED BY <3>1, <3>2 DEF Upserted
  <2>3. CASE i > p
    <3>1. i - 1 \in 0..(n - 1) /\ d[i] = c[i - 1] /\ c[i - 1].st > k.st
      BY <1>2, <1>4, <2>3
    <3>2. c[i - 1] \in B /\ c[i - 1].st # k.st
      BY <1>1, <1>3, <2>0, <3>1
    <3> QED BY <3>1, <3>2 DEF Upserted
  <2> QED BY <1>2, <2>1, <2>2, <2>3
<1>7. ASSUME NEW x \in Upserted(B, k)
      PROVE  \/ \E i \in 0..n : d[i] = x
             \/ n + 1 >= MaxItems /\ d[(n + 1) - MaxItems].st > x.st
  <2>1. CASE x = k
    BY <2>1
  <2>2. CASE x # k
    <3>1. x \in B /\ x.st # k.st
      BY <2>2 DEF Upserted
    <3>2. ASSUME NEW i \in 0..(n - 1), c[i] = x PROVE \E j \in 0..n : d[j] = x
      <4>1. CASE i < p
        <5>1. i \in 0..n
          OBVIOUS
        <5> QED BY <1>4, <3>2, <4>1, <5>1
      <4>2. CASE ~(i < p)
        <5>1. i + 1 \in 0..n /\ i \in p..(n - 1)
          BY <1>2, <4>2
        <5>2. d[i + 1] = x
          BY <3>2, <5>1
        <5> QED BY <5>1, <5>2
      <4> QED BY <4>1, <4>2
    <3>3. CASE n >= MaxItems /\ c[n - MaxItems].st > x.st
      <4> DEFINE m == n - MaxItems
      <4>1. /\ m \in 0..(n - 1) /\ m + 1 \in 0..n /\ (n + 1) - MaxItems = m + 1
            /\ n + 1 >= MaxItems /\ m \in Nat
        BY <3>3, SizeType
      <4> HIDE DEF m
      <4>2. c[m].st > x.st /\ c[m].st \in Nat /\ x.st \in Nat /\ k.st \in Nat
        BY <1>1, <1>3, <3>1, <3>3, <4>1, KlineType DEF m
      <4>3. d[m + 1].st > x.st
        <5>1. CASE m < p
          <6>1. d[m] = c[m]
            <7>1. m \in 0..n
              BY <4>1
            <7> QED BY <1>4, <5>1, <7>1
          <6>2. d[m].st < d[m + 1].st
            <7>1. m \in 0..n /\ m + 1 \in 0..n /\ m < m + 1
              BY <4>1
            <7> QED BY <1>5, <7>1
          <6>3. d[m + 1].st \in Nat
            BY <4>1, KlineType
          <6> QED BY <4>2, <6>1, <6>2, <6>3
        <5>2. CASE ~(m < p)
          <6>1. m \in p..(n - 1)
            BY <1>2, <4>1, <5>2
          <6> QED BY <4>2, <6>1
        <5> QED BY <5>1, <5>2
      <4> QED BY <4>1, <4>3
    <3> QED BY <1>1, <3>1, <3>2, <3>3
  <2> QED BY <2>1, <2>2
<1>8. Upserted(B, k) \subseteq Kline /\ IsFiniteSet(Upserted(B, k))
  BY <1>1, UpsertedType
<1> QED BY <1>2, <1>5, <1>6, <1>7, <1>8 DEF Stands

(* Only the newest MaxItems klines are kept. *)
LEMMA NewestKept ==
    ASSUME NEW n \in Nat, NEW c, NEW B, Stands(c, n, B), n > MaxItems,
           NEW d \in [0..(MaxItems - 1) -> Kline],
           \A i \in 0..(MaxItems - 1) : d[i] = c[(n - MaxItems) + i]
    PROVE  Stands(d, MaxItems, B)
<1> DEFINE m == n - MaxItems
<1>1. /\ c \in [0..(n - 1) -> Kline] /\ B \subseteq Kline /\ IsFiniteSet(B)
      /\ \A i, j \in 0..(n - 1) : i < j => c[i].st < c[j].st
      /\ \A i \in 0..(n - 1) : c[i] \in B
      /\ \A x \in B : \/ \E i \in 0..(n - 1) : c[i] = x
                      \/ n >= MaxItems /\ c[m].st > x.st
  BY DEF Stands
<1>2. /\ m \in Nat /\ m > 0 /\ m \in 0..(n - 1) /\ m + MaxItems = n
      /\ \A i \in 0..(MaxItems - 1) : m + i \in 0..(n - 1)
      /\ 0 \in 0..(MaxItems - 1) /\ m + 0 = m /\ MaxItems - MaxItems = 0
      /\ MaxItems >= MaxItems
  BY SizeType
<1>3. \A i \in 0..(MaxItems - 1) : d[i] = c[m + i]
  OBVIOUS
<1> HIDE DEF m
<1>4. ASSUME NEW i \in 0..(MaxItems - 1), NEW j \in 0..(MaxItems - 1), i < j
      PROVE  d[i].st < d[j].st
  <2>1. m + i < m + j
    BY <1>2, <1>4
  <2> QED BY <1>1, <1>2, <1>3, <2>1
<1>5. ASSUME NEW x \in B
      PROVE  \/ \E i \in 0..(MaxItems - 1) : d[i] = x
             \/ d[0].st > x.st
  <2>1. d[0] = c[m]
    BY <1>2, <1>3
  <2>2. ASSUME NEW i \in 0..(n - 1), c[i] = x
        PROVE  (\E j \in 0..(MaxItems - 1) : d[j] = x) \/ d[0].st > x.st
    <3>1. CASE i < m
      <4>1. c[i].st < c[m].st /\ c[i].st \in Nat /\ c[m].st \in Nat
        BY <1>1, <1>2, <3>1, KlineType
      <4> QED BY <2>1, <2>2, <4>1
    <3>2. CASE ~(i < m)
      <4>1. i - m \in 0..(MaxItems - 1) /\ m + (i - m) = i
        BY <1>2, <3>2, SizeType
      <4>2. d[i - m] = x
        BY <1>3, <2>2, <4>1
      <4> QED BY <4>1, <4>2
    <3> QED BY <3>1, <3>2
  <2> QED BY <1>1, <2>1, <2>2
<1>6. \A i \in 0..(MaxItems - 1) : d[i] \in B
  BY <1>1, <1>2, <1>3
<1> QED BY <1>1, <1>2, <1>4, <1>5, <1>6 DEF Stands

(* A row of at most MaxItems klines is the newest MaxItems of all. *)
LEMMA StandsNewest ==
    ASSUME NEW n \in Nat, n <= MaxItems, NEW c, NEW B, Stands(c, n, B)
    PROVE  {c[i] : i \in 0..(n - 1)} = Newest(B)
<1> DEFINE C == {c[i] : i \in 0..(n - 1)}
           G(y) == {x \in B : x.st > y.st}
<1>1. /\ c \in [0..(n - 1) -> Kline] /\ B \subseteq Kline /\ IsFiniteSet(B)
      /\ \A i, j \in 0..(n - 1) : i < j => c[i].st < c[j].st
      /\ \A i \in 0..(n - 1) : c[i] \in B
      /\ \A x \in B : \/ \E i \in 0..(n - 1) : c[i] = x
                      \/ n >= MaxItems /\ c[n - MaxItems].st > x.st
  BY DEF Stands
<1>2. \A i \in 0..(n - 1) : c[i].st \in Nat
  BY <1>1, KlineType
<1>3. \A x \in B : x.st \in Nat
  BY <1>1, KlineType
<1>4. \A x \in B \ C : n = MaxItems /\ \A i \in 0..(n - 1) : c[i].st > x.st
  <2> TAKE x \in B \ C
  <2>1. n >= MaxItems /\ c[n - MaxItems].st > x.st
    BY <1>1
  <2>2. n = MaxItems /\ n - MaxItems = 0 /\ 0 \in 0..(n - 1)
    BY <2>1, SizeType
  <2>3. ASSUME NEW i \in 0..(n - 1) PROVE c[i].st > x.st
    <3>1. i = 0 \/ 0 < i
      OBVIOUS
    <3>2. c[0].st > x.st /\ c[0].st \in Nat /\ c[i].st \in Nat /\ x.st \in Nat
      BY <1>2, <1>3, <2>1, <2>2
    <3>3. i = 0 \/ c[0].st < c[i].st
      BY <1>1, <2>2, <3>1
    <3> QED BY <3>2, <3>3
  <2> QED BY <2>2, <2>3
<1>5. ASSUME NEW i \in 0..(n - 1) PROVE Cardinality(G(c[i])) < MaxItems
  <2> DEFINE J == (i + 1)..(n - 1)
             f == [j \in J |-> c[j]]
  <2>1. IsFiniteSet(J) /\ Cardinality(J) <= n - 1 - i /\ Cardinality(J) \in Nat
    <3>1. i + 1 \in Int /\ n - 1 \in Int
      OBVIOUS
    <3>2. IsFiniteSet(J) /\ Cardinality(J) = IF i + 1 > n - 1 THEN 0 ELSE (n - 1) - (i + 1) + 1
      BY <3>1, FS_Interval
    <3> QED BY <3>2
  <2>2. G(c[i]) \subseteq {c[j] : j \in J}
    <3> SUFFICES ASSUME NEW x \in B, x.st > c[i].st PROVE x \in {c[j] : j \in J}
      OBVIOUS
    <3>1. CASE x \in C
      <4>1. PICK j \in 0..(n - 1) : x = c[j]
        BY <3>1
      <4>2. ASSUME ~(j > i) PROVE FALSE
        <5>1. j = i \/ j < i
          BY <4>2
        <5>2. c[j].st <= c[i].st
          BY <1>1, <1>2, <5>1
        <5> QED BY <1>2, <4>1, <5>2
      <4>3. j \in J
        BY <4>2
      <4> QED BY <4>1, <4>3
    <3>2. CASE x \notin C
      <4>1. c[i].st > x.st
        BY <1>4, <3>2
      <4> QED BY <1>2, <1>3, <4>1
    <3> QED BY <3>1, <3>2
  <2>3. /\ IsFiniteSet({c[j] : j \in J})
        /\ Cardinality({c[j] : j \in J}) <= Cardinality(J)
    <3>1. f \in Surjection(J, {c[j] : j \in J})
      BY DEF Surjection
    <3> HIDE DEF f, J
    <3> QED BY <2>1, <3>1, FS_Surjection
  <2>4. /\ Cardinality(G(c[i])) <= Cardinality({c[j] : j \in J})
        /\ Cardinality(G(c[i])) \in Nat /\ Cardinality({c[j] : j \in J}) \in Nat
    <3>1. IsFiniteSet(G(c[i])) /\ Cardinality(G(c[i])) <= Cardinality({c[j] : j \in J})
      <4> HIDE DEF G, J
      <4> QED BY <2>2, <2>3, FS_Subset
    <3> QED BY <2>3, <3>1, FS_CardinalityType
  <2> HIDE DEF G, J
  <2>5. Cardinality(G(c[i])) <= n - 1 - i
    BY <2>1, <2>3, <2>4
  <2> QED BY <2>4, <2>5, SizeType
<1>6. ASSUME NEW y \in B \ C PROVE ~(Cardinality(G(y)) < MaxItems)
  <2> DEFINE J == 0..(n - 1)
  <2>1. n = MaxItems /\ IsFiniteSet(J) /\ Cardinality(J) = n
    <3>1. n = MaxItems
      BY <1>4
    <3>2. IsFiniteSet(J) /\ Cardinality(J) = IF 0 > n - 1 THEN 0 ELSE (n - 1) - 0 + 1
      BY FS_Interval
    <3> QED BY <3>1, <3>2, SizeType
  <2>2. c \in Injection(J, G(y))
    <3>1. c \in [J -> G(y)]
      BY <1>1, <1>4
    <3>2. ASSUME NEW i \in J, NEW j \in J, c[i] = c[j] PROVE i = j
      <4>1. ~(i < j) /\ ~(j < i)
        BY <1>1, <1>2, <3>2
      <4> QED BY <4>1
    <3> HIDE DEF G, J
    <3> QED BY <3>1, <3>2 DEF Injection, IsInjective
  <2>3. IsFiniteSet(G(y))
    BY <1>1, FS_Subset
  <2> HIDE DEF G, J
  <2>4. Cardinality(J) <= Cardinality(G(y)) /\ Cardinality(G(y)) \in Nat
    BY <2>2, <2>3, FS_Injection, FS_CardinalityType
  <2> QED BY <2>1, <2>4
<1>7. C \subseteq B
  BY <1>1
<1> QED BY <1>5, <1>6, <1>7 DEF Newest

-----------------------------------------------------------------------------
(* One putter *)

(* The cells of a slice without the one at the gap. *)
Reads(h, s, gap, n) == [i \in 0..(n - 1) |-> At(h, s, IF i < gap THEN i ELSE i + 1)]

(* The cells of a slice are klines. *)
Whole(h, s) == \A i \in 0..(s.len - 1) : At(h, s, i) \in Kline

(* Of the slice r, s reaches into the first n cells at most. *)
Within(s, r, n) == s.arr = r.arr => s.off + s.len <= r.off + n

(* What is read: the entry, and the slices of the gets. *)
HeldInv ==
    /\ \A e \in entry : Whole(heap, e)
    /\ \A g \in Getters : pc[g] # "idle" =>
          Whole(heap, view[g]) /\ \A e \in entry : Within(view[g], e, e.len)

(* What a get has taken, and will take, starts before the end of its range. *)
TakenInv(g) ==
    /\ pc[g] # "panic"
    /\ \A i \in DOMAIN out[g] : out[g][i] \in Kline /\ out[g][i].st < ask[g].to
    /\ pc[g] \in {"scan", "copy"} => \A i \in 0..(view[g].len - 1) :
          lo[g] + Len(out[g]) <= i /\ i < hi[g] => At(heap, view[g], i).st < ask[g].to

(* A put keeps its klines in order; while it inserts, without the gap. *)
Gap(p) == IF pc[p] = "insert" THEN hi[p] ELSE view[p].len
Size(p) == IF pc[p] = "insert" THEN view[p].len - 1 ELSE view[p].len
Row(p) == Reads(heap, view[p], Gap(p), Size(p))

AtWork(p) ==
    /\ Stands(Row(p), Size(p), based[p])
    /\ \A e \in entry : Within(e, view[p], Size(p))
    /\ \A g \in Getters : pc[g] # "idle" => Within(view[g], view[p], Size(p))

PutInv(p) ==
    /\ pc[p] # "panic"
    /\ pc[p] # "idle" => AtWork(p)
    /\ pc[p] = "search" => \A i \in 0..(Size(p) - 1) :
          /\ i < lo[p] => Row(p)[i].st < Head(todo[p]).st
          /\ i >= hi[p] => Row(p)[i].st >= Head(todo[p]).st
    /\ pc[p] = "insert" =>
          /\ \A i \in 0..(Size(p) - 1) : /\ i < lo[p] => Row(p)[i].st < Head(todo[p]).st
                                         /\ i >= lo[p] => Row(p)[i].st > Head(todo[p]).st
          /\ hi[p] < Size(p) => At(heap, view[p], hi[p]) = Row(p)[hi[p]]

(* One put is under way at most. *)
Single == \A p, q \in Putters : pc[p] # "idle" /\ pc[q] # "idle" => p = q

(* Between puts the entry stands for the klines put. *)
Settled ==
    (\A p \in Putters : pc[p] = "idle") =>
        \A e \in entry : Stands(Reads(heap, e, e.len, e.len), e.len, known)

CacheInv ==
    /\ Shape /\ HeldInv /\ based \in [Putters -> SUBSET Kline]
    /\ \A g \in Getters : TakenInv(g)
    /\ \A p \in Putters : PutInv(p)
    /\ Single /\ Settled

(* What is read only gets older under the readers. *)
Held(s) == s \in entry \/ \E g \in Getters : pc[g] # "idle" /\ s = view[g]

Ages == \A s \in Slice : Held(s) =>
            \A i \in 0..(s.len - 1) : /\ At(heap', s, i) \in Kline
                                      /\ At(heap', s, i).st <= At(heap, s, i).st

(* The slices that are read. *)
LEMMA HeldSlices ==
    ASSUME Shape
    PROVE  /\ \A e \in entry : e \in Slice /\ Held(e) /\ e.off + e.len <= Len(heap[e.arr])
           /\ \A g \in Getters : pc[g] # "idle" =>
                 /\ view[g] \in Slice /\ Held(view[g])
                 /\ view[g].off + view[g].len <= Len(heap[view[g].arr])
<1>1. \A g \in Getters : g \in Procs
  BY ProcsParts
<1> QED BY <1>1 DEF Shape, ShapeOf, Held

LEMMA HeldWhole ==
    ASSUME Shape, HeldInv, NEW s \in Slice, Held(s)
    PROVE  Whole(heap, s) /\ s.off + s.len <= Len(heap[s.arr])
  BY HeldSlices DEF HeldInv, Held

(* As long as no getter moves, the entry stays and what is read only gets older, the
   reads are as they were. *)
LEMMA ReadsKept ==
    ASSUME CacheInv, Shape', Ages, UNCHANGED <<entry, ask, out>>,
           \A g \in Getters : /\ pc'[g] = pc[g] /\ view'[g] = view[g]
                              /\ lo'[g] = lo[g] /\ hi'[g] = hi[g]
    PROVE  HeldInv' /\ \A g \in Getters : TakenInv(g)'
<1>0. Shape /\ HeldInv
  BY DEF CacheInv
<1>1. ASSUME NEW e \in entry PROVE Whole(heap', e)
  BY <1>0, HeldSlices DEF Ages, Whole
<1>2. ASSUME NEW g \in Getters, pc[g] # "idle"
      PROVE  Whole(heap', view[g]) /\ \A e \in entry : Within(view[g], e, e.len)
  <2>1. view[g] \in Slice /\ Held(view[g])
    BY <1>0, <1>2, HeldSlices
  <2>2. Whole(heap', view[g])
    BY <2>1 DEF Ages, Whole
  <2> QED BY <1>0, <1>2, <2>2 DEF HeldInv
<1>3. HeldInv'
  <2>1. \A e \in entry' : Whole(heap', e)
    BY <1>1
  <2>2. ASSUME NEW g \in Getters, pc'[g] # "idle"
        PROVE  Whole(heap', view'[g]) /\ \A e \in entry' : Within(view'[g], e, e.len)
    <3>1. pc[g] # "idle" /\ view'[g] = view[g]
      BY <2>2
    <3> QED BY <1>2, <3>1
  <2> QED BY <2>1, <2>2 DEF HeldInv
<1>4. ASSUME NEW g \in Getters PROVE TakenInv(g)'
  <2>0. TakenInv(g)
    BY DEF CacheInv
  <2>1. /\ pc'[g] = pc[g] /\ view'[g] = view[g] /\ lo'[g] = lo[g] /\ hi'[g] = hi[g]
        /\ out'[g] = out[g] /\ ask'[g] = ask[g]
    OBVIOUS
  <2>2. /\ pc'[g] # "panic"
        /\ \A i \in DOMAIN out'[g] : out'[g][i] \in Kline /\ out'[g][i].st < ask'[g].to
    BY <2>0, <2>1 DEF TakenInv
  <2>3. ASSUME pc'[g] \in {"scan", "copy"}, NEW i \in 0..(view'[g].len - 1),
               lo'[g] + Len(out'[g]) <= i, i < hi'[g]
        PROVE  At(heap', view'[g], i).st < ask'[g].to
    <3>1. /\ pc[g] # "idle" /\ pc[g] \in {"scan", "copy"} /\ i \in 0..(view[g].len - 1)
          /\ lo[g] + Len(out[g]) <= i /\ i < hi[g]
      BY <2>1, <2>3
    <3>2. view[g] \in Slice /\ Held(view[g]) /\ Whole(heap, view[g])
      BY <1>0, <3>1, HeldSlices, HeldWhole
    <3>3. At(heap, view[g], i).st < ask[g].to
      BY <2>0, <3>1 DEF TakenInv
    <3>4. /\ At(heap', view[g], i) \in Kline /\ At(heap, view[g], i) \in Kline
          /\ At(heap', view[g], i).st <= At(heap, view[g], i).st
      BY <3>1, <3>2 DEF Ages, Whole
    <3>5. /\ At(heap', view[g], i).st \in Nat /\ At(heap, view[g], i).st \in Nat
          /\ ask[g].to \in Nat
      <4>1. ask[g] \in Asks /\ Asks \subseteq [from : Nat, to : Nat, limit : Nat]
        BY <1>0, CacheAssumption DEF Shape
      <4> QED BY <3>4, <4>1, KlineType
    <3>6. At(heap', view[g], i).st < ask[g].to
      <4> DEFINE a == At(heap', view[g], i).st
                 b == At(heap, view[g], i).st
      <4>1. a \in Nat /\ b \in Nat /\ a <= b /\ b < ask[g].to
        BY <3>3, <3>4, <3>5
      <4> HIDE DEF a, b
      <4>2. a < ask[g].to
        BY <3>5, <4>1
      <4> QED BY <4>2 DEF a
    <3> QED BY <2>1, <3>6
  <2> QED BY <2>2, <2>3 DEF TakenInv
<1> QED BY <1>3, <1>4

(* A kline that is not newer than the cell it is written over. *)
LEMMA WriteAges ==
    ASSUME CacheInv, NEW p \in Putters, pc[p] # "idle",
           NEW i \in Nat, i < view[p].len, NEW k \in Kline, heap' = Written(view[p], i, k),
           i < Size(p) => k.st <= At(heap, view[p], i).st
    PROVE  Ages
<1>0. Shape /\ HeldInv /\ AtWork(p) /\ p \in Procs
  BY ProcsParts DEF CacheInv, PutInv
<1>1. /\ view[p] \in Slice /\ view[p].len \in Nat /\ view[p].off \in Nat
      /\ view[p].arr \in Arrays /\ Len(heap[view[p].arr]) \in Nat
      /\ view[p].off + view[p].len <= Len(heap[view[p].arr])
  BY <1>0, SliceType DEF Shape, ShapeOf
<1>2. view[p].off + i < Len(heap[view[p].arr])
  BY <1>1, SMTT(20)
<1>3. \A r \in Slice, j \in Nat : r.off + j < Len(heap[r.arr]) =>
         At(heap', r, j) = IF r.arr = view[p].arr /\ r.off + j = view[p].off + i THEN k
                           ELSE At(heap, r, j)
  <2>1. k \in Kline \cup {Nil}
    OBVIOUS
  <2> DEFINE v == view[p]
  <2>2. v \in Slice /\ v.off + i < Len(heap[v.arr]) /\ heap' = Written(v, i, k)
    BY <1>1, <1>2
  <2> HIDE DEF v
  <2>3. \A r \in Slice, j \in Nat : r.off + j < Len(heap[r.arr]) =>
           At(heap', r, j) = IF r.arr = v.arr /\ r.off + j = v.off + i THEN k
                             ELSE At(heap, r, j)
    BY <1>0, <2>1, <2>2, CellWritten
  <2> QED BY <2>3 DEF v
<1>4. Size(p) \in Int /\ Size(p) <= view[p].len
  BY <1>1 DEF Size
<1>5. SUFFICES ASSUME NEW s \in Slice, Held(s), NEW j \in 0..(s.len - 1)
               PROVE  /\ At(heap', s, j) \in Kline
                      /\ At(heap', s, j).st <= At(heap, s, j).st
  BY DEF Ages
<1>6. /\ s.len \in Nat /\ s.off \in Nat /\ j \in Nat /\ j < s.len
      /\ s.off + s.len <= Len(heap[s.arr]) /\ At(heap, s, j) \in Kline
      /\ Len(heap[s.arr]) \in Nat
  <2>1. s.len \in Nat /\ s.off \in Nat /\ s.arr \in Arrays
    BY SliceType
  <2>2. Whole(heap, s) /\ s.off + s.len <= Len(heap[s.arr])
    BY <1>0, <1>5, HeldWhole
  <2>3. Len(heap[s.arr]) \in Nat
    BY <1>0, <2>1 DEF Shape
  <2> QED BY <2>1, <2>2, <2>3 DEF Whole
<1>7. s.off + j < Len(heap[s.arr])
  BY <1>6, SMTT(20)
<1>8. CASE ~(s.arr = view[p].arr /\ s.off + j = view[p].off + i)
  <2>1. At(heap', s, j) = At(heap, s, j)
    BY <1>3, <1>6, <1>7, <1>8
  <2> QED BY <1>6, <2>1, KlineType
<1>9. CASE s.arr = view[p].arr /\ s.off + j = view[p].off + i
  <2>1. At(heap', s, j) = k
    BY <1>3, <1>6, <1>7, <1>9
  <2>2. s.off + s.len <= view[p].off + Size(p)
    BY <1>0, <1>5, <1>9 DEF AtWork, Held, Within
  <2>3. i < Size(p)
    BY <1>1, <1>4, <1>6, <1>9, <2>2, SMTT(20)
  <2>4. At(heap, s, j) = At(heap, view[p], i)
    BY <1>1, <1>6, <1>9 DEF At
  <2> QED BY <2>1, <2>3, <2>4
<1> QED BY <1>8, <1>9

-----------------------------------------------------------------------------
(* The invariant is kept *)

LEMMA ReadsAll ==
    \A h, s : \A n \in Nat : \A i \in 0..(n - 1) : Reads(h, s, n, n)[i] = At(h, s, i)
  BY DEF Reads

(* What a putter at work has in its slice. *)
LEMMA AtWorkParts ==
    ASSUME CacheInv, NEW p \in Putters, pc[p] # "idle"
    PROVE  /\ Shape /\ HeldInv /\ p \in Procs /\ p \notin Getters
           /\ Stands(Row(p), Size(p), based[p])
           /\ \A e \in entry : Within(e, view[p], Size(p))
           /\ \A g \in Getters : pc[g] # "idle" => Within(view[g], view[p], Size(p))
           /\ view[p] \in Slice /\ view[p].len \in Nat /\ view[p].off \in Nat
           /\ view[p].arr \in Arrays /\ Len(heap[view[p].arr]) \in Nat
           /\ view[p].off + view[p].len <= Len(heap[view[p].arr])
           /\ lo[p] \in Nat /\ hi[p] \in Nat
           /\ pc[p] # "insert" => Size(p) = view[p].len /\ Gap(p) = view[p].len
           /\ pc[p] = "insert" => Size(p) = view[p].len - 1 /\ Gap(p) = hi[p]
           /\ Row(p) = Reads(heap, view[p], Gap(p), Size(p))
<1>0. Shape /\ HeldInv /\ AtWork(p) /\ p \in Procs /\ p \notin Getters
  BY ProcsParts DEF CacheInv, PutInv
<1>1. /\ view[p] \in Slice /\ view[p].len \in Nat /\ view[p].off \in Nat
      /\ view[p].arr \in Arrays /\ Len(heap[view[p].arr]) \in Nat
      /\ view[p].off + view[p].len <= Len(heap[view[p].arr])
      /\ lo[p] \in Nat /\ hi[p] \in Nat
  BY <1>0, SliceType DEF Shape, ShapeOf
<1> QED BY <1>0, <1>1 DEF AtWork, Gap, Size, Row

(* The state of a putter that is at work after a step. *)
LEMMA WorkGoesOn ==
    ASSUME NEW p \in Putters, UNCHANGED entry,
           \A g \in Getters : pc'[g] = pc[g] /\ view'[g] = view[g],
           NEW step \in {"search", "insert", "set"}, pc'[p] = step,
           NEW s \in Slice, view'[p] = s,
           NEW l \in Nat, lo'[p] = l, NEW u \in Nat, hi'[p] = u,
           NEW B, based'[p] = B, NEW t, step # "set" => Head(todo'[p]).st = t,
           NEW n, n = IF step = "insert" THEN s.len - 1 ELSE s.len,
           NEW c, c = Reads(heap', s, IF step = "insert" THEN u ELSE s.len, n),
           Stands(c, n, B),
           \A e \in entry : Within(e, s, n),
           \A g \in Getters : pc[g] # "idle" => Within(view[g], s, n),
           step = "search" => \A i \in 0..(n - 1) : /\ i < l => c[i].st < t
                                                    /\ i >= u => c[i].st >= t,
           step = "insert" => /\ \A i \in 0..(n - 1) : /\ i < l => c[i].st < t
                                                       /\ i >= l => c[i].st > t
                              /\ u < n => At(heap', s, u) = c[u]
    PROVE  PutInv(p)'
<1>1. /\ Size(p)' = n /\ Row(p)' = c
  BY DEF Size, Gap, Row
<1>2. AtWork(p)'
  BY <1>1 DEF AtWork
<1>3. pc'[p] # "panic" /\ pc'[p] # "idle"
  OBVIOUS
<1>4. pc'[p] = "search" => \A i \in 0..(Size(p)' - 1) :
          /\ i < lo'[p] => Row(p)'[i].st < Head(todo'[p]).st
          /\ i >= hi'[p] => Row(p)'[i].st >= Head(todo'[p]).st
  BY <1>1
<1>5. pc'[p] = "insert" =>
          /\ \A i \in 0..(Size(p)' - 1) : /\ i < lo'[p] => Row(p)'[i].st < Head(todo'[p]).st
                                          /\ i >= lo'[p] => Row(p)'[i].st > Head(todo'[p]).st
          /\ hi'[p] < Size(p)' => At(heap', view'[p], hi'[p]) = Row(p)'[hi'[p]]
  BY <1>1
<1> QED BY <1>2, <1>3, <1>4, <1>5 DEF PutInv

(* The next kline, or the end of put: the slice stands for one kline more. *)
LEMMA AdvanceKept ==
    ASSUME CacheInv, NEW p \in Putters, pc[p] # "idle", todo[p] # <<>>, Advance(p),
           UNCHANGED <<entry, view>>,
           NEW c, c = Reads(heap', view[p], view[p].len, view[p].len),
           Stands(c, view[p].len, Upserted(based[p], Head(todo[p])))
    PROVE  /\ PutInv(p)' /\ based' \in [Putters -> SUBSET Kline]
           /\ \A g \in Getters : pc'[g] = pc[g] /\ lo'[g] = lo[g] /\ hi'[g] = hi[g]
           /\ pc'[p] # "idle" /\ \A q \in Putters \ {p} : pc'[q] = pc[q]
<1>0. Shape /\ p \in Procs /\ p \notin Getters
  BY AtWorkParts
<1>1. /\ Head(todo[p]) \in Kline
      /\ todo' = [todo EXCEPT ![p] = Tail(todo[p])]
      /\ based' = [based EXCEPT ![p] = Upserted(based[p], Head(todo[p]))]
      /\ lo' = [lo EXCEPT ![p] = 0] /\ hi' = [hi EXCEPT ![p] = view[p].len]
      /\ \/ pc' = [pc EXCEPT ![p] = "set"]
         \/ pc' = [pc EXCEPT ![p] = "search"] /\ Tail(todo[p]) # <<>>
  BY <1>0, AdvanceOutcome
<1>2. ASSUME NEW g \in Getters PROVE pc'[g] = pc[g] /\ lo'[g] = lo[g] /\ hi'[g] = hi[g]
  <2>1. g # p /\ g \in Procs
    BY <1>0, ProcsParts
  <2>2. DOMAIN pc = Procs /\ DOMAIN lo = Procs /\ DOMAIN hi = Procs
    BY <1>0 DEF Shape
  <2> QED BY <1>1, <2>1, <2>2
<1>3. PICK step \in {"search", "set"} : pc' = [pc EXCEPT ![p] = step]
  BY <1>1
<1> DEFINE B == Upserted(based[p], Head(todo[p]))
           s == view[p]
           n == view[p].len
           t == Head(todo'[p]).st
<1>4. /\ pc'[p] = step /\ view'[p] = s /\ lo'[p] = 0 /\ hi'[p] = n
      /\ step \in {"search", "insert", "set"}
  BY <1>0, <1>1, <1>3 DEF Shape
<1>5. based'[p] = B /\ based' \in [Putters -> SUBSET Kline]
  <2>1. based \in [Putters -> SUBSET Kline] /\ based' = [based EXCEPT ![p] = B]
    BY <1>1 DEF CacheInv
  <2>2. B \subseteq Kline
    BY <1>1, <2>1 DEF Upserted
  <2> HIDE DEF B
  <2> QED BY <2>1, <2>2
<1>6. /\ s \in Slice /\ n \in Nat /\ 0 \in Nat /\ step # "insert"
      /\ n = IF step = "insert" THEN s.len - 1 ELSE s.len
      /\ c = Reads(heap', s, IF step = "insert" THEN n ELSE s.len, n)
      /\ Stands(c, n, B)
  BY <1>3, AtWorkParts
<1>7. /\ \A e \in entry : Within(e, s, n)
      /\ \A g \in Getters : pc[g] # "idle" => Within(view[g], s, n)
  <2>1. Size(p) <= n /\ s.off + Size(p) <= s.off + n /\ Size(p) \in Int /\ s.off \in Nat
    BY AtWorkParts
  <2>2. ASSUME NEW r \in Slice, Within(r, s, Size(p)) PROVE Within(r, s, n)
    <3>1. r.off \in Nat /\ r.len \in Nat
      BY SliceType
    <3>2. n \in Nat
      BY <1>6
    <3> HIDE DEF s, n
    <3>3. \A x \in Nat : x <= s.off + Size(p) => x <= s.off + n
      BY <2>1, <3>2
    <3>4. r.off + r.len \in Nat
      BY <3>1
    <3> QED BY <2>2, <3>3, <3>4 DEF Within
  <2> HIDE DEF s, n
  <2>3. \A e \in entry : e \in Slice
    BY <1>0 DEF Shape
  <2>4. \A g \in Getters : view[g] \in Slice
    BY <1>0, ProcsParts DEF Shape
  <2>5. /\ \A e \in entry : Within(e, s, Size(p))
        /\ \A g \in Getters : pc[g] # "idle" => Within(view[g], s, Size(p))
    BY AtWorkParts DEF s
  <2> QED BY <2>2, <2>3, <2>4, <2>5
<1>8. \A g \in Getters : pc'[g] = pc[g] /\ view'[g] = view[g]
  BY <1>2
<1>9. \A i \in 0..(n - 1) : (i < 0 => c[i].st < t) /\ (i >= n => c[i].st >= t)
  BY <1>6
<1> HIDE DEF B, s, n, t
<1>10. step # "set" => Head(todo'[p]).st = t
  BY DEF t
<1>11. PutInv(p)'
  BY <1>4, <1>5, <1>6, <1>7, <1>8, <1>9, <1>10, WorkGoesOn
<1>12. pc'[p] # "idle" /\ \A q \in Putters \ {p} : pc'[q] = pc[q]
  BY <1>0, <1>3, <1>4, ProcsParts DEF Shape
<1> QED BY <1>2, <1>5, <1>11, <1>12

(* A put goes on, the only one under way. *)
LEMMA PutterKeeps ==
    ASSUME CacheInv, Shape', NEW p \in Putters, Ages, UNCHANGED <<entry, ask, out>>,
           pc[p] # "idle" \/ \A q \in Putters : pc[q] = "idle",
           pc'[p] # "idle" /\ \A q \in Putters \ {p} : pc'[q] = pc[q],
           \A g \in Getters : /\ pc'[g] = pc[g] /\ view'[g] = view[g]
                              /\ lo'[g] = lo[g] /\ hi'[g] = hi[g],
           PutInv(p)', based' \in [Putters -> SUBSET Kline]
    PROVE  CacheInv'
<1>1. HeldInv' /\ \A g \in Getters : TakenInv(g)'
  BY ReadsKept
<1>2. ASSUME NEW q \in Putters, q # p PROVE pc'[q] = "idle"
  BY <1>2 DEF CacheInv, Single
<1>3. \A q \in Putters : PutInv(q)'
  BY <1>2 DEF PutInv
<1>4. Single' /\ Settled'
  BY <1>2 DEF Single, Settled
<1> QED BY <1>1, <1>3, <1>4 DEF CacheInv

(* Nothing is written. *)
LEMMA SameAges ==
    ASSUME CacheInv, UNCHANGED heap
    PROVE  Ages
<1> SUFFICES ASSUME NEW s \in Slice, Held(s), NEW i \in 0..(s.len - 1)
             PROVE  /\ At(heap', s, i) \in Kline /\ At(heap', s, i).st <= At(heap, s, i).st
  BY DEF Ages
<1>1. Shape /\ HeldInv
  BY DEF CacheInv
<1>2. At(heap', s, i) = At(heap, s, i)
  BY DEF At
<1>3. At(heap, s, i) \in Kline
  BY <1>1, HeldWhole DEF Whole
<1> QED BY <1>2, <1>3, KlineType

-----------------------------------------------------------------------------
(* The steps of a putter *)

LEMMA OthersOf ==
    ASSUME Shape, NEW p \in Putters,
           NEW step, pc' = [pc EXCEPT ![p] = step] \/ pc' = pc,
           NEW s, view' = [view EXCEPT ![p] = s] \/ view' = view,
           NEW l, lo' = [lo EXCEPT ![p] = l] \/ lo' = lo,
           NEW u, hi' = [hi EXCEPT ![p] = u] \/ hi' = hi
    PROVE  \A g \in Getters : /\ pc'[g] = pc[g] /\ view'[g] = view[g]
                              /\ lo'[g] = lo[g] /\ hi'[g] = hi[g]
<1> TAKE g \in Getters
<1>1. g # p /\ g \in Procs
  BY ProcsParts
<1>2. DOMAIN pc = Procs /\ DOMAIN view = Procs /\ DOMAIN lo = Procs /\ DOMAIN hi = Procs
  BY DEF Shape
<1> QED BY <1>1, <1>2

(* A cell of the slice of a put is written. *)
LEMMA OwnWritten ==
    ASSUME CacheInv, NEW p \in Putters, pc[p] # "idle", NEW i \in Nat, i < view[p].len,
           NEW k \in Kline, heap' = Written(view[p], i, k)
    PROVE  \A j \in 0..(view[p].len - 1) :
              At(heap', view[p], j) = IF j = i THEN k ELSE At(heap, view[p], j)
<1> DEFINE v == view[p]
<1>1. /\ Shape /\ v \in Slice /\ v.off \in Nat /\ v.len \in Nat
      /\ v.off + v.len <= Len(heap[v.arr]) /\ Len(heap[v.arr]) \in Nat
  BY AtWorkParts
<1>2. k \in Kline \cup {Nil} /\ heap' = Written(v, i, k) /\ i < v.len
  OBVIOUS
<1> HIDE DEF v
<1>3. v.off + i < Len(heap[v.arr])
  BY <1>1, <1>2
<1>4. \A r \in Slice, j \in Nat : r.off + j < Len(heap[r.arr]) =>
         At(heap', r, j) = IF r.arr = v.arr /\ r.off + j = v.off + i THEN k
                           ELSE At(heap, r, j)
  BY <1>1, <1>2, <1>3, CellWritten
<1>5. ASSUME NEW j \in 0..(v.len - 1)
      PROVE  At(heap', v, j) = IF j = i THEN k ELSE At(heap, v, j)
  <2>1. j \in Nat /\ v.off + j < Len(heap[v.arr])
    BY <1>1
  <2>2. v.off + j = v.off + i <=> j = i
    BY <1>1, <2>1
  <2> QED BY <1>1, <1>4, <2>1, <2>2
<1> QED BY <1>5 DEF v

(* The search of a put: its cells are klines, and the bounds hold. *)
LEMMA Searching ==
    ASSUME CacheInv, NEW p \in Putters, pc[p] = "search"
    PROVE  /\ Row(p) = Reads(heap, view[p], view[p].len, view[p].len)
           /\ Stands(Row(p), view[p].len, based[p]) /\ view[p].len \in Nat
           /\ \A i \in 0..(view[p].len - 1) :
                 /\ Row(p)[i] = At(heap, view[p], i) /\ Row(p)[i] \in Kline
                 /\ i < lo[p] => Row(p)[i].st < Head(todo[p]).st
                 /\ i >= hi[p] => Row(p)[i].st >= Head(todo[p]).st
<1>1. /\ Row(p) = Reads(heap, view[p], view[p].len, view[p].len)
      /\ Size(p) = view[p].len /\ view[p].len \in Nat
      /\ Stands(Row(p), view[p].len, based[p])
  BY AtWorkParts
<1>2. \A i \in 0..(view[p].len - 1) :
         /\ i < lo[p] => Row(p)[i].st < Head(todo[p]).st
         /\ i >= hi[p] => Row(p)[i].st >= Head(todo[p]).st
  BY <1>1 DEF CacheInv, PutInv
<1>3. \A i \in 0..(view[p].len - 1) : Row(p)[i] = At(heap, view[p], i)
  BY <1>1, ReadsAll
<1>4. \A i \in 0..(view[p].len - 1) : Row(p)[i] \in Kline
  BY <1>1 DEF Stands
<1> QED BY <1>1, <1>2, <1>3, <1>4

LEMMA OverwriteKept ==
    ASSUME CacheInv, NEW p \in Putters, Overwrite(p)
    PROVE  CacheInv'
<1>0. Shape /\ Found(p) /\ lo[p] < view[p].len /\ pc[p] = "search"
      /\ UNCHANGED <<entry, view, ask, out, puts, known>>
  BY OverwriteOutcome DEF CacheInv, Found
<1>1. /\ lo[p] \in Nat /\ view[p].len \in Nat /\ todo[p] # <<>> /\ Head(todo[p]) \in Kline
  BY <1>0, FoundPlace, ProcsParts
<1> DEFINE v == view[p]
           n == view[p].len
           k == Head(todo[p])
           i == lo[p]
           c == Row(p)
           d == Reads(heap', v, n, n)
<1>2. i \in 0..(n - 1) /\ i \in Nat /\ n \in Nat /\ k \in Kline /\ i < n
  BY <1>0, <1>1
<1>3. c[i] = At(heap, v, i) /\ c[i] \in Kline /\ Stands(c, n, based[p])
  BY <1>0, <1>2, Searching
<1>4. At(heap, v, i) # Nil
  BY <1>3, KlineType
<1>5. /\ At(heap, v, i).st = k.st /\ heap' = Written(v, i, k) /\ Advance(p)
  BY <1>0, <1>4, OverwriteOutcome DEF CacheInv
<1>6. \A j \in 0..(n - 1) : At(heap', v, j) = IF j = i THEN k ELSE At(heap, v, j)
  BY <1>0, <1>2, <1>5, OwnWritten
<1>7. d = [c EXCEPT ![i] = k]
  <2>1. c = Reads(heap, v, n, n)
    BY <1>0, Searching
  <2>2. \A j \in 0..(n - 1) : d[j] = IF j = i THEN k ELSE c[j]
    BY <1>2, <1>6, <2>1, ReadsAll
  <2>3. d = [j \in 0..(n - 1) |-> d[j]] /\ c = [j \in 0..(n - 1) |-> c[j]]
    BY <2>1 DEF Reads
  <2> HIDE DEF d, c, n, i, k, v
  <2> QED BY <1>2, <2>2, <2>3
<1>8. Stands(d, n, Upserted(based[p], k))
  <2> DEFINE B == based[p]
  <2>1. Stands(c, n, B) /\ c[i].st = k.st
    BY <1>3, <1>5
  <2> HIDE DEF c, n, i, k, B
  <2>2. Stands([c EXCEPT ![i] = k], n, Upserted(B, k))
    BY <1>2, <2>1, Replaced
  <2> QED BY <1>7, <2>2 DEF B
<1>9. Ages
  <2>1. k.st <= At(heap, v, i).st
    BY <1>2, <1>5, KlineType
  <2> QED BY <1>0, <1>2, <1>5, <2>1, WriteAges
<1>10. /\ PutInv(p)' /\ based' \in [Putters -> SUBSET Kline]
       /\ \A g \in Getters : pc'[g] = pc[g] /\ lo'[g] = lo[g] /\ hi'[g] = hi[g]
       /\ pc'[p] # "idle" /\ \A q \in Putters \ {p} : pc'[q] = pc[q]
  BY <1>0, <1>1, <1>5, <1>8, AdvanceKept
<1>11. Shape'
  BY <1>0, OverwriteShape
<1>12. pc[p] # "idle"
  BY <1>0
<1> QED BY <1>0, <1>9, <1>10, <1>11, <1>12, PutterKeeps

(* The insertion of a put. *)
LEMMA Inserting ==
    ASSUME CacheInv, NEW p \in Putters, pc[p] = "insert", NEW n, n = view[p].len - 1
    PROVE  /\ Row(p) = Reads(heap, view[p], hi[p], n) /\ Size(p) = n
           /\ Stands(Row(p), n, based[p]) /\ n \in Nat /\ view[p].len \in Nat
           /\ lo[p] \in Nat /\ hi[p] \in Nat /\ lo[p] <= hi[p] /\ hi[p] <= n
           /\ todo[p] # <<>> /\ Head(todo[p]) \in Kline
           /\ \A i \in 0..(n - 1) :
                 /\ Row(p)[i] = At(heap, view[p], IF i < hi[p] THEN i ELSE i + 1)
                 /\ Row(p)[i] \in Kline
                 /\ i < lo[p] => Row(p)[i].st < Head(todo[p]).st
                 /\ i >= lo[p] => Row(p)[i].st > Head(todo[p]).st
           /\ \A i, j \in 0..(n - 1) : i < j => Row(p)[i].st < Row(p)[j].st
           /\ hi[p] < n => At(heap, view[p], hi[p]) = Row(p)[hi[p]]
<1>1. /\ Row(p) = Reads(heap, view[p], hi[p], n) /\ Size(p) = n /\ view[p].len \in Nat
      /\ Stands(Row(p), n, based[p])
  BY AtWorkParts
<1>2. /\ lo[p] \in Nat /\ hi[p] \in Nat /\ lo[p] <= hi[p] /\ hi[p] <= n /\ n \in Nat
      /\ todo[p] # <<>> /\ Head(todo[p]) \in Kline
  BY <1>1, InsertPlace DEF CacheInv
<1>3. /\ \A i \in 0..(n - 1) : /\ i < lo[p] => Row(p)[i].st < Head(todo[p]).st
                               /\ i >= lo[p] => Row(p)[i].st > Head(todo[p]).st
      /\ hi[p] < n => At(heap, view[p], hi[p]) = Row(p)[hi[p]]
  BY <1>1 DEF CacheInv, PutInv
<1>4. \A i \in 0..(n - 1) : Row(p)[i] = At(heap, view[p], IF i < hi[p] THEN i ELSE i + 1)
  BY <1>1 DEF Reads
<1>5. /\ \A i \in 0..(n - 1) : Row(p)[i] \in Kline
      /\ \A i, j \in 0..(n - 1) : i < j => Row(p)[i].st < Row(p)[j].st
  BY <1>1 DEF Stands
<1> QED BY <1>1, <1>2, <1>3, <1>4, <1>5

LEMMA FillKept ==
    ASSUME CacheInv, NEW p \in Putters, FillGap(p)
    PROVE  CacheInv'
<1>0. Shape /\ pc[p] = "insert" /\ lo[p] = hi[p] /\ Advance(p)
      /\ heap' = Written(view[p], lo[p], Head(todo[p]))
      /\ UNCHANGED <<entry, view, ask, out, puts, known>>
  BY FillOutcome DEF CacheInv
<1> DEFINE v == view[p]
           n == view[p].len - 1
           k == Head(todo[p])
           i == lo[p]
           c == Row(p)
           d == Reads(heap', v, v.len, v.len)
<1>1. /\ Size(p) = n /\ Stands(c, n, based[p]) /\ n \in Nat /\ v.len \in Nat
      /\ i \in Nat /\ i = hi[p] /\ i <= n /\ todo[p] # <<>> /\ k \in Kline
      /\ v.len = n + 1
  BY <1>0, Inserting
<1>2. /\ \A j \in 0..(n - 1) : /\ c[j] = At(heap, v, IF j < i THEN j ELSE j + 1)
                               /\ j < i => c[j].st < k.st
                               /\ j >= i => c[j].st > k.st
      /\ i < n => At(heap, v, i) = c[i]
  BY <1>0, <1>1, Inserting
<1>3. \A j \in 0..(v.len - 1) : At(heap', v, j) = IF j = i THEN k ELSE At(heap, v, j)
  BY <1>0, <1>1, OwnWritten
<1>4. /\ \A j \in 0..n : d[j] = At(heap', v, j)
      /\ d = [j \in 0..n |-> d[j]]
  <2>1. v.len - 1 = n
    OBVIOUS
  <2>2. d = [j \in 0..n |-> d[j]]
    BY <2>1 DEF Reads
  <2> QED BY <1>1, <2>1, <2>2, ReadsAll
<1>5. c \in [0..(n - 1) -> Kline]
  BY <1>1 DEF Stands
<1> HIDE DEF d, c, n, i, k, v
<1>6. \A j \in 0..(i - 1) : d[j] = c[j] /\ c[j].st < k.st
  <2> TAKE j \in 0..(i - 1)
  <2>1. j \in 0..(n - 1) /\ j < i /\ j \in 0..n /\ j \in 0..(v.len - 1) /\ j # i
    BY <1>1
  <2> QED BY <1>2, <1>3, <1>4, <2>1
<1>7. \A j \in i..(n - 1) : d[j + 1] = c[j] /\ c[j].st > k.st
  <2> TAKE j \in i..(n - 1)
  <2>1. /\ j \in 0..(n - 1) /\ j >= i /\ j + 1 \in 0..n /\ j + 1 \in 0..(v.len - 1)
        /\ j + 1 # i /\ ~(j < i)
    BY <1>1
  <2> QED BY <1>2, <1>3, <1>4, <2>1
<1>8. d[i] = k /\ i \in 0..n
  <2>1. i \in 0..n /\ i \in 0..(v.len - 1)
    BY <1>1
  <2> QED BY <1>3, <1>4, <2>1
<1>9. d \in [0..n -> Kline]
  <2>1. ASSUME NEW j \in 0..n PROVE d[j] \in Kline
    <3>1. CASE j < i
      <4>1. j \in 0..(i - 1) /\ j \in 0..(n - 1)
        BY <1>1, <3>1
      <4> QED BY <1>5, <1>6, <4>1
    <3>2. CASE j = i
      BY <1>1, <1>8, <3>2
    <3>3. CASE j > i
      <4>1. j - 1 \in i..(n - 1) /\ j - 1 \in 0..(n - 1) /\ (j - 1) + 1 = j
        BY <1>1, <3>3
      <4>2. d[(j - 1) + 1] = c[j - 1]
        BY <1>7, <4>1
      <4> QED BY <1>5, <4>1, <4>2
    <3> QED BY <1>1, <3>1, <3>2, <3>3
  <2> QED BY <1>4, <2>1
<1>10. Stands(d, v.len, Upserted(based[p], k))
  <2> DEFINE B == based[p]
  <2>1. Stands(c, n, B)
    BY <1>1
  <2> HIDE DEF B
  <2>2. /\ \A j \in 0..(i - 1) : c[j].st < k.st
        /\ \A j \in i..(n - 1) : c[j].st > k.st
        /\ \A j \in 0..(i - 1) : d[j] = c[j]
        /\ \A j \in i..(n - 1) : d[j + 1] = c[j]
    BY <1>6, <1>7
  <2>3. n \in Nat /\ k \in Kline /\ i \in 0..n /\ d[i] = k
    BY <1>1, <1>8
  <2>4. Stands(d, n + 1, Upserted(B, k))
    BY <1>9, <2>1, <2>2, <2>3, Inserted
  <2> QED BY <1>1, <2>4 DEF B
<1>11. Ages
  <2>1. i < Size(p) => k.st <= At(heap, v, i).st
    <3> SUFFICES ASSUME i < n PROVE k.st <= At(heap, v, i).st
      BY <1>1
    <3>1. i \in 0..(n - 1)
      BY <1>1
    <3>2. At(heap, v, i) = c[i]
      BY <1>2
    <3>3. i >= i /\ c[i] \in Kline
      BY <1>1, <1>5, <3>1
    <3>4. c[i].st > k.st
      BY <1>2, <3>1, <3>3
    <3>5. c[i].st \in Nat /\ k.st \in Nat
      BY <1>1, <3>3, KlineType
    <3> QED BY <3>2, <3>4, <3>5
  <2>2. i < v.len
    BY <1>1
  <2> QED BY <1>0, <1>1, <2>1, <2>2, WriteAges DEF v, i, k
<1>12. /\ PutInv(p)' /\ based' \in [Putters -> SUBSET Kline]
       /\ \A g \in Getters : pc'[g] = pc[g] /\ lo'[g] = lo[g] /\ hi'[g] = hi[g]
       /\ pc'[p] # "idle" /\ \A q \in Putters \ {p} : pc'[q] = pc[q]
  BY <1>0, <1>1, <1>10, AdvanceKept DEF d, v, k
<1>13. Shape'
  BY <1>0, FillShape
<1>14. pc[p] # "idle"
  BY <1>0
<1> QED BY <1>0, <1>11, <1>12, <1>13, <1>14, PutterKeeps

(* A cell moved: the row without the gap is the same. *)
LEMMA ShiftKept ==
    ASSUME CacheInv, NEW p \in Putters, ShiftCell(p)
    PROVE  CacheInv'
<1> DEFINE v == view[p]
           n == view[p].len - 1
           u == hi[p]
           k == At(heap, v, u - 1)
           c == Row(p)
           d == Reads(heap', v, u - 1, n)
<1>0. /\ Shape /\ pc[p] = "insert" /\ lo[p] < u /\ heap' = Written(v, u, k)
      /\ hi' = [hi EXCEPT ![p] = u - 1]
      /\ UNCHANGED <<entry, pc, view, lo, todo, ask, out, puts, known, based>>
  BY ShiftOutcome DEF CacheInv
<1>1. /\ Size(p) = n /\ Stands(c, n, based[p]) /\ n \in Nat /\ v.len \in Nat
      /\ lo[p] \in Nat /\ u \in Nat /\ u <= n /\ v.len = n + 1
      /\ \A j \in 0..(n - 1) : /\ c[j] = At(heap, v, IF j < u THEN j ELSE j + 1)
                               /\ c[j] \in Kline
                               /\ j < lo[p] => c[j].st < Head(todo[p]).st
                               /\ j >= lo[p] => c[j].st > Head(todo[p]).st
      /\ \A i, j \in 0..(n - 1) : i < j => c[i].st < c[j].st
      /\ u < n => At(heap, v, u) = c[u]
      /\ c = [j \in 0..(n - 1) |-> c[j]]
  <2>1. c = [j \in 0..(n - 1) |-> c[j]]
    BY <1>0, Inserting DEF Reads
  <2>2. n = view[p].len - 1
    OBVIOUS
  <2> HIDE DEF n
  <2>3. /\ Size(p) = n /\ Stands(c, n, based[p]) /\ n \in Nat /\ view[p].len \in Nat
        /\ lo[p] \in Nat /\ hi[p] \in Nat /\ hi[p] <= n
        /\ \A j \in 0..(n - 1) :
              /\ c[j] = At(heap, view[p], IF j < hi[p] THEN j ELSE j + 1)
              /\ c[j] \in Kline
              /\ j < lo[p] => c[j].st < Head(todo[p]).st
              /\ j >= lo[p] => c[j].st > Head(todo[p]).st
        /\ \A i, j \in 0..(n - 1) : i < j => c[i].st < c[j].st
        /\ hi[p] < n => At(heap, view[p], hi[p]) = c[hi[p]]
    BY <1>0, <2>2, Inserting
  <2>4. view[p].len = n + 1
    BY <2>2, <2>3
  <2> QED BY <2>1, <2>3, <2>4
<1>2. u - 1 \in 0..(n - 1) /\ u - 1 \in Nat /\ u < v.len /\ u - 1 < u
  <2>1. \A l, x, m \in Nat : l < x /\ x <= m =>
           x - 1 \in 0..(m - 1) /\ x - 1 \in Nat /\ x < m + 1 /\ x - 1 < x
    OBVIOUS
  <2>2. lo[p] < u /\ lo[p] \in Nat /\ u \in Nat /\ n \in Nat /\ u <= n /\ v.len = n + 1
    BY <1>0, <1>1
  <2> HIDE DEF u, n, v
  <2> QED BY <2>1, <2>2
<1>3. k = c[u - 1] /\ k \in Kline
  BY <1>1, <1>2
<1>4. \A j \in 0..(v.len - 1) : At(heap', v, j) = IF j = u THEN k ELSE At(heap, v, j)
  <2>1. pc[p] # "idle" /\ u \in Nat /\ u < view[p].len /\ k \in Kline
    BY <1>0, <1>1, <1>2, <1>3
  <2>2. heap' = Written(view[p], u, k)
    BY <1>0
  <2> HIDE DEF u, k
  <2> QED BY <2>1, <2>2, OwnWritten
<1>5. \A j \in 0..(n - 1) : d[j] = At(heap', v, IF j < u - 1 THEN j ELSE j + 1)
  BY DEF Reads
<1>6. d = [j \in 0..(n - 1) |-> d[j]]
  BY DEF Reads
<1>d. d = Reads(heap', v, u - 1, n)
  OBVIOUS
<1> HIDE DEF d, c, k, n, u, v
<1>7. ASSUME NEW j \in 0..(n - 1) PROVE d[j] = c[j]
  <2>1. CASE j < u - 1
    <3>1. j \in 0..(v.len - 1) /\ j # u /\ j < u
      BY <1>1, <1>2, <2>1
    <3> QED BY <1>1, <1>4, <1>5, <2>1, <3>1
  <2>2. CASE j = u - 1
    <3>1. j + 1 = u /\ j + 1 \in 0..(v.len - 1) /\ ~(j < u - 1)
      BY <1>1, <1>2, <2>2
    <3> QED BY <1>3, <1>4, <1>5, <2>2, <3>1
  <2>3. CASE j > u - 1
    <3>1. j + 1 \in 0..(v.len - 1) /\ j + 1 # u /\ ~(j < u) /\ ~(j < u - 1)
      BY <1>1, <1>2, <2>3
    <3> QED BY <1>1, <1>4, <1>5, <3>1
  <2> QED BY <1>2, <2>1, <2>2, <2>3
<1>8. d = c
  BY <1>1, <1>6, <1>7
<1>9. At(heap', v, u - 1) = d[u - 1]
  <2>1. u - 1 \in 0..(v.len - 1) /\ u - 1 # u
    BY <1>1, <1>2
  <2>2. At(heap', v, u - 1) = At(heap, v, u - 1)
    BY <1>4, <2>1
  <2> QED BY <1>3, <1>8, <2>2 DEF k
<1>10. Ages
  <2>1. u < Size(p) => k.st <= At(heap, v, u).st
    <3> SUFFICES ASSUME u < n PROVE k.st <= At(heap, v, u).st
      BY <1>1
    <3>1. u \in 0..(n - 1) /\ u - 1 < u
      BY <1>1, <1>2
    <3>2. c[u - 1].st < c[u].st /\ At(heap, v, u) = c[u] /\ c[u].st \in Nat /\ c[u - 1].st \in Nat
      BY <1>1, <1>2, <3>1, KlineType
    <3> QED BY <1>3, <3>2
  <2>2. pc[p] # "idle" /\ view[p] = v
    BY <1>0 DEF v
  <2> QED BY <1>0, <1>1, <1>2, <1>3, <2>1, <2>2, WriteAges
<1>11. \A g \in Getters : /\ pc'[g] = pc[g] /\ view'[g] = view[g]
                          /\ lo'[g] = lo[g] /\ hi'[g] = hi[g]
  BY <1>0, OthersOf
<1>12. PutInv(p)'
  <2>1. /\ pc'[p] = "insert" /\ view'[p] = v /\ lo'[p] = lo[p] /\ hi'[p] = u - 1
        /\ based'[p] = based[p] /\ Head(todo'[p]) = Head(todo[p])
        /\ v \in Slice /\ n = v.len - 1
    <3>1. hi'[p] = u - 1
      BY <1>0, ProcsParts DEF Shape
    <3>2. v \in Slice /\ v.len - 1 = n
      BY <1>0, <1>1, AtWorkParts DEF v
    <3> QED BY <1>0, <3>1, <3>2 DEF v
  <2>2. /\ \A e \in entry : Within(e, v, n)
        /\ \A g \in Getters : pc[g] # "idle" => Within(view[g], v, n)
    BY <1>0, <1>1, AtWorkParts DEF v
  <2>3. /\ \A i \in 0..(n - 1) : /\ i < lo[p] => d[i].st < Head(todo[p]).st
                                 /\ i >= lo[p] => d[i].st > Head(todo[p]).st
        /\ u - 1 < n => At(heap', v, u - 1) = d[u - 1]
    BY <1>1, <1>8, <1>9
  <2>4. Stands(d, n, based[p])
    BY <1>1, <1>8
  <2> DEFINE step == "insert"
             t == Head(todo[p]).st
             B == based[p]
             l == lo[p]
             m == u - 1
  <2>5. /\ UNCHANGED entry /\ step \in {"search", "insert", "set"} /\ pc'[p] = step
        /\ l \in Nat /\ lo'[p] = l /\ m \in Nat /\ hi'[p] = m /\ based'[p] = B
        /\ Head(todo'[p]).st = t
    BY <1>0, <1>1, <1>2, <2>1
  <2>6. /\ n = IF step = "insert" THEN v.len - 1 ELSE v.len
        /\ d = Reads(heap', v, IF step = "insert" THEN m ELSE v.len, n)
        /\ step # "search"
    BY <1>d, <2>1
  <2>7. /\ \A g \in Getters : pc'[g] = pc[g] /\ view'[g] = view[g]
        /\ Stands(d, n, B)
        /\ \A i \in 0..(n - 1) : (i < l => d[i].st < t) /\ (i >= l => d[i].st > t)
        /\ m < n => At(heap', v, m) = d[m]
    BY <1>11, <2>3, <2>4
  <2> HIDE DEF step, t, B, l, m
  <2> QED BY <2>1, <2>2, <2>5, <2>6, <2>7, WorkGoesOn
<1>13. Shape'
  BY ShiftShape DEF CacheInv
<1>14. based' \in [Putters -> SUBSET Kline]
  BY <1>0 DEF CacheInv
<1>15. pc[p] # "idle" /\ pc'[p] # "idle" /\ \A q \in Putters \ {p} : pc'[q] = pc[q]
  BY <1>0
<1> QED BY <1>0, <1>10, <1>11, <1>12, <1>13, <1>14, <1>15, PutterKeeps

LEMMA AppendKept ==
    ASSUME CacheInv, NEW p \in Putters, AppendNil(p)
    PROVE  CacheInv'
<1> DEFINE v == view[p]
           n == view[p].len
           c == Row(p)
<1>0. /\ Shape /\ Found(p) /\ pc[p] = "search" /\ hi' = [hi EXCEPT ![p] = n]
      /\ pc' = [pc EXCEPT ![p] = "insert"]
      /\ UNCHANGED <<entry, lo, todo, ask, out, puts, known, based>>
      /\ lo[p] < n => At(heap, v, lo[p]) # Nil /\ At(heap, v, lo[p]).st # Head(todo[p]).st
  BY AppendOutcome DEF CacheInv, Found
<1>1. PICK s \in Slice :
         /\ view' = [view EXCEPT ![p] = s] /\ s.len = n + 1
         /\ heap' \in [Arrays -> Seq(Kline \cup {Nil})]
         /\ s.off + s.len <= Len(heap'[s.arr])
         /\ \A i \in 0..(n - 1) : At(heap', s, i) = At(heap, v, i)
         /\ At(heap', s, n) = Nil
         /\ \A a \in Arrays : a # s.arr => heap'[a] = heap[a]
         /\ \/ /\ s.arr = NewArray /\ s.off = 0
            \/ /\ s.arr = v.arr /\ s.off = v.off
               /\ Len(heap'[s.arr]) = Len(heap[s.arr])
               /\ \A r \in Slice, j \in Nat :
                     /\ r.off + j < Len(heap[r.arr])
                     /\ ~(r.arr = s.arr /\ r.off + j = s.off + n)
                     => At(heap', r, j) = At(heap, r, j)
  <2>1. Shape
    BY <1>0
  <2> QED BY <2>1, AppendOutcome
<1>2. /\ lo[p] = hi[p] /\ lo[p] \in Nat /\ hi[p] <= n /\ n \in Nat /\ p \in Procs
      /\ Head(todo[p]) \in Kline /\ v \in Slice /\ Head(todo[p]).st \in Nat
  BY <1>0, FoundPlace, ProcsParts, KlineType
<1>3. /\ c = Reads(heap, v, n, n) /\ Stands(c, n, based[p])
      /\ \A i \in 0..(n - 1) :
            /\ c[i] = At(heap, v, i) /\ c[i] \in Kline
            /\ i < lo[p] => c[i].st < Head(todo[p]).st
            /\ i >= lo[p] => c[i].st >= Head(todo[p]).st
  BY <1>0, <1>2, Searching
<1>4. /\ \A e \in entry : e \in Slice /\ Within(e, v, n)
      /\ \A g \in Getters : pc[g] # "idle" => view[g] \in Slice /\ Within(view[g], v, n)
  <2>1. Size(p) = n
    BY <1>0, AtWorkParts
  <2>2. /\ \A e \in entry : Within(e, v, Size(p))
        /\ \A g \in Getters : pc[g] # "idle" => Within(view[g], v, Size(p))
    BY <1>0, AtWorkParts
  <2> QED BY <1>0, <2>1, <2>2, HeldSlices
<1>5. \A r \in Slice : Held(r) => Within(r, s, n)
  <2> SUFFICES ASSUME NEW r \in Slice, Held(r), r.arr = s.arr PROVE r.off + r.len <= s.off + n
    BY DEF Within
  <2>1. r.arr # NewArray
    BY <1>0, NewArrayUnused, ProcsParts DEF Held
  <2>2. s.arr = v.arr /\ s.off = v.off
    BY <1>1, <2>1
  <2>3. Within(r, v, n)
    BY <1>4 DEF Held
  <2> QED BY <2>2, <2>3 DEF Within
<1>6. Ages
  <2> SUFFICES ASSUME NEW r \in Slice, Held(r), NEW i \in 0..(r.len - 1)
               PROVE  /\ At(heap', r, i) \in Kline /\ At(heap', r, i).st <= At(heap, r, i).st
    BY DEF Ages
  <2>1. /\ r.off \in Nat /\ r.len \in Nat /\ r.arr \in Arrays /\ s.off \in Nat
        /\ i \in Nat /\ i < r.len
    BY SliceType
  <2>2. Whole(heap, r) /\ r.off + r.len <= Len(heap[r.arr]) /\ Len(heap[r.arr]) \in Nat
    BY <1>0, <2>1, HeldWhole DEF CacheInv, Shape
  <2>3. At(heap', r, i) = At(heap, r, i)
    <3>1. CASE r.arr # s.arr
      BY <1>1, <2>1, <3>1 DEF At
    <3>2. CASE r.arr = s.arr
      <4>1. r.arr # NewArray
        BY <1>0, NewArrayUnused, ProcsParts DEF Held
      <4>2. r.off + r.len <= s.off + n
        BY <1>5, <3>2 DEF Within
      <4>3. r.off + i < Len(heap[r.arr]) /\ r.off + i # s.off + n
        BY <1>2, <2>1, <2>2, <4>2, SMTT(20)
      <4> QED BY <1>1, <2>1, <3>2, <4>1, <4>3
    <3> QED BY <3>1, <3>2
  <2>4. At(heap, r, i) \in Kline
    BY <2>2 DEF Whole
  <2> QED BY <2>3, <2>4, KlineType
<1>7. Reads(heap', s, n, n) = c
  <2>1. \A i \in 0..(n - 1) : Reads(heap', s, n, n)[i] = At(heap, v, i)
    BY <1>1, <1>2, ReadsAll
  <2>2. \A i \in 0..(n - 1) : c[i] = At(heap, v, i)
    BY <1>3
  <2>3. /\ c = [i \in 0..(n - 1) |-> c[i]]
        /\ Reads(heap', s, n, n) = [i \in 0..(n - 1) |-> Reads(heap', s, n, n)[i]]
    BY <1>3 DEF Reads
  <2> HIDE DEF c, n, v
  <2> QED BY <2>1, <2>2, <2>3
<1>8. \A g \in Getters : /\ pc'[g] = pc[g] /\ view'[g] = view[g]
                         /\ lo'[g] = lo[g] /\ hi'[g] = hi[g]
  BY <1>0, <1>1, OthersOf
<1>9. \A i \in 0..(n - 1) : i >= lo[p] => c[i].st > Head(todo[p]).st
  <2> TAKE i \in 0..(n - 1)
  <2> SUFFICES ASSUME i >= lo[p] PROVE c[i].st > Head(todo[p]).st
    OBVIOUS
  <2>1. lo[p] \in 0..(n - 1) /\ lo[p] < n
    BY <1>2
  <2>2. c[lo[p]].st # Head(todo[p]).st /\ c[lo[p]].st >= Head(todo[p]).st
    BY <1>0, <1>2, <1>3, <2>1
  <2>3. i = lo[p] \/ lo[p] < i
    BY <1>2
  <2>4. i = lo[p] \/ c[lo[p]].st < c[i].st
    BY <1>3, <2>1, <2>3 DEF Stands
  <2>5. c[i].st \in Nat /\ c[lo[p]].st \in Nat
    BY <1>3, <2>1, KlineType
  <2> HIDE DEF c
  <2> QED BY <1>2, <2>2, <2>4, <2>5
<1>10. PutInv(p)'
  <2> DEFINE step == "insert"
             t == Head(todo[p]).st
             B == based[p]
             l == lo[p]
  <2>1. /\ UNCHANGED entry /\ step \in {"search", "insert", "set"} /\ pc'[p] = step
        /\ view'[p] = s /\ l \in Nat /\ lo'[p] = l /\ n \in Nat /\ hi'[p] = n
        /\ based'[p] = B /\ Head(todo'[p]).st = t
    BY <1>0, <1>1, <1>2 DEF Shape
  <2>2. s.len = n + 1 /\ (n + 1) - 1 = n
    BY <1>1, <1>2
  <2>3. /\ n = IF step = "insert" THEN s.len - 1 ELSE s.len
        /\ c = Reads(heap', s, IF step = "insert" THEN n ELSE s.len, n)
        /\ step # "search"
    BY <1>7, <2>2
  <2>4. /\ \A e \in entry : Within(e, s, n)
        /\ \A g \in Getters : pc[g] # "idle" => Within(view[g], s, n)
    BY <1>4, <1>5 DEF Held
  <2>5. /\ \A g \in Getters : pc'[g] = pc[g] /\ view'[g] = view[g]
        /\ Stands(c, n, B)
        /\ \A i \in 0..(n - 1) : (i < l => c[i].st < t) /\ (i >= l => c[i].st > t)
        /\ ~(n < n)
    BY <1>2, <1>3, <1>8, <1>9
  <2> HIDE DEF step, t, B, l, n, c
  <2> QED BY <2>1, <2>3, <2>4, <2>5, WorkGoesOn
<1>11. Shape'
  BY <1>0, AppendShape
<1>12. based' \in [Putters -> SUBSET Kline]
  BY <1>0 DEF CacheInv
<1>13. pc[p] # "idle" /\ pc'[p] # "idle" /\ \A q \in Putters \ {p} : pc'[q] = pc[q]
  BY <1>0, ProcsParts DEF Shape
<1> QED BY <1>0, <1>6, <1>8, <1>10, <1>11, <1>12, <1>13, PutterKeeps

(* A probe of a put: the kline at the middle tells the place from the end it is at. *)
LEMMA PutProbeKept ==
    ASSUME CacheInv, NEW p \in Putters, Probe(p)
    PROVE  CacheInv'
<1> DEFINE v == view[p]
           n == view[p].len
           c == Row(p)
           t == Head(todo[p]).st
<1>0. /\ Shape /\ pc[p] = "search" /\ lo[p] < hi[p] /\ hi[p] <= n /\ p \in Procs
      /\ UNCHANGED <<heap, entry, view, todo, ask, out, puts, known, based>>
  BY ProbeOutcome, ProcsParts DEF CacheInv
<1>1. PICK h \in Nat :
         /\ lo[p] <= h /\ h < hi[p]
         /\ \/ /\ Cell(v, h) = Nil /\ pc' = [pc EXCEPT ![p] = "panic"]
               /\ UNCHANGED <<lo, hi>>
            \/ /\ Cell(v, h) # Nil /\ Cell(v, h).st >= Target(p)
               /\ hi' = [hi EXCEPT ![p] = h] /\ UNCHANGED <<lo, pc>>
            \/ /\ Cell(v, h) # Nil /\ ~(Cell(v, h).st >= Target(p))
               /\ lo' = [lo EXCEPT ![p] = h + 1] /\ UNCHANGED <<hi, pc>>
  <2>1. Shape /\ p \in Procs
    BY <1>0
  <2> QED BY <2>1, ProbeOutcome
<1>2. /\ c = Reads(heap, v, n, n) /\ Stands(c, n, based[p]) /\ n \in Nat
      /\ \A i \in 0..(n - 1) :
            /\ c[i] = At(heap, v, i) /\ c[i] \in Kline
            /\ i < lo[p] => c[i].st < t
            /\ i >= hi[p] => c[i].st >= t
  BY <1>0, Searching
<1>3. /\ lo[p] \in Nat /\ hi[p] \in Nat /\ h \in 0..(n - 1) /\ t \in Nat /\ v \in Slice
  <2>1. lo[p] \in Nat /\ hi[p] \in Nat /\ v \in Slice
    BY <1>0 DEF Shape
  <2>2. h \in 0..(n - 1)
    BY <1>0, <1>1, <1>2, <2>1
  <2>3. t \in Nat
    <3>1. todo[p] # <<>> /\ todo[p] \in Seq(Kline)
      BY <1>0 DEF Shape, ShapeOf
    <3>2. Head(todo[p]) \in Kline
      BY <3>1
    <3> QED BY <3>2, KlineType
  <2> QED BY <2>1, <2>2, <2>3
<1>4. Target(p) = t /\ Cell(v, h) = c[h] /\ c[h] # Nil /\ c[h].st \in Nat
  BY <1>2, <1>3, CellAt, KlineType DEF Target
<1>5. \A i, j \in 0..(n - 1) : i < j => c[i].st < c[j].st
  BY <1>2 DEF Stands
<1>6. \A i \in 0..(n - 1) : c[i].st \in Nat
  BY <1>2, KlineType
<1> HIDE DEF c, t, n, v
<1>7. PICK l \in Nat, u \in Nat :
         /\ lo'[p] = l /\ hi'[p] = u /\ pc' = pc
         /\ lo' = [lo EXCEPT ![p] = l] \/ lo' = lo
         /\ hi' = [hi EXCEPT ![p] = u] \/ hi' = hi
         /\ \A i \in 0..(n - 1) : (i < l => c[i].st < t) /\ (i >= u => c[i].st >= t)
  <2>1. CASE c[h].st >= t
    <3>1. hi' = [hi EXCEPT ![p] = h] /\ lo' = lo /\ pc' = pc
      BY <1>1, <1>4, <2>1
    <3>2. hi'[p] = h
      BY <1>0, <3>1 DEF Shape
    <3>3. ASSUME NEW i \in 0..(n - 1), i >= h PROVE c[i].st >= t
      <4>1. i = h \/ h < i
        BY <3>3
      <4>2. i = h \/ c[h].st < c[i].st
        BY <1>3, <1>5, <4>1
      <4> QED BY <1>3, <1>4, <1>6, <2>1, <4>2
    <3> QED BY <1>2, <1>3, <3>1, <3>2, <3>3
  <2>2. CASE ~(c[h].st >= t)
    <3>1. lo' = [lo EXCEPT ![p] = h + 1] /\ hi' = hi /\ pc' = pc
      BY <1>1, <1>4, <2>2
    <3>2. lo'[p] = h + 1
      BY <1>0, <3>1 DEF Shape
    <3>3. ASSUME NEW i \in 0..(n - 1), i < h + 1 PROVE c[i].st < t
      <4>1. i = h \/ i < h
        BY <3>3
      <4>2. i = h \/ c[i].st < c[h].st
        BY <1>3, <1>5, <4>1
      <4> QED BY <1>3, <1>4, <1>6, <2>2, <4>2
    <3>4. h + 1 \in Nat
      OBVIOUS
    <3> QED BY <1>2, <1>3, <3>1, <3>2, <3>3, <3>4
  <2> QED BY <2>1, <2>2
<1>8. \A g \in Getters : /\ pc'[g] = pc[g] /\ view'[g] = view[g]
                         /\ lo'[g] = lo[g] /\ hi'[g] = hi[g]
  BY <1>0, <1>7, OthersOf
<1>9. PutInv(p)'
  <2> DEFINE step == "search"
             B == based[p]
  <2>1. /\ UNCHANGED entry /\ step \in {"search", "insert", "set"} /\ pc'[p] = step
        /\ view'[p] = v /\ based'[p] = B /\ Head(todo'[p]).st = t /\ v.len = n
    BY <1>0, <1>7 DEF v, t, n
  <2>2. /\ n = IF step = "insert" THEN v.len - 1 ELSE v.len
        /\ c = Reads(heap', v, IF step = "insert" THEN u ELSE v.len, n)
        /\ step # "insert"
    BY <1>0, <1>2, <2>1
  <2>3. /\ \A e \in entry : Within(e, v, n)
        /\ \A g \in Getters : pc[g] # "idle" => Within(view[g], v, n)
    <3>1. Size(p) = n
      BY <1>0, AtWorkParts DEF n
    <3> QED BY <1>0, <3>1, AtWorkParts DEF v
  <2>4. /\ \A g \in Getters : pc'[g] = pc[g] /\ view'[g] = view[g]
        /\ Stands(c, n, B)
        /\ \A i \in 0..(n - 1) : (i < l => c[i].st < t) /\ (i >= u => c[i].st >= t)
    BY <1>2, <1>7, <1>8
  <2> HIDE DEF step, B
  <2> QED BY <1>3, <1>7, <2>1, <2>2, <2>3, <2>4, WorkGoesOn
<1>10. Shape'
  BY <1>0, ProbeShape
<1>11. Ages
  BY <1>0, SameAges
<1>12. based' \in [Putters -> SUBSET Kline]
  BY <1>0 DEF CacheInv
<1>13. pc[p] # "idle" /\ pc'[p] # "idle" /\ \A q \in Putters \ {p} : pc'[q] = pc[q]
  BY <1>0, <1>7
<1> QED BY <1>0, <1>8, <1>9, <1>10, <1>11, <1>12, <1>13, PutterKeeps

LEMMA BeginPutKept ==
    ASSUME CacheInv, ~overlap', NEW p \in Putters, NEW list \in Lists, BeginPut(p, list)
    PROVE  CacheInv'
<1>0. /\ Shape /\ HeldInv /\ p \in Procs /\ based \in [Putters -> SUBSET Kline] /\ Settled
      /\ \A q \in Putters : pc[q] = "idle"
  BY ProcsParts DEF CacheInv, BeginPut, Busy
<1>1. /\ pc[p] = "idle" /\ pc' = [pc EXCEPT ![p] = "search"]
      /\ lo' = [lo EXCEPT ![p] = 0] /\ hi' = [hi EXCEPT ![p] = view'[p].len]
      /\ UNCHANGED <<entry, ask, out, known>>
      /\ \/ \E s \in entry : /\ view' = [view EXCEPT ![p] = s]
                             /\ based' = [based EXCEPT ![p] = known]
                             /\ UNCHANGED heap
         \/ /\ entry = {}
            /\ view' = [view EXCEPT ![p] = [arr |-> NewArray, off |-> 0, len |-> 0]]
            /\ based' = [based EXCEPT ![p] = {}]
            /\ heap' = [heap EXCEPT ![NewArray] = [i \in 1..MaxItems |-> Nil]]
  BY <1>0, BeginPutOutcome
<1>2. PICK s \in Slice, B \in SUBSET Kline :
         /\ view' = [view EXCEPT ![p] = s] /\ based' = [based EXCEPT ![p] = B]
         /\ Stands(Reads(heap', s, s.len, s.len), s.len, B)
         /\ \A e \in entry : Within(e, s, s.len)
         /\ \A g \in Getters : pc[g] # "idle" => Within(view[g], s, s.len)
         /\ Ages
  <2>1. ASSUME NEW s \in entry, view' = [view EXCEPT ![p] = s],
               based' = [based EXCEPT ![p] = known], UNCHANGED heap
        PROVE  /\ s \in Slice /\ known \in SUBSET Kline
               /\ Stands(Reads(heap', s, s.len, s.len), s.len, known)
               /\ \A e \in entry : Within(e, s, s.len)
               /\ \A g \in Getters : pc[g] # "idle" => Within(view[g], s, s.len)
               /\ Ages
    <3>1. s \in Slice /\ \A e \in entry : e = s
      BY <1>0 DEF Shape
    <3>2. Stands(Reads(heap, s, s.len, s.len), s.len, known)
      BY <1>0 DEF Settled
    <3>3. known \in SUBSET Kline
      BY <3>2 DEF Stands
    <3>4. Within(s, s, s.len)
      <4>1. s.off + s.len <= s.off + s.len
        BY <3>1, SliceType
      <4> QED BY <4>1 DEF Within
    <3>5. \A g \in Getters : pc[g] # "idle" => Within(view[g], s, s.len)
      BY <1>0 DEF HeldInv
    <3>6. Ages
      BY <2>1, SameAges
    <3> QED BY <2>1, <3>1, <3>2, <3>3, <3>4, <3>5, <3>6
  <2>2. ASSUME entry = {}, heap' = [heap EXCEPT ![NewArray] = [i \in 1..MaxItems |-> Nil]],
               NEW s, s = [arr |-> NewArray, off |-> 0, len |-> 0]
        PROVE  /\ s \in Slice /\ Stands(Reads(heap', s, s.len, s.len), s.len, {})
               /\ \A e \in entry : Within(e, s, s.len)
               /\ \A g \in Getters : pc[g] # "idle" => Within(view[g], s, s.len)
               /\ Ages
    <3>1. s \in Slice /\ s.arr = NewArray /\ s.len = 0
      BY <1>0, <2>2, NewArrayUnused, SliceType
    <3>2. Stands(Reads(heap', s, 0, 0), 0, {})
      <4>1. Reads(heap', s, 0, 0) \in [0..(0 - 1) -> Kline]
        BY DEF Reads
      <4> QED BY <4>1, NothingStands
    <3>3. \A r \in Slice : Held(r) => r.arr # NewArray /\ r.arr \in Arrays
      BY <1>0, NewArrayUnused, ProcsParts, SliceType DEF Held
    <3>4. \A g \in Getters : pc[g] # "idle" => Within(view[g], s, s.len)
      BY <1>0, <3>1, <3>3, HeldSlices DEF Within
    <3>5. Ages
      <4> SUFFICES ASSUME NEW r \in Slice, Held(r), NEW i \in 0..(r.len - 1)
                   PROVE  /\ At(heap', r, i) \in Kline
                          /\ At(heap', r, i).st <= At(heap, r, i).st
        BY DEF Ages
      <4>1. At(heap', r, i) = At(heap, r, i)
        BY <1>0, <2>2, <3>3 DEF At, Shape
      <4>2. At(heap, r, i) \in Kline
        BY <1>0, HeldWhole DEF Whole
      <4> QED BY <4>1, <4>2, KlineType
    <3> QED BY <2>2, <3>1, <3>2, <3>4, <3>5
  <2>3. CASE entry = {}
    <3> DEFINE s == [arr |-> NewArray, off |-> 0, len |-> 0]
    <3>1. /\ view' = [view EXCEPT ![p] = s] /\ based' = [based EXCEPT ![p] = {}]
          /\ heap' = [heap EXCEPT ![NewArray] = [i \in 1..MaxItems |-> Nil]]
      BY <1>1, <2>3
    <3>2. s = [arr |-> NewArray, off |-> 0, len |-> 0]
      OBVIOUS
    <3> HIDE DEF s
    <3>3. /\ s \in Slice /\ Stands(Reads(heap', s, s.len, s.len), s.len, {})
          /\ \A e \in entry : Within(e, s, s.len)
          /\ \A g \in Getters : pc[g] # "idle" => Within(view[g], s, s.len)
          /\ Ages
      BY <2>2, <2>3, <3>1, <3>2
    <3>4. {} \in SUBSET Kline
      OBVIOUS
    <3> QED BY <3>1, <3>3, <3>4
  <2>4. CASE entry # {}
    <3>1. PICK s \in entry : /\ view' = [view EXCEPT ![p] = s]
                             /\ based' = [based EXCEPT ![p] = known] /\ UNCHANGED heap
      BY <1>1, <2>4
    <3>2. /\ s \in Slice /\ known \in SUBSET Kline
          /\ Stands(Reads(heap', s, s.len, s.len), s.len, known)
          /\ \A e \in entry : Within(e, s, s.len)
          /\ \A g \in Getters : pc[g] # "idle" => Within(view[g], s, s.len)
          /\ Ages
      BY <2>1, <3>1
    <3> QED BY <3>1, <3>2
  <2> QED BY <2>3, <2>4
<1>3. \A g \in Getters : /\ pc'[g] = pc[g] /\ view'[g] = view[g]
                         /\ lo'[g] = lo[g] /\ hi'[g] = hi[g]
  BY <1>0, <1>1, <1>2, OthersOf
<1>4. PutInv(p)'
  <2> DEFINE step == "search"
             n == s.len
             c == Reads(heap', s, n, n)
             t == Head(todo'[p]).st
  <2>1. /\ UNCHANGED entry /\ step \in {"search", "insert", "set"} /\ pc'[p] = step
        /\ view'[p] = s /\ lo'[p] = 0 /\ hi'[p] = n /\ based'[p] = B
        /\ n \in Nat /\ 0 \in Nat /\ Head(todo'[p]).st = t
    BY <1>0, <1>1, <1>2, SliceType DEF Shape
  <2>2. /\ n = IF step = "insert" THEN s.len - 1 ELSE s.len
        /\ c = Reads(heap', s, IF step = "insert" THEN n ELSE s.len, n)
        /\ step # "insert"
    OBVIOUS
  <2>3. /\ Stands(c, n, B)
        /\ \A e \in entry : Within(e, s, n)
        /\ \A g \in Getters : pc[g] # "idle" => Within(view[g], s, n)
    BY <1>2
  <2>4. \A i \in 0..(n - 1) : (i < 0 => c[i].st < t) /\ (i >= n => c[i].st >= t)
    BY <2>1
  <2> HIDE DEF step, n, c, t
  <2> QED BY <1>3, <2>1, <2>2, <2>3, <2>4, WorkGoesOn
<1>5. Shape'
  BY <1>0, BeginPutShape
<1>6. based' \in [Putters -> SUBSET Kline]
  BY <1>0, <1>2
<1>7. pc'[p] # "idle" /\ \A q \in Putters \ {p} : pc'[q] = pc[q]
  BY <1>0, <1>1, ProcsParts DEF Shape
<1> QED BY <1>0, <1>1, <1>2, <1>3, <1>4, <1>5, <1>6, <1>7, PutterKeeps

(* The slice is cached: the newest of the klines put. *)
LEMMA SetKept ==
    ASSUME CacheInv, NEW p \in Putters, SetEntry(p)
    PROVE  CacheInv'
<1> DEFINE v == view[p]
           n == view[p].len
           s == Kept(view[p])
           c == Row(p)
           B == based[p]
           m == IF n > MaxItems THEN MaxItems ELSE n
           d == Reads(heap, s, m, m)
<1>0. /\ Shape' /\ pc[p] = "set" /\ pc' = [pc EXCEPT ![p] = "idle"]
      /\ UNCHANGED <<heap, view, lo, hi, todo, ask, out, puts, based>>
      /\ entry' = {s} /\ known' = B /\ v \in Slice /\ n > 0
      /\ s \in Slice /\ s.arr = v.arr /\ s.off + s.len = v.off + n
      /\ s.len = m /\ v.off + n <= Len(heap[v.arr])
  BY SetShape DEF CacheInv
<1>1. /\ Shape /\ HeldInv /\ p \in Procs /\ Size(p) = n /\ n \in Nat
      /\ Stands(c, n, B) /\ c = Reads(heap, v, n, n)
      /\ \A g \in Getters : pc[g] # "idle" => Within(view[g], v, n)
      /\ v.off \in Nat /\ s.off \in Nat /\ m \in Nat
  <2>1. v.off \in Nat /\ s.off \in Nat /\ m \in Nat
    BY <1>0, SliceType, SizeType
  <2> HIDE DEF s, m, B
  <2>2. /\ Shape /\ HeldInv /\ p \in Procs /\ Size(p) = n /\ n \in Nat
        /\ Stands(c, n, based[p]) /\ c = Reads(heap, v, n, n)
        /\ \A g \in Getters : pc[g] # "idle" => Within(view[g], v, n)
    BY <1>0, AtWorkParts
  <2> QED BY <2>1, <2>2 DEF B
<1>2. \A i \in 0..(m - 1) : /\ (n - m) + i \in 0..(n - 1)
                            /\ d[i] = c[(n - m) + i] /\ d[i] = At(heap, s, i)
                            /\ d[i] \in Kline
  <2> TAKE i \in 0..(m - 1)
  <2>1. (n - m) + i \in 0..(n - 1) /\ m <= n
    BY <1>1, SizeType
  <2>2. s.off + i + 1 = v.off + ((n - m) + i) + 1
    <3>1. s.off + m = v.off + n
      BY <1>0
    <3> HIDE DEF s, m, n, v
    <3> QED BY <1>1, <3>1
  <2>3. At(heap, s, i) = At(heap, v, (n - m) + i)
    BY <1>0, <2>2 DEF At
  <2>4. d[i] = At(heap, s, i) /\ c[(n - m) + i] = At(heap, v, (n - m) + i)
    BY <1>1, <2>1, ReadsAll
  <2>5. c[(n - m) + i] \in Kline
    BY <1>1, <2>1 DEF Stands
  <2> QED BY <2>1, <2>3, <2>4, <2>5
<1>3. d = [i \in 0..(m - 1) |-> d[i]]
  BY DEF Reads
<1>4. Stands(d, m, B)
  <2>1. CASE n > MaxItems
    <3>1. m = MaxItems
      BY <2>1
    <3>2. d \in [0..(MaxItems - 1) -> Kline]
      BY <1>2, <1>3, <3>1
    <3>3. \A i \in 0..(MaxItems - 1) : d[i] = c[(n - MaxItems) + i]
      BY <1>2, <3>1
    <3>a. n \in Nat /\ n > MaxItems /\ Stands(c, n, B)
      BY <1>1, <2>1
    <3> HIDE DEF d, c, B, n, m
    <3>4. Stands(d, MaxItems, B)
      BY <3>a, <3>2, <3>3, NewestKept
    <3> QED BY <3>1, <3>4
  <2>2. CASE ~(n > MaxItems)
    <3>1. m = n
      BY <2>2
    <3>2. c = [i \in 0..(n - 1) |-> c[i]]
      BY <1>1 DEF Stands
    <3>3. \A i \in 0..(n - 1) : (n - m) + i = i
      BY <1>1, <3>1
    <3>4. d = c
      <4>1. \A i \in 0..(n - 1) : d[i] = c[(n - m) + i]
        BY <1>2, <3>1
      <4>2. d = [i \in 0..(n - 1) |-> d[i]]
        BY <1>3, <3>1
      <4> HIDE DEF d, c, n, m
      <4>3. \A i \in 0..(n - 1) : d[i] = c[i]
        BY <3>3, <4>1
      <4> QED BY <3>2, <4>2, <4>3
    <3> HIDE DEF d, c, n, m, B
    <3> QED BY <1>1, <3>1, <3>4
  <2> QED BY <2>1, <2>2
<1>5. HeldInv'
  <2>1. Whole(heap', s)
    <3>1. \A i \in 0..(s.len - 1) : At(heap, s, i) \in Kline
      <4> HIDE DEF s, d, c, m
      <4> QED BY <1>0, <1>2
    <3> QED BY <1>0, <3>1 DEF Whole
  <2>2. ASSUME NEW g \in Getters, pc'[g] # "idle"
        PROVE  Whole(heap', view'[g]) /\ Within(view'[g], s, s.len)
    <3>1. pc[g] = pc'[g] /\ view'[g] = view[g] /\ heap' = heap
      <4>1. g # p /\ g \in Procs
        BY ProcsParts
      <4> QED BY <1>0, <1>1, <4>1 DEF Shape
    <3>2. Whole(heap, view[g]) /\ Within(view[g], v, n)
      BY <1>1, <2>2, <3>1 DEF HeldInv
    <3>3. Within(view[g], s, s.len)
      <4> HIDE DEF s, v, n
      <4> QED BY <1>0, <3>2 DEF Within
    <3> QED BY <3>1, <3>2, <3>3
  <2> HIDE DEF s
  <2> QED BY <1>0, <2>1, <2>2 DEF HeldInv
<1>6. ASSUME NEW g \in Getters PROVE TakenInv(g)'
  <2>1. g # p /\ g \in Procs /\ TakenInv(g)
    BY ProcsParts DEF CacheInv
  <2>2. pc'[g] = pc[g]
    BY <1>0, <1>1, <2>1 DEF Shape
  <2> QED BY <1>0, <2>1, <2>2 DEF TakenInv
<1>7. \A q \in Putters : pc'[q] = "idle"
  <2>1. \A q \in Putters : pc[q] = "idle" \/ q = p
    BY <1>0 DEF CacheInv, Single
  <2> QED BY <1>0, <1>1, <2>1, ProcsParts DEF Shape
<1>8. based' \in [Putters -> SUBSET Kline]
  BY <1>0 DEF CacheInv
<1>9. \A q \in Putters : PutInv(q)'
  BY <1>7 DEF PutInv
<1>10. Single' /\ Settled'
  <2>1. Stands(Reads(heap', s, s.len, s.len), s.len, known')
    <3> HIDE DEF s, m, B
    <3> QED BY <1>0, <1>4
  <2> HIDE DEF s
  <2> QED BY <1>0, <1>7, <2>1 DEF Single, Settled
<1> QED BY <1>0, <1>5, <1>6, <1>8, <1>9, <1>10 DEF CacheInv

LEMMA ExpireKept ==
    ASSUME CacheInv, Expire
    PROVE  CacheInv'
<1>1. /\ entry' = {} /\ UNCHANGED <<heap, pc, view, lo, hi, todo, ask, out, puts, based>>
      /\ Shape'
  BY ExpireShape DEF CacheInv, Expire
<1>2. HeldInv'
  BY <1>1 DEF CacheInv, HeldInv
<1>3. \A g \in Getters : TakenInv(g)'
  BY <1>1 DEF CacheInv, TakenInv
<1>4. ASSUME NEW p \in Putters PROVE PutInv(p)'
  <2>1. PutInv(p)
    BY DEF CacheInv
  <2>2. Row(p)' = Row(p) /\ Size(p)' = Size(p)
    BY <1>1 DEF Row, Gap, Size
  <2>3. pc[p] # "idle" => AtWork(p)'
    BY <1>1, <2>1, <2>2 DEF PutInv, AtWork
  <2> QED BY <1>1, <2>1, <2>2, <2>3 DEF PutInv
<1>5. based' \in [Putters -> SUBSET Kline]
  BY <1>1 DEF CacheInv
<1>6. Single' /\ Settled'
  BY <1>1 DEF CacheInv, Single, Settled
<1> QED BY <1>1, <1>2, <1>3, <1>4, <1>5, <1>6 DEF CacheInv

-----------------------------------------------------------------------------
(* The steps of a getter *)

(* A getter that holds what it may hold, and takes what it may take. *)
LEMMA GetterKeeps ==
    ASSUME CacheInv, Shape', NEW g \in Getters, UNCHANGED <<heap, entry, todo, known, based>>,
           \A q \in Procs \ {g} : /\ pc'[q] = pc[q] /\ view'[q] = view[q]
                                  /\ lo'[q] = lo[q] /\ hi'[q] = hi[q],
           \A f \in Getters \ {g} : out'[f] = out[f] /\ ask'[f] = ask[f],
           TakenInv(g)',
           pc'[g] # "idle" =>
              /\ Whole(heap, view'[g])
              /\ \A e \in entry : Within(view'[g], e, e.len)
              /\ \A p \in Putters : pc[p] # "idle" => Within(view'[g], view[p], Size(p))
    PROVE  CacheInv'
<1>1. HeldInv'
  <2>1. \A e \in entry' : Whole(heap', e)
    BY DEF CacheInv, HeldInv
  <2>2. ASSUME NEW f \in Getters, pc'[f] # "idle"
        PROVE  Whole(heap', view'[f]) /\ \A e \in entry' : Within(view'[f], e, e.len)
    <3>1. CASE f = g
      BY <2>2, <3>1
    <3>2. CASE f # g
      <4>1. pc'[f] = pc[f] /\ view'[f] = view[f]
        BY <3>2, ProcsParts
      <4>2. Whole(heap, view[f]) /\ \A e \in entry : Within(view[f], e, e.len)
        BY <2>2, <4>1 DEF CacheInv, HeldInv
      <4> QED BY <4>1, <4>2
    <3> QED BY <3>1, <3>2
  <2> QED BY <2>1, <2>2 DEF HeldInv
<1>2. ASSUME NEW f \in Getters PROVE TakenInv(f)'
  <2>1. CASE f = g
    BY <2>1
  <2>2. CASE f # g
    <3>1. /\ pc'[f] = pc[f] /\ view'[f] = view[f] /\ lo'[f] = lo[f] /\ hi'[f] = hi[f]
          /\ out'[f] = out[f] /\ ask'[f] = ask[f]
      BY <2>2, ProcsParts
    <3>2. TakenInv(f)
      BY DEF CacheInv
    <3> QED BY <3>1, <3>2 DEF TakenInv
  <2> QED BY <2>1, <2>2
<1>3. ASSUME NEW p \in Putters PROVE PutInv(p)'
  <2>1. /\ pc'[p] = pc[p] /\ view'[p] = view[p] /\ lo'[p] = lo[p] /\ hi'[p] = hi[p]
        /\ p # g /\ PutInv(p)
    BY ProcsParts DEF CacheInv
  <2>2. Row(p)' = Row(p) /\ Size(p)' = Size(p)
    BY <2>1 DEF Row, Gap, Size
  <2>3. pc[p] # "idle" => AtWork(p)'
    <3> SUFFICES ASSUME pc[p] # "idle" PROVE AtWork(p)'
      OBVIOUS
    <3>1. AtWork(p)
      BY <2>1 DEF PutInv
    <3>2. ASSUME NEW f \in Getters, pc'[f] # "idle" PROVE Within(view'[f], view[p], Size(p))
      <4>1. CASE f = g
        BY <3>2, <4>1
      <4>2. CASE f # g
        <5>1. pc'[f] = pc[f] /\ view'[f] = view[f]
          BY <4>2, ProcsParts
        <5> QED BY <3>1, <3>2, <5>1 DEF AtWork
      <4> QED BY <4>1, <4>2
    <3> QED BY <2>1, <2>2, <3>1, <3>2 DEF AtWork
  <2> QED BY <2>1, <2>2, <2>3 DEF PutInv
<1>4. based' \in [Putters -> SUBSET Kline]
  BY DEF CacheInv
<1>5. Single' /\ Settled'
  <2>1. \A p \in Putters : pc'[p] = pc[p]
    BY ProcsParts
  <2>2. Single /\ Settled
    BY DEF CacheInv
  <2> QED BY <2>1, <2>2 DEF Single, Settled
<1> QED BY <1>1, <1>2, <1>3, <1>4, <1>5 DEF CacheInv

(* The slice of a getter at work. *)
LEMMA GetterHolds ==
    ASSUME CacheInv, NEW g \in Getters, pc[g] # "idle"
    PROVE  /\ Whole(heap, view[g])
           /\ \A e \in entry : Within(view[g], e, e.len)
           /\ \A p \in Putters : pc[p] # "idle" => Within(view[g], view[p], Size(p))
  BY DEF CacheInv, HeldInv, PutInv, AtWork

LEMMA GetProbeKept ==
    ASSUME CacheInv, NEW g \in Getters, Probe(g)
    PROVE  CacheInv'
<1>0. /\ Shape /\ pc[g] = "search" /\ lo[g] < hi[g] /\ hi[g] <= view[g].len /\ g \in Procs
      /\ UNCHANGED <<heap, entry, view, todo, ask, out, puts, known, based>>
  BY ProbeOutcome, ProcsParts DEF CacheInv
<1>1. PICK h \in Nat :
         /\ lo[g] <= h /\ h < hi[g]
         /\ \/ /\ Cell(view[g], h) = Nil /\ pc' = [pc EXCEPT ![g] = "panic"]
               /\ UNCHANGED <<lo, hi>>
            \/ /\ Cell(view[g], h) # Nil /\ Cell(view[g], h).st >= Target(g)
               /\ hi' = [hi EXCEPT ![g] = h] /\ UNCHANGED <<lo, pc>>
            \/ /\ Cell(view[g], h) # Nil /\ ~(Cell(view[g], h).st >= Target(g))
               /\ lo' = [lo EXCEPT ![g] = h + 1] /\ UNCHANGED <<hi, pc>>
  BY <1>0, ProbeOutcome
<1>2. Cell(view[g], h) # Nil
  <2>1. h \in 0..(view[g].len - 1)
    <3>1. hi[g] \in Nat /\ view[g].len \in Nat
      BY <1>0, SliceType DEF Shape
    <3> QED BY <1>0, <1>1, <3>1
  <2>2. Whole(heap, view[g])
    BY <1>0, GetterHolds
  <2> QED BY <2>1, <2>2, CellAt, KlineType DEF Whole
<1>3. pc' = pc /\ \A q \in Procs \ {g} : lo'[q] = lo[q] /\ hi'[q] = hi[q]
  BY <1>0, <1>1, <1>2 DEF Shape
<1>4. TakenInv(g)'
  <2>1. TakenInv(g)
    BY DEF CacheInv
  <2> QED BY <1>0, <1>3, <2>1 DEF TakenInv
<1>5. Shape'
  BY <1>0, ProbeShape
<1>6. /\ Whole(heap, view[g])
      /\ \A e \in entry : Within(view[g], e, e.len)
      /\ \A p \in Putters : pc[p] # "idle" => Within(view[g], view[p], Size(p))
  BY <1>0, GetterHolds
<1> QED BY <1>0, <1>3, <1>4, <1>5, <1>6, GetterKeeps

LEMMA GetKept ==
    ASSUME CacheInv, NEW g \in Getters, GetStep(g)
    PROVE  CacheInv'
<1>0. /\ Shape /\ HeldInv /\ Shape' /\ UNCHANGED <<heap, entry, todo, puts, known, based>>
      /\ ask' \in [Getters -> Asks] /\ \A f \in Getters \ {g} : ask'[f] = ask[f]
  BY GetOutcome, GetShape DEF CacheInv
<1>1. PICK s \in Slice, l \in Nat, h \in Nat, step \in Steps, o \in Seq(Kline \cup {Nil}) :
         GoesTo(g, s, l, h, step, o) /\ Gets(g, s, l, h, step, o)
  BY <1>0, GetOutcome
<1>2. /\ pc'[g] = step /\ view'[g] = s /\ lo'[g] = l /\ hi'[g] = h /\ out'[g] = o
      /\ \A q \in Procs \ {g} : /\ pc'[q] = pc[q] /\ view'[q] = view[q]
                                /\ lo'[q] = lo[q] /\ hi'[q] = hi[q]
      /\ \A f \in Getters \ {g} : out'[f] = out[f]
  <2>1. g \in Procs
    BY ProcsParts
  <2>2. /\ DOMAIN pc = Procs /\ DOMAIN view = Procs /\ DOMAIN lo = Procs /\ DOMAIN hi = Procs
        /\ DOMAIN out = Getters
    BY <1>0 DEF Shape
  <2> QED BY <1>1, <2>1, <2>2, ProcsParts DEF GoesTo
<1>3. /\ ShapeOf(g) /\ TakenInv(g) /\ lo[g] \in Nat /\ hi[g] \in Nat /\ s.len \in Nat
      /\ out[g] \in Seq(Kline \cup {Nil}) /\ Len(out[g]) \in Nat
  BY <1>0, GetterState, SliceType DEF CacheInv
<1>4. step # "idle" => /\ Whole(heap, s)
                       /\ \A e \in entry : Within(s, e, e.len)
                       /\ \A p \in Putters : pc[p] # "idle" => Within(s, view[p], Size(p))
  <2>1. CASE pc[g] = "idle"
    <3>1. s \in entry /\ \A e \in entry : e = s
      BY <1>0, <1>1, <2>1 DEF Gets, Shape
    <3>2. Whole(heap, s)
      BY <1>0, <3>1 DEF HeldInv
    <3>3. Within(s, s, s.len)
      <4>1. s.off + s.len <= s.off + s.len
        BY SliceType
      <4> QED BY <4>1 DEF Within
    <3>4. \A p \in Putters : pc[p] # "idle" => Within(s, view[p], Size(p))
      BY <3>1 DEF CacheInv, PutInv, AtWork
    <3> QED BY <3>1, <3>2, <3>3, <3>4
  <2>2. CASE pc[g] # "idle"
    <3>1. s = view[g]
      BY <1>1, <2>2 DEF Gets
    <3> QED BY <2>2, <3>1, GetterHolds
  <2> QED BY <2>1, <2>2
<1>5. /\ step # "panic"
      /\ \A i \in DOMAIN o : o[i] \in Kline /\ o[i].st < ask'[g].to
      /\ step \in {"scan", "copy"} => \A i \in 0..(s.len - 1) :
            l + Len(o) <= i /\ i < h => At(heap, s, i).st < ask'[g].to
  <2>1. CASE pc[g] = "idle"
    <3>1. step = "search" /\ o = <<>>
      BY <1>1, <2>1 DEF Gets
    <3> QED BY <3>1
  <2>2. CASE pc[g] = "search"
    <3>1. /\ lo[g] = hi[g] /\ step = "scan" /\ s = view[g] /\ l = lo[g] /\ h = hi[g]
          /\ o = out[g] /\ ask' = ask
      BY <1>1, <2>2 DEF Gets
    <3>2. o = <<>>
      BY <1>3, <2>2, <3>1 DEF ShapeOf
    <3>3. \A i \in 0..(s.len - 1) : ~(l + Len(o) <= i /\ i < h)
      <4>1. Len(o) = 0
        BY <3>2
      <4> QED BY <1>3, <3>1, <4>1
    <3> QED BY <3>1, <3>2, <3>3
  <2>3. CASE pc[g] = "scan"
    <3>1. s = view[g] /\ l = lo[g] /\ o = out[g] /\ ask' = ask
      BY <1>1, <2>3 DEF Gets
    <3>2. o = <<>> /\ Len(o) = 0
      BY <1>3, <2>3, <3>1 DEF ShapeOf
    <3>3. \A i \in 0..(s.len - 1) : l + Len(o) <= i /\ i < hi[g] => At(heap, s, i).st < ask'[g].to
      BY <1>3, <2>3, <3>1 DEF TakenInv
    <3>4. \/ /\ hi[g] < s.len /\ At(heap, s, hi[g]) = Nil
          \/ /\ hi[g] < s.len /\ At(heap, s, hi[g]) # Nil /\ h = hi[g] + 1 /\ step = "scan"
             /\ ~(At(heap, s, hi[g]).st >= ask[g].to)
          \/ /\ h = hi[g] /\ step = "copy"
      BY <1>1, <2>3 DEF Gets
    <3>5. hi[g] < s.len => At(heap, s, hi[g]) \in Kline
      <4>1. Whole(heap, s)
        BY <2>3, <3>1, GetterHolds
      <4>2. hi[g] < s.len => hi[g] \in 0..(s.len - 1)
        BY <1>3
      <4> QED BY <4>1, <4>2 DEF Whole
    <3>6. CASE /\ hi[g] < s.len /\ At(heap, s, hi[g]) # Nil /\ h = hi[g] + 1 /\ step = "scan"
               /\ ~(At(heap, s, hi[g]).st >= ask[g].to)
      <4>1. At(heap, s, hi[g]).st < ask'[g].to
        <5>1. At(heap, s, hi[g]).st \in Nat /\ ask[g].to \in Nat
          <6>1. ask[g] \in Asks /\ Asks \subseteq [from : Nat, to : Nat, limit : Nat]
            BY <1>0, CacheAssumption DEF Shape
          <6> QED BY <3>5, <3>6, <6>1, KlineType
        <5> QED BY <3>1, <3>6, <5>1
      <4>2. ASSUME NEW i \in 0..(s.len - 1), l + Len(o) <= i, i < h
            PROVE  At(heap, s, i).st < ask'[g].to
        <5>1. i = hi[g] \/ i < hi[g]
          BY <1>3, <3>6, <4>2
        <5> QED BY <3>3, <4>1, <4>2, <5>1
      <4> QED BY <3>2, <3>6, <4>2
    <3>7. CASE h = hi[g] /\ step = "copy"
      BY <3>2, <3>3, <3>7
    <3>8. hi[g] < s.len => At(heap, s, hi[g]) # Nil
      BY <3>5, KlineType
    <3> QED BY <3>4, <3>6, <3>7, <3>8
  <2>4. CASE pc[g] = "copy"
    <3>1. /\ s = view[g] /\ l = lo[g] /\ h = hi[g] /\ ask' = ask /\ hi[g] <= s.len
          /\ \/ /\ lo[g] + Len(out[g]) < hi[g] /\ step = "copy"
                /\ o = Append(out[g], At(heap, s, lo[g] + Len(out[g])))
             \/ /\ o = out[g] /\ step = "idle"
      BY <1>1, <1>3, <2>4 DEF Gets, ShapeOf
    <3>2. /\ \A i \in DOMAIN out[g] : out[g][i] \in Kline /\ out[g][i].st < ask[g].to
          /\ \A i \in 0..(s.len - 1) :
                l + Len(out[g]) <= i /\ i < h => At(heap, s, i).st < ask[g].to
      BY <1>3, <2>4, <3>1 DEF TakenInv
    <3>3. CASE o = out[g] /\ step = "idle"
      BY <3>1, <3>2, <3>3
    <3>4. CASE /\ lo[g] + Len(out[g]) < hi[g] /\ step = "copy"
               /\ o = Append(out[g], At(heap, s, lo[g] + Len(out[g])))
      <4> DEFINE j == lo[g] + Len(out[g])
                 x == At(heap, s, j)
      <4>1. j \in 0..(s.len - 1) /\ l + Len(out[g]) <= j /\ j < h /\ j \in Nat
        BY <1>3, <3>1, <3>4, SMTT(20)
      <4>2. x \in Kline
        <5>1. Whole(heap, s)
          BY <2>4, <3>1, GetterHolds
        <5> QED BY <4>1, <5>1 DEF Whole
      <4>3. x.st < ask[g].to
        BY <3>2, <4>1
      <4> HIDE DEF x, j
      <4>4. o = Append(out[g], x) /\ x \in Kline \cup {Nil}
        BY <3>4, <4>2 DEF x, j
      <4>5. /\ Len(o) = Len(out[g]) + 1 /\ DOMAIN o = 1..(Len(out[g]) + 1)
            /\ o[Len(out[g]) + 1] = x
            /\ \A i \in 1..Len(out[g]) : o[i] = out[g][i]
        BY <1>3, <4>4, AppendProperties
      <4>6. ASSUME NEW i \in DOMAIN o PROVE o[i] \in Kline /\ o[i].st < ask[g].to
        <5>1. i \in 1..Len(out[g]) \/ i = Len(out[g]) + 1
          BY <1>3, <4>5
        <5>2. CASE i = Len(out[g]) + 1
          BY <4>2, <4>3, <4>5, <5>2
        <5>3. CASE i \in 1..Len(out[g])
          <6>1. i \in DOMAIN out[g] /\ o[i] = out[g][i]
            BY <1>3, <4>5, <5>3
          <6> QED BY <3>2, <6>1
        <5> QED BY <5>1, <5>2, <5>3
      <4>7. ASSUME NEW i \in 0..(s.len - 1), l + Len(o) <= i, i < h
            PROVE  At(heap, s, i).st < ask[g].to
        <5>1. l + Len(out[g]) <= i
          BY <1>3, <3>1, <4>5, <4>7
        <5> QED BY <3>2, <4>7, <5>1
      <4> QED BY <3>1, <3>4, <4>6, <4>7
    <3> QED BY <3>1, <3>3, <3>4
  <2> QED BY <1>1, <2>1, <2>2, <2>3, <2>4 DEF Gets
<1>6. TakenInv(g)'
  BY <1>0, <1>2, <1>5 DEF TakenInv
<1> QED BY <1>0, <1>2, <1>4, <1>6, GetterKeeps

-----------------------------------------------------------------------------
(* The theorems *)

LEMMA CacheInit == Init => CacheInv
<1> SUFFICES ASSUME Init PROVE CacheInv
  OBVIOUS
<1>1. Shape
  BY InitShape
<1>2. HeldInv /\ \A g \in Getters : TakenInv(g)
  BY ProcsParts DEF Init, HeldInv, TakenInv
<1>3. \A p \in Putters : PutInv(p)
  BY ProcsParts DEF Init, PutInv
<1>4. based \in [Putters -> SUBSET Kline]
  BY DEF Init
<1>5. Single /\ Settled
  BY ProcsParts DEF Init, Single, Settled
<1> QED BY <1>1, <1>2, <1>3, <1>4, <1>5 DEF CacheInv

LEMMA CacheNext == CacheInv /\ ~overlap' /\ [Next]_vars => CacheInv'
<1> SUFFICES ASSUME CacheInv, ~overlap', [Next]_vars PROVE CacheInv'
  OBVIOUS
<1>1. CASE UNCHANGED vars
  <2>1. Shape'
    BY <1>1, NextShape DEF CacheInv
  <2>2. HeldInv'
    BY <1>1 DEF CacheInv, HeldInv, vars
  <2>3. \A g \in Getters : TakenInv(g)'
    BY <1>1 DEF CacheInv, TakenInv, vars
  <2>4. ASSUME NEW p \in Putters PROVE PutInv(p)'
    <3>1. PutInv(p) /\ (AtWork(p) => AtWork(p)')
      BY <1>1 DEF CacheInv, AtWork, Row, Gap, Size, vars
    <3>2. Row(p)' = Row(p) /\ Size(p)' = Size(p)
      BY <1>1 DEF Row, Gap, Size, vars
    <3> QED BY <1>1, <3>1, <3>2 DEF PutInv, vars
  <2>5. based' \in [Putters -> SUBSET Kline]
    BY <1>1 DEF CacheInv, vars
  <2>6. Single' /\ Settled'
    BY <1>1 DEF CacheInv, Single, Settled, vars
  <2> QED BY <2>1, <2>2, <2>3, <2>4, <2>5, <2>6 DEF CacheInv
<1>2. ASSUME NEW p \in Procs, Probe(p) PROVE CacheInv'
  BY <1>2, PutProbeKept, GetProbeKept DEF Procs
<1>3. ASSUME NEW p \in Putters, PutStep(p) PROVE CacheInv'
  <2>1. ASSUME NEW list \in Lists, BeginPut(p, list) PROVE CacheInv'
    BY <2>1, BeginPutKept
  <2>2. CASE Overwrite(p)
    BY <2>2, OverwriteKept
  <2>3. CASE AppendNil(p)
    BY <2>3, AppendKept
  <2>4. CASE ShiftCell(p)
    BY <2>4, ShiftKept
  <2>5. CASE FillGap(p)
    BY <2>5, FillKept
  <2>6. CASE SetEntry(p)
    BY <2>6, SetKept
  <2> QED BY <1>3, <2>1, <2>2, <2>3, <2>4, <2>5, <2>6 DEF PutStep
<1>4. ASSUME NEW g \in Getters, GetStep(g) PROVE CacheInv'
  BY <1>4, GetKept
<1>5. CASE Expire
  BY <1>5, ExpireKept
<1> QED BY <1>1, <1>2, <1>3, <1>4, <1>5 DEF Next

(* Once puts have overlapped, they have. *)
LEMMA OverlapStays == overlap /\ [Next]_vars => overlap'
<1> SUFFICES ASSUME overlap, [Next]_vars PROVE overlap'
  OBVIOUS
<1>1. CASE UNCHANGED vars
  BY <1>1 DEF vars
<1>2. ASSUME NEW p \in Procs, Probe(p) PROVE overlap'
  BY <1>2 DEF Probe
<1>3. ASSUME NEW p \in Putters, PutStep(p) PROVE overlap'
  BY <1>3 DEF PutStep, BeginPut, Overwrite, AppendNil, ShiftCell, FillGap, SetEntry
<1>4. ASSUME NEW g \in Getters, GetStep(g) PROVE overlap'
  BY <1>4 DEF GetStep, BeginGet, BeginScan, ScanCell, EndScan, CopyCell, EndGet
<1>5. CASE Expire
  BY <1>5 DEF Expire
<1> QED BY <1>1, <1>2, <1>3, <1>4, <1>5 DEF Next

LEMMA CacheKept == Spec => [](overlap \/ CacheInv)
  BY CacheInit, CacheNext, OverlapStays, PTL DEF Spec

(* Until two puts run at a time: although a put moves the klines of the slice that
   is being read, no goroutine comes upon the nil pointer of the gap, since the gap is
   beyond the end of every slice that is read. *)
THEOREM NoGapIsRead == Spec => []ReadersSeeKlines
<1>1. CacheInv => ReadersSeeKlines
  <2> SUFFICES ASSUME CacheInv PROVE ReadersSeeKlines
    OBVIOUS
  <2>1. \A p \in Procs : pc[p] # "panic"
    BY DEF CacheInv, Procs, PutInv, TakenInv
  <2>2. \A g \in Getters : \A i \in DOMAIN out[g] : out[g][i] # Nil
    BY KlineType DEF CacheInv, TakenInv
  <2> QED BY <2>1, <2>2 DEF ReadersSeeKlines
<1>2. overlap => ReadersSeeKlines
  BY DEF ReadersSeeKlines
<1> QED BY <1>1, <1>2, CacheKept, PTL

(* Until two puts run at a time: a get serves no kline that starts at or after the
   end of its range, since a cell that is read only ever takes an older kline. *)
THEOREM RangesAreKept == Spec => []ServedBeforeTo
<1>1. CacheInv => ServedBeforeTo
  BY DEF CacheInv, TakenInv, ServedBeforeTo
<1>2. overlap => ServedBeforeTo
  BY DEF ServedBeforeTo
<1> QED BY <1>1, <1>2, CacheKept, PTL

(* Until two puts run at a time: between puts the entry holds the newest MaxItems of the klines put since it
   was made, in order, each in its last version. *)
THEOREM EntryIsNewest == Spec => []QuietSorted
<1>1. CacheInv => QuietSorted
  <2> SUFFICES ASSUME CacheInv, \A p \in Putters : pc[p] = "idle", NEW s \in entry
               PROVE  LET cells == CellsOf(s)
                      IN  /\ {cells[i] : i \in DOMAIN cells} = Newest(known)
                          /\ \A i, j \in DOMAIN cells : i < j => cells[i].st < cells[j].st
    BY DEF QuietSorted, Sorted, Busy
  <2> DEFINE cells == CellsOf(s)
             n == s.len
             c == Reads(heap, s, n, n)
  <2>1. /\ Shape /\ s \in Slice /\ n \in Nat /\ n <= MaxItems
        /\ s.off + n <= Len(heap[s.arr]) /\ heap \in [Arrays -> Seq(Kline \cup {Nil})]
    BY SizeType DEF CacheInv, Shape
  <2>2. Stands(c, n, known)
    BY DEF CacheInv, Settled
  <2>3. /\ DOMAIN cells = 1..n
        /\ \A i \in 0..(n - 1) : cells[i + 1] = c[i]
    <3>1. /\ cells \in Seq(Kline \cup {Nil}) /\ Len(cells) = n
          /\ \A i \in 0..(n - 1) : cells[i + 1] = Cell(s, i)
      BY <2>1, CellsProperties
    <3>2. DOMAIN cells = 1..n
      <4> HIDE DEF cells
      <4> QED BY <3>1
    <3> QED BY <2>1, <3>1, <3>2, CellAt, ReadsAll
  <2> HIDE DEF cells, c, n
  <2>4. {c[i] : i \in 0..(n - 1)} = Newest(known)
    BY <2>1, <2>2, StandsNewest
  <2>5. \A i \in 1..n : i - 1 \in 0..(n - 1) /\ cells[i] = c[i - 1]
    <3> TAKE i \in 1..n
    <3>1. i - 1 \in 0..(n - 1) /\ (i - 1) + 1 = i
      BY <2>1
    <3>2. cells[(i - 1) + 1] = c[i - 1]
      BY <2>3, <3>1
    <3> QED BY <3>1, <3>2
  <2>6. {cells[i] : i \in DOMAIN cells} = {c[i] : i \in 0..(n - 1)}
    <3>1. ASSUME NEW i \in 0..(n - 1) PROVE c[i] \in {cells[j] : j \in DOMAIN cells}
      <4>1. i + 1 \in DOMAIN cells
        BY <2>1, <2>3
      <4> QED BY <2>3, <4>1
    <3> QED BY <2>3, <2>5, <3>1
  <2>7. ASSUME NEW i \in DOMAIN cells, NEW j \in DOMAIN cells, i < j
        PROVE  cells[i].st < cells[j].st
    <3>1. /\ cells[i] = c[i - 1] /\ cells[j] = c[j - 1]
          /\ i - 1 \in 0..(n - 1) /\ j - 1 \in 0..(n - 1)
      BY <2>3, <2>5
    <3>2. i - 1 < j - 1
      BY <2>1, <2>3, <2>7
    <3>3. c[i - 1].st < c[j - 1].st
      BY <2>2, <3>1, <3>2 DEF Stands
    <3> QED BY <3>1, <3>3
  <2> QED BY <2>4, <2>6, <2>7 DEF cells
<1>2. overlap => QuietSorted
  BY DEF QuietSorted
<1> QED BY <1>1, <1>2, CacheKept, PTL

-----------------------------------------------------------------------------
(* What a get returns while nothing is written *)

(* The cells of a slice are in order. *)
Level(h, s) == \A i, j \in 0..(s.len - 1) : i < j => At(h, s, i).st <= At(h, s, j).st

(* A slice that reaches over the row of a put, the gap included, is in order. *)
LEMMA RowLevel ==
    ASSUME NEW h, NEW s \in Slice, NEW n \in Nat, NEW gap \in Nat, NEW B,
           NEW c, c = Reads(h, s, gap, n), Stands(c, n, B), gap < n => At(h, s, gap) = c[gap],
           NEW e \in Slice, e.arr = s.arr, s.off <= e.off, e.off + e.len <= s.off + n
    PROVE  Level(h, e)
<1> DEFINE Q(m) == IF m <= gap THEN m ELSE m - 1
           d == e.off - s.off
<1>1. e.off \in Nat /\ e.len \in Nat /\ s.off \in Nat /\ d \in Nat /\ d + e.len <= n
  BY SliceType
<1>2. ASSUME NEW i \in 0..(e.len - 1)
      PROVE  d + i \in 0..(n - 1) /\ At(h, e, i) = At(h, s, d + i)
  <2>1. d + i \in 0..(n - 1) /\ s.off + (d + i) + 1 = e.off + i + 1
    BY <1>1
  <2> HIDE DEF d
  <2> QED BY <2>1 DEF At
<1>3. ASSUME NEW m \in 0..(n - 1) PROVE Q(m) \in 0..(n - 1) /\ At(h, s, m) = c[Q(m)]
  <2>1. \A i \in 0..(n - 1) : c[i] = At(h, s, IF i < gap THEN i ELSE i + 1)
    BY DEF Reads
  <2>2. CASE m <= gap
    <3>1. m = gap \/ m < gap
      BY <2>2
    <3> QED BY <2>1, <2>2, <3>1
  <2>3. CASE ~(m <= gap)
    <3>1. m - 1 \in 0..(n - 1) /\ ~(m - 1 < gap) /\ (m - 1) + 1 = m
      BY <2>3
    <3> QED BY <2>1, <2>3, <3>1
  <2> QED BY <2>2, <2>3
<1>4. /\ \A i, j \in 0..(n - 1) : i < j => c[i].st < c[j].st
      /\ \A i \in 0..(n - 1) : c[i].st \in Nat
  BY KlineType DEF Stands
<1>5. ASSUME NEW i \in 0..(e.len - 1), NEW j \in 0..(e.len - 1), i < j
      PROVE  At(h, e, i).st <= At(h, e, j).st
  <2> DEFINE m == Q(d + i)
             r == Q(d + j)
  <2>1. At(h, e, i) = c[m] /\ At(h, e, j) = c[r] /\ m \in 0..(n - 1) /\ r \in 0..(n - 1)
    <3> HIDE DEF d, Q
    <3> QED BY <1>2, <1>3
  <2>2. m <= r
    <3>1. d + i \in Nat /\ d + j \in Nat /\ d + i < d + j
      BY <1>1, <1>5
    <3>2. \A x, y \in Nat : x < y => Q(x) <= Q(y)
      OBVIOUS
    <3> HIDE DEF d, Q
    <3> QED BY <3>1, <3>2
  <2> HIDE DEF m, r
  <2>3. m = r \/ m < r
    BY <2>1, <2>2
  <2>4. c[m].st \in Nat /\ c[r].st \in Nat
    BY <1>4, <2>1
  <2>5. c[m].st <= c[r].st
    <3>1. CASE m = r
      BY <2>4, <3>1
    <3>2. CASE m < r
      <4>1. c[m].st < c[r].st
        BY <1>4, <2>1, <3>2
      <4> QED BY <2>4, <4>1
    <3> QED BY <2>3, <3>1, <3>2
  <2> QED BY <2>1, <2>5
<1> QED BY <1>5 DEF Level

(* The entry is in order, also while a put moves its cells, which it does from the front
   of the entry on. *)
LevelInv ==
    \A e \in entry :
       /\ Level(heap, e)
       /\ \A p \in Putters : pc[p] # "idle" /\ e.arr = view[p].arr => view[p].off <= e.off

(* What a get that no write disturbed has found so far. *)
CalmInv(g) == calm[g] /\ pc[g] # "idle" =>
    /\ Level(heap, view[g])
    /\ pc[g] = "search" => \A i \in 0..(view[g].len - 1) :
          /\ i < lo[g] => At(heap, view[g], i).st < ask[g].from
          /\ i >= hi[g] => At(heap, view[g], i).st >= ask[g].from
    /\ pc[g] \in {"scan", "copy"} =>
          /\ \A i \in 0..(view[g].len - 1) :
                /\ i < lo[g] => At(heap, view[g], i).st < ask[g].from
                /\ i >= lo[g] => At(heap, view[g], i).st >= ask[g].from
          /\ ask[g].limit > 0 => hi[g] - lo[g] <= ask[g].limit
    /\ pc[g] = "copy" =>
          /\ ScanEnds(g)
          /\ \A i \in 1..Len(out[g]) : out[g][i] = At(heap, view[g], lo[g] + i - 1)

ServeInv ==
    /\ CacheInv /\ LevelInv /\ calm \in [Getters -> BOOLEAN]
    /\ \A g \in Getters : CalmInv(g)

(* A step of the putter after which it is at work. *)
LEMMA LevelStep ==
    ASSUME CacheInv', LevelInv, NEW p \in Putters, pc'[p] # "idle", UNCHANGED entry,
           \A e \in entry :
              /\ e.arr = view'[p].arr => view'[p].off <= e.off
              /\ e.arr # view'[p].arr => heap'[e.arr] = heap[e.arr]
    PROVE  LevelInv'
<1> DEFINE s == view'[p]
           n == Size(p)'
           gap == Gap(p)'
           c == Row(p)'
           B == based'[p]
<1>1. /\ c = Reads(heap', s, gap, n) /\ Stands(c, n, B)
      /\ \A e \in entry : Within(e, s, n)
  BY DEF CacheInv, PutInv, AtWork, Row
<1>2. s \in Slice /\ n \in Nat /\ gap \in Nat /\ (gap < n => At(heap', s, gap) = c[gap])
  <2>1. s \in Slice /\ s.len \in Nat /\ hi'[p] \in Nat /\ ShapeOf(p)'
    BY ProcsParts, SliceType DEF CacheInv, Shape
  <2>2. CASE pc'[p] = "insert"
    <3>1. n = s.len - 1 /\ gap = hi'[p]
      BY <2>2 DEF Size, Gap
    <3>2. hi'[p] < n => At(heap', s, hi'[p]) = c[hi'[p]]
      BY <2>2 DEF CacheInv, PutInv
    <3>3. s.len >= hi'[p] + 1
      BY <2>1, <2>2 DEF ShapeOf
    <3> HIDE DEF s, n, gap, c
    <3> QED BY <2>1, <3>1, <3>2, <3>3
  <2>3. CASE pc'[p] # "insert"
    <3>1. n = s.len /\ gap = s.len
      BY <2>3 DEF Size, Gap
    <3> HIDE DEF s, n, gap, c
    <3> QED BY <2>1, <3>1
  <2> QED BY <2>2, <2>3
<1>3. ASSUME NEW e \in entry PROVE Level(heap', e)
  <2>1. e \in Slice
    BY DEF CacheInv, Shape
  <2>2. CASE e.arr = s.arr
    <3>1. e.off + e.len <= s.off + n /\ s.off <= e.off
      BY <1>1, <2>2 DEF Within
    <3> HIDE DEF s, n, gap, c, B
    <3> QED BY <1>1, <1>2, <2>1, <2>2, <3>1, RowLevel
  <2>3. CASE e.arr # s.arr
    <3>1. heap'[e.arr] = heap[e.arr] /\ Level(heap, e)
      BY <2>3 DEF LevelInv
    <3> QED BY <3>1 DEF Level, At
  <2> QED BY <2>2, <2>3
<1>4. \A q \in Putters : pc'[q] # "idle" => q = p
  BY DEF CacheInv, Single
<1> QED BY <1>3, <1>4 DEF LevelInv

(* A step after which no put is under way, or that leaves no entry. *)
LEMMA LevelIdle ==
    ASSUME CacheInv', (\A p \in Putters : pc'[p] = "idle") \/ entry' = {}
    PROVE  LevelInv'
<1>2. ASSUME NEW e \in entry' PROVE Level(heap', e)
  <2>1. e \in Slice /\ e.len \in Nat /\ e.off + e.len <= e.off + e.len
    BY SliceType DEF CacheInv, Shape
  <2>2. Stands(Reads(heap', e, e.len, e.len), e.len, known')
    BY <1>2 DEF CacheInv, Settled
  <2>3. ~(e.len < e.len) /\ e.off <= e.off
    BY <2>1, SliceType
  <2> QED BY <2>1, <2>2, <2>3, RowLevel
<1> QED BY <1>2 DEF LevelInv

(* A step that writes no cell of another array than the putter's. *)
LEMMA OneArray ==
    ASSUME Shape, NEW s \in Slice, NEW i, NEW k, heap' = Written(s, i, k)
    PROVE  \A a \in Arrays : a # s.arr => heap'[a] = heap[a]
  BY SliceType DEF Shape, Written

(* Nothing that the order of the entry depends on changes. *)
LEMMA LevelStays ==
    ASSUME LevelInv, UNCHANGED <<heap, entry>>,
           \A p \in Putters : pc'[p] = pc[p] /\ view'[p] = view[p]
    PROVE  LevelInv'
  BY DEF LevelInv

LEMMA LevelNext == CacheInv /\ CacheInv' /\ LevelInv /\ [Next]_vars => LevelInv'
<1> SUFFICES ASSUME CacheInv, CacheInv', LevelInv, [Next]_vars PROVE LevelInv'
  OBVIOUS
<1>1. /\ Shape /\ \A e \in entry : e \in Slice /\ e.arr \in Arrays
      /\ \A p \in Putters :
            /\ p \in Procs /\ p \notin Getters /\ view[p] \in Slice
            /\ pc[p] # "idle" => \A e \in entry : e.arr = view[p].arr => view[p].off <= e.off
  BY ProcsParts, SliceType DEF CacheInv, Shape, LevelInv
<1>2. \A p \in Procs : pc'[p] # "panic"
  BY ProcsParts DEF CacheInv, PutInv, TakenInv, Procs
<1>3. CASE UNCHANGED vars
  BY <1>3, LevelStays DEF vars
<1>4. ASSUME NEW q \in Procs, Probe(q) PROVE LevelInv'
  <2>1. UNCHANGED <<heap, entry, view>> /\ (pc' = pc \/ pc' = [pc EXCEPT ![q] = "panic"])
    BY <1>4 DEF Probe, Goto
  <2>2. pc' = pc
    BY <1>1, <1>2, <2>1 DEF Shape
  <2> QED BY <2>1, <2>2, LevelStays
<1>5. ASSUME NEW g \in Getters, GetStep(g) PROVE LevelInv'
  <2>1. UNCHANGED <<heap, entry>>
    BY <1>1, <1>5, GetOutcome
  <2>2. PICK s, l, h, step, o : GoesTo(g, s, l, h, step, o)
    BY <1>1, <1>5, GetOutcome
  <2>3. \A p \in Putters : pc'[p] = pc[p] /\ view'[p] = view[p]
    BY <1>1, <2>2 DEF GoesTo, Shape
  <2> QED BY <2>1, <2>3, LevelStays
<1>6. CASE Expire
  <2>1. entry' = {}
    BY <1>6 DEF Expire
  <2> QED BY <2>1, LevelIdle
<1>7. ASSUME NEW p \in Putters, PutStep(p) PROVE LevelInv'
  (* A put writes into its slice. *)
  <2>1. ASSUME NEW i, NEW k, heap' = Written(view[p], i, k), pc[p] # "idle", pc'[p] # "idle",
               UNCHANGED <<entry, view>>
        PROVE  LevelInv'
    <3>1. \A a \in Arrays : a # view[p].arr => heap'[a] = heap[a]
      BY <1>1, <2>1, OneArray
    <3> QED BY <1>1, <2>1, <3>1, LevelStep
  (* It goes on to its next kline. *)
  <2>2. Found(p) \/ pc[p] = "insert" => todo[p] # <<>>
    BY <1>1 DEF Found, Shape, ShapeOf
  <2>3. todo[p] # <<>> /\ Advance(p) => pc'[p] # "idle"
    <3>1. todo[p] # <<>> /\ Advance(p) =>
             pc' = [pc EXCEPT ![p] = "set"] \/ pc' = [pc EXCEPT ![p] = "search"]
      BY <1>1, AdvanceOutcome
    <3> QED BY <1>1, <3>1 DEF Shape
  <2>4. ASSUME NEW list \in Lists, BeginPut(p, list) PROVE LevelInv'
    <3>1. /\ pc' = [pc EXCEPT ![p] = "search"] /\ UNCHANGED entry
          /\ \/ \E s \in entry : view' = [view EXCEPT ![p] = s] /\ UNCHANGED heap
             \/ entry = {}
      BY <1>1, <2>4, BeginPutOutcome
    <3>2. pc'[p] # "idle"
      BY <1>1, <3>1 DEF Shape
    <3>3. CASE entry = {}
      BY <3>1, <3>3, LevelIdle
    <3>4. CASE \E s \in entry : view' = [view EXCEPT ![p] = s] /\ UNCHANGED heap
      <4>1. PICK s \in entry : view' = [view EXCEPT ![p] = s] /\ UNCHANGED heap
        BY <3>4
      <4>2. view'[p] = s /\ \A e \in entry : e = s
        BY <1>1, <4>1 DEF Shape
      <4>3. s.off <= s.off
        BY <1>1, SliceType
      <4> QED BY <3>1, <3>2, <4>1, <4>2, <4>3, LevelStep
    <3> QED BY <3>1, <3>3, <3>4
  <2>5. CASE Overwrite(p)
    <3>1. pc[p] = "search" /\ Found(p) /\ UNCHANGED <<entry, view>>
      BY <2>5 DEF Overwrite, Found
    <3>2. \/ heap' = Written(view[p], lo[p], Head(todo[p])) /\ Advance(p)
          \/ pc' = [pc EXCEPT ![p] = "panic"]
      BY <1>1, <2>5, OverwriteOutcome
    <3>3. heap' = Written(view[p], lo[p], Head(todo[p])) /\ Advance(p)
      BY <1>1, <1>2, <3>2 DEF Shape
    <3> QED BY <2>1, <2>2, <2>3, <3>1, <3>3
  <2>6. CASE AppendNil(p)
    <3>1. /\ pc[p] = "search" /\ pc' = [pc EXCEPT ![p] = "insert"] /\ UNCHANGED entry
      BY <1>1, <2>6, AppendOutcome DEF Found
    <3>2. PICK s \in Slice :
             /\ view' = [view EXCEPT ![p] = s]
             /\ \A a \in Arrays : a # s.arr => heap'[a] = heap[a]
             /\ s.arr = NewArray \/ (s.arr = view[p].arr /\ s.off = view[p].off)
      BY <1>1, <2>6, AppendOutcome
    <3>3. view'[p] = s /\ pc'[p] # "idle" /\ pc[p] # "idle"
      BY <1>1, <3>1, <3>2 DEF Shape
    <3>4. \A e \in entry : e.arr # NewArray
      BY <1>1, NewArrayUnused
    <3> QED BY <1>1, <3>1, <3>2, <3>3, <3>4, LevelStep
  <2>7. CASE ShiftCell(p)
    <3>1. /\ pc[p] = "insert" /\ UNCHANGED <<entry, pc, view>>
          /\ heap' = Written(view[p], hi[p], At(heap, view[p], hi[p] - 1))
      BY <1>1, <2>7, ShiftOutcome
    <3> QED BY <2>1, <3>1
  <2>8. CASE FillGap(p)
    <3>1. /\ pc[p] = "insert" /\ UNCHANGED <<entry, view>> /\ Advance(p)
          /\ heap' = Written(view[p], lo[p], Head(todo[p]))
      BY <1>1, <2>8, FillOutcome
    <3> QED BY <2>1, <2>2, <2>3, <3>1
  <2>9. CASE SetEntry(p)
    <3>1. pc[p] = "set" /\ pc' = [pc EXCEPT ![p] = "idle"]
      BY <1>1, <2>9, SetShape
    <3>2. \A q \in Putters : pc'[q] = "idle"
      <4>1. \A q \in Putters : pc[q] = "idle" \/ q = p
        BY <3>1 DEF CacheInv, Single
      <4> QED BY <1>1, <3>1, <4>1 DEF Shape
    <3> QED BY <3>2, LevelIdle
  <2> QED BY <1>7, <2>4, <2>5, <2>6, <2>7, <2>8, <2>9 DEF PutStep
<1> QED BY <1>3, <1>4, <1>5, <1>6, <1>7 DEF Next

(* Another goroutine moves: what a calm get reads is not written. *)
LEMMA CalmOthers ==
    ASSUME CacheInv, NEW g \in Getters, CalmInv(g),
           pc'[g] = pc[g], view'[g] = view[g], lo'[g] = lo[g], hi'[g] = hi[g],
           out'[g] = out[g], ask'[g] = ask[g],
           calm'[g] /\ pc[g] # "idle" => calm[g] /\ heap'[view[g].arr] = heap[view[g].arr]
    PROVE  CalmInv(g)'
<1> SUFFICES ASSUME calm'[g], pc[g] # "idle" PROVE CalmInv(g)'
  BY DEF CalmInv
<1>1. calm[g] /\ \A i : At(heap', view[g], i) = At(heap, view[g], i)
  BY DEF At
<1>2. Level(heap, view[g]) => Level(heap', view[g])
  BY <1>1 DEF Level
<1>3. ScanEnds(g) => ScanEnds(g)'
  <2>1. Cell(view[g], hi[g])' = Cell(view[g], hi[g])
    BY DEF Cell
  <2> QED BY <2>1 DEF ScanEnds, Beyond
<1> QED BY <1>1, <1>2, <1>3 DEF CalmInv

(* What a getter at work reads. *)
LEMMA CalmReads ==
    ASSUME CacheInv, NEW g \in Getters, pc[g] # "idle"
    PROVE  /\ Shape /\ g \in Procs /\ g \notin Putters /\ view[g] \in Slice
           /\ view[g].len \in Nat /\ lo[g] \in Nat /\ hi[g] \in Nat
           /\ Len(out[g]) \in Nat /\ out[g] \in Seq(Kline \cup {Nil})
           /\ ask[g].from \in Nat /\ ask[g].to \in Nat /\ ask[g].limit \in Nat
           /\ ask \in [Getters -> Asks]
           /\ \A i \in 0..(view[g].len - 1) :
                 /\ At(heap, view[g], i) \in Kline /\ At(heap, view[g], i) # Nil
                 /\ At(heap, view[g], i).st \in Nat
<1>1. Shape /\ Whole(heap, view[g])
  BY GetterHolds DEF CacheInv
<1>2. ask \in [Getters -> Asks] /\ ask[g] \in [from : Nat, to : Nat, limit : Nat]
  BY <1>1, CacheAssumption DEF Shape
<1> QED BY <1>1, <1>2, GetterState, KlineType DEF Whole

(* One probe of the search of a get. *)
LEMMA CalmProbe ==
    ASSUME CacheInv, NEW g \in Getters, CalmInv(g), Probe(g)
    PROVE  CalmInv(g)'
<1>0. /\ Shape /\ pc[g] = "search" /\ lo[g] < hi[g] /\ hi[g] <= view[g].len /\ g \in Procs
      /\ UNCHANGED <<heap, view, ask, calm>>
  BY ProbeOutcome, ProcsParts DEF CacheInv, Probe
<1>1. PICK h \in Nat :
         /\ lo[g] <= h /\ h < hi[g]
         /\ \/ /\ Cell(view[g], h) = Nil /\ pc' = [pc EXCEPT ![g] = "panic"]
               /\ UNCHANGED <<lo, hi>>
            \/ /\ Cell(view[g], h) # Nil /\ Cell(view[g], h).st >= Target(g)
               /\ hi' = [hi EXCEPT ![g] = h] /\ UNCHANGED <<lo, pc>>
            \/ /\ Cell(view[g], h) # Nil /\ ~(Cell(view[g], h).st >= Target(g))
               /\ lo' = [lo EXCEPT ![g] = h + 1] /\ UNCHANGED <<hi, pc>>
  BY <1>0, ProbeOutcome
<1> DEFINE v == view[g]
<1>2. /\ v.len \in Nat /\ lo[g] \in Nat /\ hi[g] \in Nat /\ ask[g].from \in Nat
      /\ g \notin Putters
      /\ \A i \in 0..(v.len - 1) : At(heap, v, i) # Nil /\ At(heap, v, i).st \in Nat
  BY <1>0, CalmReads
<1>3. h \in 0..(v.len - 1) /\ Target(g) = ask[g].from /\ Cell(v, h) = At(heap, v, h)
  BY <1>0, <1>1, <1>2, CellAt DEF Target
<1> SUFFICES ASSUME calm[g] PROVE CalmInv(g)'
  BY <1>0 DEF CalmInv
<1>4. /\ Level(heap, v)
      /\ \A i \in 0..(v.len - 1) : /\ i < lo[g] => At(heap, v, i).st < ask[g].from
                                   /\ i >= hi[g] => At(heap, v, i).st >= ask[g].from
  BY <1>0 DEF CalmInv
<1> HIDE DEF v
<1>5. /\ pc' = pc
      /\ \A i \in 0..(v.len - 1) : /\ i < lo'[g] => At(heap, v, i).st < ask[g].from
                                   /\ i >= hi'[g] => At(heap, v, i).st >= ask[g].from
  <2>1. CASE At(heap, v, h).st >= ask[g].from /\ hi' = [hi EXCEPT ![g] = h] /\ UNCHANGED <<lo, pc>>
    <3>1. hi'[g] = h /\ lo'[g] = lo[g] /\ pc' = pc
      BY <1>0, <2>1 DEF Shape
    <3>2. ASSUME NEW i \in 0..(v.len - 1), i >= h PROVE At(heap, v, i).st >= ask[g].from
      <4>1. i = h \/ h < i
        BY <1>3, <3>2
      <4>2. h < i => At(heap, v, h).st <= At(heap, v, i).st
        BY <1>3, <1>4 DEF Level
      <4> QED BY <1>2, <1>3, <2>1, <4>1, <4>2
    <3> QED BY <1>4, <3>1, <3>2
  <2>2. CASE /\ ~(At(heap, v, h).st >= ask[g].from) /\ lo' = [lo EXCEPT ![g] = h + 1]
             /\ UNCHANGED <<hi, pc>>
    <3>1. lo'[g] = h + 1 /\ hi'[g] = hi[g] /\ pc' = pc
      BY <1>0, <2>2 DEF Shape
    <3>2. ASSUME NEW i \in 0..(v.len - 1), i < h + 1 PROVE At(heap, v, i).st < ask[g].from
      <4>1. i = h \/ i < h
        BY <1>3, <3>2
      <4>2. i < h => At(heap, v, i).st <= At(heap, v, h).st
        BY <1>3, <1>4 DEF Level
      <4> QED BY <1>2, <1>3, <2>2, <4>1, <4>2
    <3> QED BY <1>4, <3>1, <3>2
  <2> QED BY <1>1, <1>2, <1>3, <2>1, <2>2 DEF v
<1>6. view'[g] = v /\ pc'[g] = "search"
  BY <1>0, <1>5 DEF v
<1> QED BY <1>0, <1>4, <1>5, <1>6 DEF CalmInv

(* A get begins. *)
LEMMA CalmBegin ==
    ASSUME CacheInv, LevelInv, NEW g \in Getters, NEW a \in Asks, BeginGet(g, a)
    PROVE  CalmInv(g)'
<1> DEFINE s == CHOOSE r \in entry : TRUE
<1>1. /\ entry # {} /\ view' = [view EXCEPT ![g] = s] /\ lo' = [lo EXCEPT ![g] = 0]
      /\ hi' = [hi EXCEPT ![g] = view'[g].len] /\ pc' = [pc EXCEPT ![g] = "search"]
      /\ UNCHANGED heap
  BY DEF BeginGet, SearchIn, Goto
<1>2. s \in entry
  BY <1>1
<1> HIDE DEF s
<1>3. /\ view'[g] = s /\ lo'[g] = 0 /\ hi'[g] = s.len /\ pc'[g] = "search" /\ s.len \in Nat
  BY <1>1, <1>2, ProcsParts, SliceType DEF CacheInv, Shape
<1>4. Level(heap', s)
  BY <1>1, <1>2 DEF LevelInv
<1>5. \A i \in 0..(s.len - 1) : ~(i < 0) /\ ~(i >= s.len)
  BY <1>3
<1> QED BY <1>3, <1>4, <1>5 DEF CalmInv

LEMMA CalmScan ==
    ASSUME CacheInv, NEW g \in Getters, CalmInv(g), BeginScan(g) \/ ScanCell(g) \/ EndScan(g)
    PROVE  CalmInv(g)'
<1>0. /\ UNCHANGED <<heap, view, lo, ask, out, calm>> /\ pc[g] \in {"search", "scan"}
  BY DEF BeginScan, ScanCell, EndScan, Found
<1> SUFFICES ASSUME calm[g] PROVE CalmInv(g)'
  BY <1>0 DEF CalmInv
<1> DEFINE v == view[g]
<1>1. /\ Shape /\ g \in Procs /\ v.len \in Nat /\ lo[g] \in Nat /\ hi[g] \in Nat
      /\ ask[g].limit \in Nat /\ ShapeOf(g)
      /\ \A i \in 0..(v.len - 1) : At(heap, v, i) # Nil
  BY <1>0, CalmReads, GetterState
<1>2. Level(heap, v)
  BY <1>0 DEF CalmInv
<1>3. CASE BeginScan(g)
  <2>1. pc[g] = "search" /\ lo[g] = hi[g] /\ hi' = hi /\ pc'[g] = "scan"
    BY <1>1, <1>3 DEF BeginScan, Found, Goto, Shape
  <2>2. \A i \in 0..(v.len - 1) : /\ i < lo[g] => At(heap, v, i).st < ask[g].from
                                  /\ i >= lo[g] => At(heap, v, i).st >= ask[g].from
    BY <2>1 DEF CalmInv
  <2>3. hi[g] - lo[g] <= ask[g].limit
    BY <1>1, <2>1
  <2> QED BY <1>0, <1>2, <2>1, <2>2, <2>3 DEF CalmInv
<1>4. CASE ScanCell(g)
  <2>1. /\ pc[g] = "scan" /\ ~ScanEnds(g)
        /\ IF Cell(v, hi[g]) = Nil THEN pc' = [pc EXCEPT ![g] = "panic"] /\ UNCHANGED hi
           ELSE hi' = [hi EXCEPT ![g] = hi[g] + 1] /\ UNCHANGED pc
    BY <1>4 DEF ScanCell, Goto
  <2>2. /\ \A i \in 0..(v.len - 1) : /\ i < lo[g] => At(heap, v, i).st < ask[g].from
                                     /\ i >= lo[g] => At(heap, v, i).st >= ask[g].from
        /\ ask[g].limit > 0 => hi[g] - lo[g] <= ask[g].limit
    BY <2>1 DEF CalmInv
  <2>3. hi[g] \in 0..(v.len - 1)
    <3>1. hi[g] <= v.len /\ hi[g] # v.len
      BY <1>1, <2>1 DEF ShapeOf, ScanEnds
    <3> QED BY <1>1, <3>1
  <2>4. hi'[g] = hi[g] + 1 /\ pc'[g] = "scan"
    <3>1. Cell(v, hi[g]) # Nil
      BY <1>1, <2>3, CellAt
    <3> HIDE DEF v
    <3> QED BY <1>1, <2>1, <3>1 DEF Shape
  <2>5. ask[g].limit > 0 => hi'[g] - lo[g] <= ask[g].limit
    <3>1. ask[g].limit > 0 => hi[g] - lo[g] # ask[g].limit
      <4>1. hi[g] < v.len /\ Cell(v, hi[g]) # Nil
        BY <1>1, <2>3, CellAt
      <4> QED BY <2>1, <4>1 DEF ScanEnds
    <3> QED BY <1>1, <2>2, <2>4, <3>1
  <2> QED BY <1>0, <1>2, <2>2, <2>4, <2>5 DEF CalmInv
<1>5. CASE EndScan(g)
  <2>1. pc[g] = "scan" /\ ScanEnds(g) /\ hi' = hi /\ pc'[g] = "copy"
    BY <1>1, <1>5 DEF EndScan, Goto, Shape
  <2>2. /\ \A i \in 0..(v.len - 1) : /\ i < lo[g] => At(heap, v, i).st < ask[g].from
                                     /\ i >= lo[g] => At(heap, v, i).st >= ask[g].from
        /\ ask[g].limit > 0 => hi[g] - lo[g] <= ask[g].limit
    BY <2>1 DEF CalmInv
  <2>3. ScanEnds(g)'
    BY <1>0, <2>1 DEF ScanEnds, Beyond, Cell
  <2>4. \A i \in 1..Len(out[g]) : out[g][i] = At(heap, v, lo[g] + i - 1)
    <3>1. out[g] = <<>>
      BY <1>1, <2>1 DEF ShapeOf
    <3>2. Len(out[g]) = 0
      BY <3>1
    <3> QED BY <3>2
  <2> QED BY <1>0, <1>2, <2>1, <2>2, <2>3, <2>4 DEF CalmInv
<1> QED BY <1>3, <1>4, <1>5

LEMMA CalmCopy ==
    ASSUME CacheInv, NEW g \in Getters, CalmInv(g), CopyCell(g) \/ EndGet(g)
    PROVE  CalmInv(g)'
<1>0. /\ UNCHANGED <<heap, view, lo, hi, ask, calm>> /\ pc[g] = "copy"
  BY DEF CopyCell, EndGet
<1>1. /\ Shape /\ g \in Procs /\ view[g].len \in Nat /\ lo[g] \in Nat /\ hi[g] \in Nat
      /\ Len(out[g]) \in Nat /\ out[g] \in Seq(Kline \cup {Nil})
      /\ \A i \in 0..(view[g].len - 1) : At(heap, view[g], i) \in Kline
      /\ ShapeOf(g)
  BY <1>0, CalmReads, GetterState
<1>2. CASE EndGet(g)
  <2>1. pc'[g] = "idle"
    BY <1>1, <1>2 DEF EndGet, Goto, Shape
  <2> QED BY <2>1 DEF CalmInv
<1>3. CASE CopyCell(g)
  <2> SUFFICES ASSUME calm[g] PROVE CalmInv(g)'
    BY <1>0 DEF CalmInv
  <2> DEFINE j == lo[g] + Len(out[g])
             x == At(heap, view[g], j)
  <2>1. /\ pc' = pc /\ j < hi[g] /\ out' = [out EXCEPT ![g] = Append(out[g], x)]
    BY <1>3, CellAt DEF CopyCell
  <2>2. x \in Kline \cup {Nil}
    <3>1. hi[g] <= view[g].len
      BY <1>0, <1>1 DEF ShapeOf
    <3>2. j \in 0..(view[g].len - 1)
      BY <1>1, <2>1, <3>1, SMTT(20)
    <3> HIDE DEF j
    <3> QED BY <1>1, <3>2
  <2>3. \A i \in 1..Len(out[g]) : out[g][i] = At(heap, view[g], lo[g] + i - 1)
    BY <1>0 DEF CalmInv
  <2>4. out'[g] = Append(out[g], x)
    <3> HIDE DEF x
    <3> QED BY <2>1 DEF Shape, CacheInv
  <2>5. /\ Len(out'[g]) = Len(out[g]) + 1 /\ out'[g][Len(out[g]) + 1] = x
        /\ \A i \in 1..Len(out[g]) : out'[g][i] = out[g][i]
    <3> HIDE DEF x
    <3> QED BY <1>1, <2>2, <2>4, AppendProperties
  <2>6. ASSUME NEW i \in 1..Len(out'[g])
        PROVE  out'[g][i] = At(heap, view[g], lo[g] + i - 1)
    <3>1. i \in 1..Len(out[g]) \/ i = Len(out[g]) + 1
      BY <1>1, <2>5
    <3>2. CASE i \in 1..Len(out[g])
      BY <2>3, <2>5, <3>2
    <3>3. CASE i = Len(out[g]) + 1
      <4>1. lo[g] + i - 1 = j
        BY <1>1, <3>3
      <4> HIDE DEF j
      <4> QED BY <2>5, <3>3, <4>1
    <3> QED BY <3>1, <3>2, <3>3
  <2>7. ScanEnds(g)'
    <3>1. ScanEnds(g)
      BY <1>0 DEF CalmInv
    <3> QED BY <1>0, <3>1 DEF ScanEnds, Beyond, Cell
  <2>8. /\ Level(heap, view[g])
        /\ \A i \in 0..(view[g].len - 1) :
              /\ i < lo[g] => At(heap, view[g], i).st < ask[g].from
              /\ i >= lo[g] => At(heap, view[g], i).st >= ask[g].from
        /\ ask[g].limit > 0 => hi[g] - lo[g] <= ask[g].limit
    BY <1>0 DEF CalmInv
  <2> QED BY <1>0, <2>1, <2>6, <2>7, <2>8 DEF CalmInv
<1> QED BY <1>2, <1>3

(* A step that disturbs a calm get leaves it alone, but for a write, after which it is
   calm no more. *)
LEMMA CalmNext ==
    ASSUME CacheInv, LevelInv, calm \in [Getters -> BOOLEAN], [Next]_vars
    PROVE  /\ calm' \in [Getters -> BOOLEAN]
           /\ \A g \in Getters : CalmInv(g) => CalmInv(g)'
<1>1. /\ Shape
      /\ \A g \in Getters : /\ g \in Procs /\ g \notin Putters /\ view[g].arr \in Arrays
                            /\ pc[g] # "idle" => view[g].arr # NewArray
  <2>1. Shape
    BY DEF CacheInv
  <2> QED BY <2>1, GetterState, NewArrayUnused
(* No get moves. *)
<1>2. ASSUME \A g \in Getters : /\ pc'[g] = pc[g] /\ view'[g] = view[g]
                                /\ lo'[g] = lo[g] /\ hi'[g] = hi[g],
             UNCHANGED <<out, ask>>,
             \/ calm' = [g \in Getters |-> FALSE]
             \/ /\ UNCHANGED calm
                /\ \A a \in Arrays : a # NewArray => heap'[a] = heap[a]
      PROVE  /\ calm' \in [Getters -> BOOLEAN]
             /\ \A g \in Getters : CalmInv(g) => CalmInv(g)'
  <2>1. calm' \in [Getters -> BOOLEAN]
    BY <1>2
  <2>2. ASSUME NEW g \in Getters, CalmInv(g) PROVE CalmInv(g)'
    <3>1. calm'[g] /\ pc[g] # "idle" => calm[g] /\ heap'[view[g].arr] = heap[view[g].arr]
      BY <1>1, <1>2
    <3> QED BY <1>2, <2>2, <3>1, CalmOthers
  <2> QED BY <2>1, <2>2
(* Only the get g moves. *)
<1>3. ASSUME NEW g \in Getters, UNCHANGED heap,
             \A f \in Getters \ {g} : /\ pc'[f] = pc[f] /\ view'[f] = view[f]
                                      /\ lo'[f] = lo[f] /\ hi'[f] = hi[f]
                                      /\ out'[f] = out[f] /\ ask'[f] = ask[f],
             UNCHANGED calm \/ calm' = [calm EXCEPT ![g] = TRUE],
             CalmInv(g) => CalmInv(g)'
      PROVE  /\ calm' \in [Getters -> BOOLEAN]
             /\ \A f \in Getters : CalmInv(f) => CalmInv(f)'
  <2>1. calm' \in [Getters -> BOOLEAN] /\ \A f \in Getters \ {g} : calm'[f] = calm[f]
    BY <1>3
  <2>2. ASSUME NEW f \in Getters, CalmInv(f) PROVE CalmInv(f)'
    <3>1. CASE f = g
      BY <1>3, <2>2, <3>1
    <3>2. CASE f # g
      <4>1. f \in Getters \ {g}
        BY <3>2
      <4> QED BY <1>3, <2>1, <2>2, <4>1, CalmOthers
    <3> QED BY <3>1, <3>2
  <2> QED BY <2>1, <2>2
<1>4. CASE UNCHANGED vars
  <2>1. UNCHANGED <<heap, pc, view, lo, hi, out, ask, calm>>
    BY <1>4 DEF vars
  <2> QED BY <1>2, <2>1
<1>5. ASSUME NEW g \in Getters, Probe(g)
      PROVE  /\ calm' \in [Getters -> BOOLEAN]
             /\ \A f \in Getters : CalmInv(f) => CalmInv(f)'
  <2>1. UNCHANGED <<heap, view, out, ask, calm>>
    BY <1>5 DEF Probe
  <2>2. \A f \in Getters \ {g} : pc'[f] = pc[f] /\ lo'[f] = lo[f] /\ hi'[f] = hi[f]
    <3>1. /\ pc' = pc \/ \E x : pc' = [pc EXCEPT ![g] = x]
          /\ lo' = lo \/ \E x : lo' = [lo EXCEPT ![g] = x]
          /\ hi' = hi \/ \E x : hi' = [hi EXCEPT ![g] = x]
      BY <1>5 DEF Probe, Goto
    <3> QED BY <1>1, <3>1 DEF Shape
  <2>3. CalmInv(g) => CalmInv(g)'
    BY <1>5, CalmProbe
  <2> QED BY <1>3, <2>1, <2>2, <2>3
<1>6. ASSUME NEW p \in Putters, Probe(p)
      PROVE  /\ calm' \in [Getters -> BOOLEAN]
             /\ \A f \in Getters : CalmInv(f) => CalmInv(f)'
  <2>1. UNCHANGED <<heap, view, out, ask, calm>>
    BY <1>6 DEF Probe
  <2>2. \A f \in Getters : pc'[f] = pc[f] /\ lo'[f] = lo[f] /\ hi'[f] = hi[f]
    <3>1. /\ pc' = pc \/ \E x : pc' = [pc EXCEPT ![p] = x]
          /\ lo' = lo \/ \E x : lo' = [lo EXCEPT ![p] = x]
          /\ hi' = hi \/ \E x : hi' = [hi EXCEPT ![p] = x]
      BY <1>6 DEF Probe, Goto
    <3> QED BY <1>1, <3>1 DEF Shape
  <2> QED BY <1>2, <2>1, <2>2
<1>7. ASSUME NEW p \in Putters, PutStep(p)
      PROVE  /\ calm' \in [Getters -> BOOLEAN]
             /\ \A f \in Getters : CalmInv(f) => CalmInv(f)'
  <2>1. UNCHANGED <<out, ask>>
    BY <1>7 DEF PutStep, BeginPut, Overwrite, AppendNil, ShiftCell, FillGap, SetEntry
  <2>2. \A g \in Getters : /\ pc'[g] = pc[g] /\ view'[g] = view[g]
                           /\ lo'[g] = lo[g] /\ hi'[g] = hi[g]
    <3>1. /\ pc' = pc \/ \E x : pc' = [pc EXCEPT ![p] = x]
          /\ view' = view \/ \E x : view' = [view EXCEPT ![p] = x]
          /\ lo' = lo \/ \E x : lo' = [lo EXCEPT ![p] = x]
          /\ hi' = hi \/ \E x : hi' = [hi EXCEPT ![p] = x]
      <4>1. CASE \E list \in Lists : BeginPut(p, list)
        BY <4>1 DEF BeginPut, Goto, SearchIn
      <4>2. CASE Overwrite(p)
        BY <4>2 DEF Overwrite, Advance, Goto, SearchIn
      <4>3. CASE AppendNil(p)
        <5>1. \E s \in Slice : view' = [view EXCEPT ![p] = s]
          BY <1>1, <4>3, AppendOutcome
        <5> QED BY <4>3, <5>1 DEF AppendNil, Goto
      <4>4. CASE ShiftCell(p)
        BY <4>4 DEF ShiftCell
      <4>5. CASE FillGap(p)
        BY <4>5 DEF FillGap, Advance, Goto, SearchIn
      <4>6. CASE SetEntry(p)
        BY <4>6 DEF SetEntry, Goto
      <4> QED BY <1>7, <4>1, <4>2, <4>3, <4>4, <4>5, <4>6 DEF PutStep
    <3> QED BY <1>1, <3>1 DEF Shape
  <2>3. \/ calm' = [g \in Getters |-> FALSE]
        \/ /\ UNCHANGED calm
           /\ heap' = heap \/ \E c : heap' = [heap EXCEPT ![NewArray] = c]
    <3>1. CASE \E list \in Lists : BeginPut(p, list)
      BY <3>1 DEF BeginPut
    <3>2. CASE Overwrite(p)
      BY <3>2 DEF Overwrite, Write
    <3>3. CASE AppendNil(p)
      BY <3>3 DEF AppendNil, Write
    <3>4. CASE ShiftCell(p) \/ FillGap(p)
      BY <3>4 DEF ShiftCell, FillGap, Write
    <3>5. CASE SetEntry(p)
      BY <3>5 DEF SetEntry
    <3> QED BY <1>7, <3>1, <3>2, <3>3, <3>4, <3>5 DEF PutStep
  <2>4. \/ calm' = [g \in Getters |-> FALSE]
        \/ /\ UNCHANGED calm
           /\ \A a \in Arrays : a # NewArray => heap'[a] = heap[a]
    BY <1>1, <2>3 DEF Shape
  <2> QED BY <1>2, <2>1, <2>2, <2>4
<1>8. ASSUME NEW g \in Getters, GetStep(g)
      PROVE  /\ calm' \in [Getters -> BOOLEAN]
             /\ \A f \in Getters : CalmInv(f) => CalmInv(f)'
  <2>1. UNCHANGED heap /\ \A f \in Getters \ {g} : ask'[f] = ask[f]
    BY <1>1, <1>8, GetOutcome
  <2>2. PICK s, l, h, step, o : GoesTo(g, s, l, h, step, o)
    BY <1>1, <1>8, GetOutcome
  <2>3. \A f \in Getters \ {g} : /\ pc'[f] = pc[f] /\ view'[f] = view[f]
                                 /\ lo'[f] = lo[f] /\ hi'[f] = hi[f] /\ out'[f] = out[f]
    BY <1>1, <2>2 DEF GoesTo, Shape
  <2>4. UNCHANGED calm \/ calm' = [calm EXCEPT ![g] = TRUE]
    BY <1>8 DEF GetStep, BeginGet, BeginScan, ScanCell, EndScan, CopyCell, EndGet
  <2>5. CalmInv(g) => CalmInv(g)'
    BY <1>8, CalmBegin, CalmScan, CalmCopy DEF GetStep
  <2> QED BY <1>3, <2>1, <2>3, <2>4, <2>5
<1>9. CASE Expire
  <2>1. UNCHANGED <<heap, pc, view, lo, hi, out, ask, calm>>
    BY <1>9 DEF Expire
  <2> QED BY <1>2, <2>1
<1> QED BY <1>4, <1>5, <1>6, <1>7, <1>8, <1>9 DEF Next, Procs

LEMMA Served == Spec => [](overlap \/ ServeInv)
<1>1. Init => ServeInv
  <2> SUFFICES ASSUME Init PROVE ServeInv
    OBVIOUS
  <2>1. CacheInv
    BY CacheInit
  <2>2. LevelInv /\ calm \in [Getters -> BOOLEAN]
    BY DEF Init, LevelInv
  <2>3. \A g \in Getters : CalmInv(g)
    BY ProcsParts DEF Init, CalmInv
  <2> QED BY <2>1, <2>2, <2>3 DEF ServeInv
<1>2. ServeInv /\ ~overlap' /\ [Next]_vars => ServeInv'
  <2> SUFFICES ASSUME ServeInv, ~overlap', [Next]_vars PROVE ServeInv'
    OBVIOUS
  <2>1. CacheInv'
    BY CacheNext DEF ServeInv
  <2>2. LevelInv'
    BY <2>1, LevelNext DEF ServeInv
  <2>3. calm' \in [Getters -> BOOLEAN] /\ \A g \in Getters : CalmInv(g)'
    BY CalmNext DEF ServeInv
  <2> QED BY <2>1, <2>2, <2>3 DEF ServeInv
<1> QED BY <1>1, <1>2, OverlapStays, PTL DEF Spec

(* Until two puts run at a time: a get that no write disturbs returns exactly the
   first klines of its range that its slice holds, as many as the limit allows. *)
THEOREM GetsAreExact == Spec => []CalmGetExact
<1>1. ServeInv => CalmGetExact
  <2> SUFFICES ASSUME ServeInv, NEW g \in Getters, pc[g] = "copy",
                      lo[g] + Len(out[g]) = hi[g], calm[g]
               PROVE  LET cells == CellsOf(view[g])
                          InRange(i) == ask[g].from <= cells[i].st /\ cells[i].st < ask[g].to
                      IN  \E first \in 1..(Len(cells) + 1) :
                             LET next == first + Len(out[g])
                             IN  /\ next <= Len(cells) + 1
                                 /\ out[g] = SubSeq(cells, first, next - 1)
                                 /\ \A i \in first..(next - 1) : InRange(i)
                                 /\ \A i \in 1..(first - 1) : ~InRange(i)
                                 /\ \/ ask[g].limit > 0 /\ Len(out[g]) = ask[g].limit
                                    \/ \A i \in next..Len(cells) : ~InRange(i)
                                 /\ ask[g].limit > 0 => Len(out[g]) <= ask[g].limit
    BY DEF CalmGetExact
  <2> DEFINE v == view[g]
             n == view[g].len
             cells == CellsOf(v)
             l == lo[g]
             h == hi[g]
             o == out[g]
             InRange(i) == ask[g].from <= cells[i].st /\ cells[i].st < ask[g].to
  <2>1. /\ Shape /\ v \in Slice /\ n \in Nat /\ l \in Nat /\ h \in Nat /\ h <= n
        /\ Len(o) \in Nat /\ o \in Seq(Kline \cup {Nil}) /\ l + Len(o) = h
        /\ ask[g].from \in Nat /\ ask[g].to \in Nat /\ ask[g].limit \in Nat
        /\ v.off + n <= Len(heap[v.arr]) /\ heap \in [Arrays -> Seq(Kline \cup {Nil})]
        /\ \A i \in 0..(n - 1) : At(heap, v, i).st \in Nat
    <3>1. CacheInv
      BY DEF ServeInv
    <3>2. ShapeOf(g) /\ heap \in [Arrays -> Seq(Kline \cup {Nil})]
      BY <3>1, ProcsParts DEF CacheInv, Shape
    <3> QED BY <3>1, <3>2, CalmReads DEF ShapeOf
  <2>2. /\ Level(heap, v)
        /\ \A i \in 0..(n - 1) : /\ i < l => At(heap, v, i).st < ask[g].from
                                 /\ i >= l => At(heap, v, i).st >= ask[g].from
        /\ ask[g].limit > 0 => h - l <= ask[g].limit
        /\ \A i \in 1..Len(o) : o[i] = At(heap, v, l + i - 1)
        /\ ScanEnds(g)
    BY DEF ServeInv, CalmInv
  <2>3. \A i \in DOMAIN o : o[i].st < ask[g].to
    BY DEF ServeInv, CacheInv, TakenInv
  <2>4. \/ h = n \/ (ask[g].limit > 0 /\ h - l = ask[g].limit)
        \/ h < n /\ At(heap, v, h).st >= ask[g].to
    BY <2>2, CellAt DEF ScanEnds, Beyond
  <2>5. /\ cells \in Seq(Kline \cup {Nil}) /\ Len(cells) = n
        /\ \A i \in 0..(n - 1) : cells[i + 1] = At(heap, v, i)
    BY <2>1, CellsProperties, CellAt
  <2> HIDE DEF v, n, cells, l, h, o
  <2>6. \A i \in 1..n : i - 1 \in 0..(n - 1) /\ cells[i] = At(heap, v, i - 1)
    <3>1. \A i \in 1..n : i - 1 \in 0..(n - 1) /\ (i - 1) + 1 = i
      BY <2>1, SMTT(20)
    <3> QED BY <2>5, <3>1
  <2>7. /\ l + 1 \in 1..(Len(cells) + 1) /\ (l + 1) + Len(o) <= Len(cells) + 1
        /\ (l + 1) + Len(o) = h + 1 /\ (h + 1) - 1 = h
    BY <2>1, <2>5, SMTT(20)
  <2>8. \A i \in 1..Len(o) : l + i \in 1..n /\ o[i] = cells[l + i]
    <3>1. ASSUME NEW i \in 1..Len(o) PROVE l + i \in 1..n /\ l + i - 1 = (l + i) - 1
      BY <2>1, SMTT(20)
    <3> QED BY <2>2, <2>6, <3>1
  <2>9. o = SubSeq(cells, l + 1, h)
    <3> DEFINE t == SubSeq(cells, l + 1, h)
    <3>1. \A i \in (l + 1)..h : cells[i] \in Kline \cup {Nil}
      <4>1. \A i \in (l + 1)..h : i \in 1..Len(cells)
        BY <2>1, <2>5, SMTT(20)
      <4> QED BY <2>5, <4>1, ElementOfSeq
    <3>2. /\ t \in Seq(Kline \cup {Nil})
          /\ Len(t) = IF l + 1 <= h THEN h - (l + 1) + 1 ELSE 0
          /\ \A i \in 1..(h - (l + 1) + 1) : t[i] = cells[(l + 1) + i - 1]
      <4>1. l + 1 \in Int /\ h \in Int
        BY <2>1
      <4> QED BY <3>1, <4>1, SubSeqProperties
    <3> HIDE DEF t
    <3>3. Len(t) = Len(o) /\ h - (l + 1) + 1 = Len(o)
      BY <2>1, <3>2
    <3>4. ASSUME NEW i \in 1..Len(o) PROVE t[i] = o[i]
      <4>1. (l + 1) + i - 1 = l + i /\ i \in 1..(h - (l + 1) + 1)
        BY <2>1, <3>3
      <4> QED BY <2>8, <3>2, <4>1
    <3>5. DOMAIN t = 1..Len(o) /\ DOMAIN o = 1..Len(o)
      BY <2>1, <3>2, <3>3
    <3>6. o = t
      BY <2>1, <3>2, <3>3, <3>4, SeqEqual
    <3> QED BY <3>6 DEF t
  <2>10. ASSUME NEW i \in (l + 1)..h PROVE InRange(i)
    <3>1. i \in 1..n /\ i - 1 >= l /\ i - l \in 1..Len(o) /\ l + (i - l) = i
      <4>1. \A x, y, z \in Nat : x + y <= z => \A j \in (x + 1)..(x + y) :
               j \in 1..z /\ j - 1 >= x /\ j - x \in 1..y /\ x + (j - x) = j
        OBVIOUS
      <4> QED BY <2>1, <4>1
    <3>2. cells[i].st >= ask[g].from /\ cells[i].st \in Nat
      <4>1. i - 1 \in 0..(n - 1) /\ cells[i] = At(heap, v, i - 1)
        BY <2>6, <3>1
      <4> QED BY <2>1, <2>2, <3>1, <4>1
    <3>3. cells[i] = o[i - l]
      BY <2>8, <3>1
    <3>4. DOMAIN o = 1..Len(o)
      BY <2>1
    <3>5. o[i - l].st < ask[g].to
      BY <2>3, <3>1, <3>4
    <3> QED BY <3>2, <3>3, <3>5
  <2>11. ASSUME NEW i \in 1..((l + 1) - 1) PROVE ~InRange(i)
    <3>1. i \in 1..n /\ i - 1 < l
      BY <2>1
    <3>2. cells[i].st < ask[g].from /\ cells[i].st \in Nat
      BY <2>1, <2>2, <2>6, <3>1
    <3> QED BY <2>1, <3>2, SMTT(20)
  <2>12. \/ ask[g].limit > 0 /\ Len(o) = ask[g].limit
         \/ \A i \in (h + 1)..n : ~InRange(i)
    <3>1. CASE h = n
      <4>1. \A i \in (h + 1)..n : FALSE
        BY <2>1, <3>1
      <4> QED BY <4>1
    <3>2. CASE ask[g].limit > 0 /\ h - l = ask[g].limit
      BY <2>1, <3>2
    <3>3. CASE h < n /\ At(heap, v, h).st >= ask[g].to
      <4>1. ASSUME NEW i \in (h + 1)..n PROVE ~InRange(i)
        <5>1. i \in 1..n /\ h \in 0..(n - 1) /\ (h = i - 1 \/ h < i - 1)
          BY <2>1, <3>3
        <5>2. At(heap, v, h).st <= At(heap, v, i - 1).st
          BY <2>1, <2>2, <2>6, <5>1 DEF Level, v, n
        <5>3. cells[i].st >= ask[g].to /\ cells[i].st \in Nat
          BY <2>1, <2>6, <3>3, <5>1, <5>2, SMTT(20)
        <5> QED BY <2>1, <5>3, SMTT(20)
      <4> QED BY <4>1
    <3> QED BY <2>4, <3>1, <3>2, <3>3
  <2>13. ask[g].limit > 0 => Len(o) <= ask[g].limit
    BY <2>1, <2>2
  <2> SUFFICES \E first \in 1..(Len(cells) + 1) :
                  /\ first + Len(o) <= Len(cells) + 1
                  /\ o = SubSeq(cells, first, (first + Len(o)) - 1)
                  /\ \A i \in first..((first + Len(o)) - 1) : InRange(i)
                  /\ \A i \in 1..(first - 1) : ~InRange(i)
                  /\ \/ ask[g].limit > 0 /\ Len(o) = ask[g].limit
                     \/ \A i \in (first + Len(o))..Len(cells) : ~InRange(i)
                  /\ ask[g].limit > 0 => Len(o) <= ask[g].limit
    BY DEF cells, v, o
  <2> HIDE DEF InRange
  <2>14. /\ (l + 1) + Len(o) <= Len(cells) + 1
         /\ o = SubSeq(cells, l + 1, ((l + 1) + Len(o)) - 1)
         /\ \A i \in (l + 1)..(((l + 1) + Len(o)) - 1) : InRange(i)
         /\ \A i \in 1..((l + 1) - 1) : ~InRange(i)
         /\ \/ ask[g].limit > 0 /\ Len(o) = ask[g].limit
            \/ \A i \in ((l + 1) + Len(o))..Len(cells) : ~InRange(i)
         /\ ask[g].limit > 0 => Len(o) <= ask[g].limit
    BY <2>5, <2>7, <2>9, <2>10, <2>11, <2>12, <2>13
  <2> QED BY <2>7, <2>14
<1>2. overlap => CalmGetExact
  BY DEF CalmGetExact
<1> QED BY <1>1, <1>2, Served, PTL
===============================================================================
