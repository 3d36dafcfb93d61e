----------------------------- MODULE MCContinuity -----------------------------
(* Instances of Continuity for TLC: trades in four narrow windows, two of
   which make a wide one. *)
EXTENDS Continuity, TLC

Times == <<0, 1, 2, 3>>

(* A range that begins and ends within, and all of the wide interval. *)
SomeRanges ==
    {[iv |-> "narrow", from |-> 1, to |-> 3, limit |-> 9],
     [iv |-> "wide", from |-> 0, to |-> 9, limit |-> 1]}
===============================================================================
