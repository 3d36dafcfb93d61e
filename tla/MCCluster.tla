------------------------------ MODULE MCCluster ------------------------------
(* Instances of Cluster for TLC: two processes, and trades of which the first
   falls into a window of its own. *)
EXTENDS Cluster, TLC

CONSTANTS a, b

TwoProcs == {a, b}
Alike == Permutations(TwoProcs)
OneThenTwo == [t \in Trades |-> IF t = 1 THEN 0 ELSE 1]
==============================================================================
