------------------------------- MODULE MCElector -------------------------------
(* Instances of Elector for TLC: two instances, of which the second may stop. *)
EXTENDS Elector, TLC

CONSTANTS i1, i2

Two    == {i1, i2}
Second == {i2}
===============================================================================
