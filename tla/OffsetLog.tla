------------------------------ MODULE OffsetLog ------------------------------
(***************************************************************************)
(* What the offset committer of the Kafka consumer promises, with none of  *)
(* its machinery: messages finish in any order, any number at a time, and  *)
(* the offset stored for a partition moves forward over finished messages  *)
(* only.  Consumer.tla is shown to implement this module.                  *)
(***************************************************************************)
EXTENDS Integers

CONSTANTS
    Partitions, \* the partitions of the topic
    MaxLog      \* bound on the messages of one partition

VARIABLES
    finished,   \* the messages whose processing has succeeded
    groupOffset \* per partition, the next offset to read; -1 when none is stored

vars == <<finished, groupOffset>>

Message == Partitions \X (0..(MaxLog - 1))

Init ==
    /\ finished = {}
    /\ groupOffset = [p \in Partitions |-> -1]

Finish(m) ==
    /\ finished' = finished \cup {m}
    /\ UNCHANGED groupOffset

(* The stored offsets move to upto: never back, and only over messages that
   have finished. *)
Commit(upto) ==
    /\ \A p \in Partitions :
          /\ upto[p] >= groupOffset[p]
          /\ \A o \in 0..(upto[p] - 1) : <<p, o>> \in finished
    /\ groupOffset' = upto
    /\ UNCHANGED finished

Next ==
    \/ \E m \in Message : Finish(m)
    \/ \E upto \in [Partitions -> -1..MaxLog] : Commit(upto)

Spec == Init /\ [][Next]_vars
==============================================================================
