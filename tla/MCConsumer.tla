------------------------------ MODULE MCConsumer ------------------------------
(* The instance of Consumer for TLC: a partition of three messages, the second
   one a copy of the first, the third one undecodable. *)
EXTENDS Consumer, TLC

CONSTANTS p1, w1, w2

OnePartition  == {p1}
TwoWorkers   == {w1, w2}

EmptyLog == [p \in Partitions |-> 0]

OwnTradeIds == Partitions \X (0..(MaxLog - 1))

(* The matching engine's producer appends its first trade a second time. *)
RepeatedTradeId == [m \in Partitions \X (0..(MaxLog - 1)) |->
                       IF m[2] = 1 THEN <<m[1], 0>> ELSE m]

LastPoison == {<<p, MaxLog - 1>> : p \in Partitions}

AnyResult == {"acked", "failed", "unacked"}
===============================================================================
