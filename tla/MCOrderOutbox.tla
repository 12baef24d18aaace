--------------------------- MODULE MCOrderOutbox ---------------------------
(* Values for the constants of OrderOutbox, for TLC.                       *)
EXTENDS OrderOutbox, TLC

(* All tasks about one order.                                              *)
MCSameOrder == [t \in Tasks |-> 1]

InstanceSymmetry == Permutations(Instances)
=============================================================================
