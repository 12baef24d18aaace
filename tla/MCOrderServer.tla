--------------------------- MODULE MCOrderServer ---------------------------
(* Values for the constants of OrderServer, for TLC.                       *)
EXTENDS OrderServer

(* All tasks about one order.                                              *)
MCSameOrder == [t \in Tasks |-> 1]
=============================================================================
