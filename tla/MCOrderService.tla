--------------------------- MODULE MCOrderService ---------------------------
(* Values for the constants of OrderService, for TLC.                      *)
EXTENDS OrderService, TLC

(* One parcel that fits its packaging and one that is too heavy for a bag. *)
MCParcels ==
  {[packagingType |-> "box", membrana |-> TRUE,  weight |-> 2000],
   [packagingType |-> "bag", membrana |-> FALSE, weight |-> 1001]}

MCIdLists    == {<<>>, <<1>>, <<1, 2>>, <<2, 1>>, <<1, 1>>}
MCOneOrder   == {<<1>>}

WorkerSymmetry == Permutations(Workers)
=============================================================================
