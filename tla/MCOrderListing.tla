--------------------------- MODULE MCOrderListing ---------------------------
(* Values for the constants of OrderListing, for TLC.                      *)
EXTENDS OrderListing

(* Refused, empty, less than and more than MaxLimit.                       *)
MCNumbers == {-1, 0, 1, 3}
=============================================================================
