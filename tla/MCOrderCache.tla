---------------------------- MODULE MCOrderCache ----------------------------
(* Values for the constants of OrderCache, for TLC.                        *)
EXTENDS OrderCache, MCOrderService
=============================================================================
