--------------------------- MODULE OrderLifecycle ---------------------------
(***************************************************************************)
(* What the service promises about one order, whatever the number of       *)
(* workers, statements, locks and failures: an order enters the pickup     *)
(* point once, moves forward only, and may leave; every step of its life   *)
(* but the last is audited, in order, in the same step.                    *)
(*                                                                         *)
(* The statuses are those of internal/domain/order/order_record.go; "gone" *)
(* is an order handed back to the courier, whose row is deleted.           *)
(***************************************************************************)
EXTENDS Sequences

CONSTANT Ids

VARIABLES
  status,   \* id -> where the order is in its life
  audit     \* id -> the statuses announced for it, oldest first

Forward ==
  {<<"received", "delivered">>, <<"received", "storage_ended">>,
   <<"delivered", "refunded">>}

Init ==
  /\ status = [i \in Ids |-> "none"]
  /\ audit  = [i \in Ids |-> <<>>]

Announce(i, s) ==
  /\ status' = [status EXCEPT ![i] = s]
  /\ audit'  = [audit EXCEPT ![i] = Append(@, s)]

Enter(i) == status[i] = "none" /\ Announce(i, "received")

Move(i) ==
  \E s \in {"delivered", "storage_ended", "refunded"} :
    <<status[i], s>> \in Forward /\ Announce(i, s)

Leave(i) ==
  /\ status[i] \notin {"none", "gone"}
  /\ status' = [status EXCEPT ![i] = "gone"]
  /\ UNCHANGED audit

Next == \E i \in Ids : Enter(i) \/ Move(i) \/ Leave(i)

Spec == Init /\ [][Next]_<<status, audit>>
=============================================================================
