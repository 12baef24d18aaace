---------------------------- MODULE OrderDomain ----------------------------
(***************************************************************************)
(* The order entity (internal/domain/order).  Pure definitions: an order   *)
(* is a record, each method of *Order is an operator that returns the      *)
(* order it leaves behind, and time.Now() is the argument `now'.           *)
(*                                                                         *)
(* One unit of time is a day, the unit DaysForRefunding is counted in.     *)
(* Weight and worth are settled before an order is stored, and nothing is  *)
(* decided by them afterwards; what the packaging accepts is in module     *)
(* Packaging.  returned_date is never assigned and is left out.            *)
(***************************************************************************)
EXTENDS Integers

CONSTANTS
  Recipients,    \* recipient ids
  Expirations,   \* expiration dates an order may be created with
  NoOrder        \* the absence of an order: no row, no cache entry, nil

NilDate == -1    \* a nil *time.Time

DaysForRefunding == 2

OrderStatus ==
  {"none", "received", "returned", "delivered", "refunded", "storage_ended"}

Order == [recipient  : Recipients,
          expiration : Expirations,
          status     : OrderStatus,
          delivered  : Nat \cup {NilDate},
          refunded   : Nat \cup {NilDate}]

(* Recipient ids are non-zero, so 0 can stand for "no recipient given".    *)
ASSUME DomainAssumption ==
  /\ Recipients \subseteq Nat \ {0}
  /\ Expirations \subseteq Nat
  /\ NoOrder \notin Order

-----------------------------------------------------------------------------
NewOrder(recipient, expiration) ==
  [recipient |-> recipient, expiration |-> expiration, status |-> "none",
   delivered |-> NilDate, refunded |-> NilDate]

Received(o)     == [o EXCEPT !.status = "received"]
Expire(o)       == [o EXCEPT !.status = "storage_ended"]
Refund(o, now)  == [o EXCEPT !.refunded = now, !.status = "refunded"]

(* Mutant: Deliver sets the status and forgets the date.                   *)
Deliver_NoDate(o, now) == [o EXCEPT !.status = "delivered"]

Deliver(o, now) == [o EXCEPT !.delivered = now, !.status = "delivered"]

IsReceived(o)     == o.status = "received"
IsDelivered(o)    == o.status = "delivered"
IsExpired(o, now) == o.expiration < now

(* The date compared with the end of the refund window is the delivery     *)
(* date itself, as in the code, and not the current time.                  *)
CanBeRefunded(o) ==
  /\ IsDelivered(o)
  /\ o.delivered < o.delivered + DaysForRefunding
=============================================================================
