----------------------------- MODULE Packaging -----------------------------
(***************************************************************************)
(* Which parcels the packaging strategies accept                           *)
(* (internal/domain/order/packaging_strategy.go, membrana_decorator.go and *)
(* the error of Order.ApplyPackaging).  Weights are in hundredths of a     *)
(* kilogram, the precision of the limits 10.00 and 20.00.                  *)
(***************************************************************************)
EXTENDS Integers

(* A parcel as it arrives: what ApplyPackaging is called with.             *)
Parcel == [packagingType : STRING, membrana : BOOLEAN, weight : Nat]

GetPackagingStrategy(packagingType) ==
  IF packagingType \in {"bag", "membrana"} THEN packagingType ELSE "box"

Validate(strategy, weight) ==
  /\ strategy = "bag" => weight <= 1000
  /\ strategy = "box" => weight <= 2000

(* The error result of ApplyPackaging: the decorator validates with the    *)
(* strategy it wraps.                                                      *)
PackagingFits(p) == Validate(GetPackagingStrategy(p.packagingType), p.weight)
=============================================================================
