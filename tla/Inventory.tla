------------------------------ MODULE Inventory ------------------------------
(***************************************************************************)
(* Stock levels (apps/inventory/services.py).  Each variant has one        *)
(* StockLevel row with the units a buyer may still take (available) and    *)
(* the units set aside for carts and open orders (reserved).  Every        *)
(* service function locks the row, checks it, writes it and appends a      *)
(* StockMovement, in one transaction; a failed check raises ValueError and *)
(* rolls the caller's transaction back.                                    *)
(*                                                                         *)
(* A checkout, a dispatch or a cancellation moves the stock of several     *)
(* variants in one transaction, so the functions are operators on one row: *)
(* CanX is the check, X the new row.  The movement log, the lots and the   *)
(* low-stock alert never feed back into a level and are left out.          *)
(***************************************************************************)
EXTENDS Integers

CONSTANTS
  Variants,        \* product variants, one StockLevel row each
  InitialStock,    \* units available of each variant at the start
  MaxQuantity,     \* bound: units one request may name
  MaxOnHand        \* bound: units of a variant a receipt may bring it to

ASSUME InventoryAssumption ==
  /\ InitialStock \in [Variants -> Nat]
  /\ MaxQuantity \in Nat \ {0}
  /\ MaxOnHand \in Nat

VARIABLE level     \* level[v]: the StockLevel row of variant v

StockLevel == [available : Nat, reserved : Nat]

Quantity == 1..MaxQuantity

(* StockLevel.quantity_on_hand *)
OnHand(l) == l.available + l.reserved

(* The mutated forms that the checks substitute for the operators below. *)
ReleaseReservedOnly(l, q) == [l EXCEPT !.reserved = @ - q]
ReserveUnchecked(l, q) == TRUE

(* reserve_stock *)
CanReserve(l, q) == l.available >= q
Reserve(l, q) == [available |-> l.available - q, reserved |-> l.reserved + q]

(* release_reservation *)
CanRelease(l, q) == l.reserved >= q
Release(l, q) == [available |-> l.available + q, reserved |-> l.reserved - q]

(* dispatch_stock: the units leave the warehouse *)
CanDispatch(l, q) == l.reserved >= q
Dispatch(l, q) == [l EXCEPT !.reserved = @ - q]

(* receive_stock, by a supplier *)
ReceiveStock(v, q) ==
  /\ OnHand(level[v]) + q <= MaxOnHand
  /\ level' = [level EXCEPT ![v].available = @ + q]

(* adjust_stock, by a supplier: delta is not 0 and leaves no negative stock *)
AdjustStock(v, delta) ==
  /\ delta # 0
  /\ level[v].available + delta >= 0
  /\ OnHand(level[v]) + delta <= MaxOnHand
  /\ level' = [level EXCEPT ![v].available = @ + delta]

InventoryInit ==
  level = [v \in Variants |-> [available |-> InitialStock[v], reserved |-> 0]]

SupplierStockStep ==
  \E v \in Variants :
     \/ \E q \in Quantity : ReceiveStock(v, q)
     \/ \E d \in -MaxQuantity..MaxQuantity : AdjustStock(v, d)

=============================================================================
