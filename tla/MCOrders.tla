------------------------------- MODULE MCOrders -------------------------------
(* Model-checking instance of Orders: two suppliers with one variant each.  *)
EXTENDS Orders

CONSTANTS apples, pears, orchard, farm

MCInitialStock == [v \in Variants |-> IF v = apples THEN 2 ELSE 1]
MCSupplierOf == [v \in Variants |-> IF v = apples THEN orchard ELSE farm]
=============================================================================
