------------------------------- MODULE MCCarts -------------------------------
(* Model-checking instance of Carts: one variant short of two requests.     *)
EXTENDS Carts

MCInitialStock == [v \in Variants |-> 2]
=============================================================================
