-------------------------------- MODULE MCShop --------------------------------
(* Instances of Shop for TLC. *)
EXTENDS Shop
MCPages == [cart |-> {"product"},
            order |-> {"catalogue", "checkout"},
            wishlist |-> {"product", "wishlist"}]
=============================================================================
