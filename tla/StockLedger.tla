----------------------------- MODULE StockLedger -----------------------------
(***************************************************************************)
(* What the marketplace promises about stock, without carts, orders or     *)
(* database rows: a unit is free, or set aside for one holder, or shipped. *)
(*                                                                         *)
(* A transaction either brings or takes free units of one variant, and     *)
(* touches nothing else, or for each variant                               *)
(*   - units change hands, none appearing or vanishing, or                 *)
(*   - all the units of one order leave the warehouse, and nobody else's   *)
(*     units move.                                                         *)
(* A unit is therefore never promised twice, and is shipped only out of    *)
(* the holding of the order it was promised to.                            *)
(***************************************************************************)
EXTENDS Integers, Functions

CONSTANTS
  Variants,
  Holders,        \* whoever may have units set aside
  Orders          \* those among them whose units can be shipped

VARIABLES free, held

ledger == <<free, held>>

Promised(v) == SumFunction([h \in Holders |-> held[h][v]])

LedgerInit ==
  /\ free \in [Variants -> Nat]
  /\ held = [h \in Holders |-> [v \in Variants |-> 0]]

Supply(v) ==
  /\ free'[v] >= 0
  /\ \A u \in Variants \ {v} : free'[u] = free[u]
  /\ UNCHANGED held

Reassign(v) ==
  /\ free'[v] >= 0
  /\ \A h \in Holders : held'[h][v] >= 0
  /\ free'[v] + Promised(v)' = free[v] + Promised(v)

Ship(h, v) ==
  /\ held[h][v] > 0
  /\ held'[h][v] = 0
  /\ \A g \in Holders \ {h} : held'[g][v] = held[g][v]
  /\ free'[v] = free[v]

LedgerNext ==
  \/ \E v \in Variants : Supply(v)
  \/ \A v \in Variants : Reassign(v) \/ \E h \in Orders : Ship(h, v)

LedgerSpec == LedgerInit /\ [][LedgerNext]_ledger

=============================================================================
