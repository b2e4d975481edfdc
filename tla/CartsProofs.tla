----------------------------- MODULE CartsProofs -----------------------------
(***************************************************************************)
(* Theorems about carts and their reservations, for every set of variants, *)
(* carts and rows.                                                         *)
(*                                                                         *)
(* The types alone are not inductive: a step that uses cartItem[i] because *)
(* reservation[i] exists needs ReservationMatchesItem, and the quantities  *)
(* of a merge are those of one well-defined line only while                *)
(* OneLinePerVariant holds.  Their conjunction CartInv is inductive.       *)
(*                                                                         *)
(* That the units reserved are those of the lines (StockInv) is proved of  *)
(* the change a step makes to both, and needs that an outstanding          *)
(* clear_cart has read the quantities its lines still have, hence one      *)
(* request of a buyer at a time.                                           *)
(***************************************************************************)
EXTENDS Carts, Sums, TLAPS

CartInv == CartTypeOK /\ ReservationMatchesItem /\ OneLinePerVariant

(* ------------------------- one stock level row ------------------------- *)

(* reserve_stock keeps both counters natural and the sum of the two.       *)
LEMMA ReserveKeeps ==
  ASSUME NEW l \in StockLevel, NEW q \in Nat, CanReserve(l, q)
  PROVE  Reserve(l, q) \in StockLevel /\ OnHand(Reserve(l, q)) = OnHand(l)
BY DEF StockLevel, CanReserve, Reserve, OnHand

(* release_reservation likewise.                                           *)
LEMMA ReleaseKeeps ==
  ASSUME NEW l \in StockLevel, NEW q \in Nat, CanRelease(l, q)
  PROVE  Release(l, q) \in StockLevel /\ OnHand(Release(l, q)) = OnHand(l)
BY DEF StockLevel, CanRelease, Release, OnHand

(* ------------------------------- cart lines ---------------------------- *)

(* LineOf is a line of the cart when there is one ...                      *)
LEMMA LineOfIsLine ==
  ASSUME NEW c, NEW v, HasLine(c, v)
  PROVE  LineOf(c, v) \in ItemIds /\ IsLine(LineOf(c, v), c, v)
BY DEF HasLine, LineOf

(* ... and the only one.                                                   *)
LEMMA LineOfUnique ==
  ASSUME OneLinePerVariant, NEW c, NEW v, NEW i \in ItemIds, IsLine(i, c, v)
  PROVE  HasLine(c, v) /\ i = LineOf(c, v)
<1>1. HasLine(c, v)
  BY DEF HasLine
<1>2. QED
  BY <1>1, LineOfIsLine DEF OneLinePerVariant, IsLine, InCart, Exists

(* What the type invariant says of one item row, and of its reservation.   *)
LEMMA RowTypes ==
  ASSUME CartInv, NEW i \in ItemIds, Exists(i)
  PROVE  /\ cartItem[i] \in CartItem
         /\ reservation[i] \in CartReservation
         /\ reservation[i] # None
         /\ Held(i) = cartItem[i].quantity
         /\ Held(i) \in Nat \ {0}
<1>1. cartItem[i] \in CartItem
  BY DEF CartInv, CartTypeOK, Exists
<1>2. reservation[i] # None /\ reservation[i].quantity = cartItem[i].quantity
  BY DEF CartInv, ReservationMatchesItem
<1>3. reservation[i] \in CartReservation
  BY <1>2 DEF CartInv, CartTypeOK
<1>4. QED
  BY <1>1, <1>2, <1>3 DEF Held, CartItem

(* Held is a natural number, row or no row.                                *)
LEMMA HeldNat ==
  ASSUME CartTypeOK, NEW i \in ItemIds
  PROVE  Held(i) \in Nat
BY DEF CartTypeOK, Held, CartReservation

(* Deleting rows of both tables together keeps the invariant.              *)
LEMMA DeleteKeeps ==
  ASSUME CartInv, NEW S,
         cartItem' = Without(cartItem, S),
         reservation' = Without(reservation, S),
         level' \in [Variants -> StockLevel],
         clearing' \in [CartIds -> [ItemIds -> Nat]],
         expiring' \in SUBSET ItemIds
  PROVE  CartInv'
<1>1. CartTypeOK'
  BY DEF CartInv, CartTypeOK, Without
<1>2. ReservationMatchesItem'
  BY NoneAssumption DEF CartInv, CartTypeOK, ReservationMatchesItem, Without, Exists
<1>3. OneLinePerVariant'
  BY DEF CartInv, CartTypeOK, OneLinePerVariant, Without, Exists
<1>4. QED
  BY <1>1, <1>2, <1>3 DEF CartInv

(* A step that leaves both tables alone keeps the invariant.               *)
LEMMA TablesAlone ==
  ASSUME CartInv,
         cartItem' = cartItem, reservation' = reservation,
         level' \in [Variants -> StockLevel],
         clearing' \in [CartIds -> [ItemIds -> Nat]],
         expiring' \in SUBSET ItemIds
  PROVE  CartInv'
BY DEF CartInv, CartTypeOK, ReservationMatchesItem, OneLinePerVariant, Exists

(* ------------------------- the buyers' requests ------------------------ *)

(* A quantity a request may name is a positive natural number.             *)
LEMMA QuantityPositive ==
  ASSUME NEW q \in Quantity
  PROVE  q \in Nat \ {0}
BY InventoryAssumption DEF Quantity

(* add_to_cart: the line is the cart's own, or its row is new.             *)
LEMMA AddKeeps ==
  ASSUME CartInv, NEW c \in CartIds, NEW v \in Variants, NEW q \in Quantity,
         AddToCart(c, v, q)
  PROVE  CartInv'
<1>1. PICK i \in ItemIds :
        /\ IF HasLine(c, v) THEN i = LineOf(c, v) ELSE Fresh(i)
        /\ LET n == (IF Exists(i) THEN cartItem[i].quantity ELSE 0) + q
           IN  /\ cartItem' = [cartItem EXCEPT ![i] =
                     [cart |-> c, variant |-> v, quantity |-> n]]
               /\ reservation' = [reservation EXCEPT ![i] = Renewed(n)]
  BY DEF AddToCart
<1> DEFINE n == (IF Exists(i) THEN cartItem[i].quantity ELSE 0) + q
<1>2. cartItem' = [cartItem EXCEPT ![i] =
                     [cart |-> c, variant |-> v, quantity |-> n]]
      /\ reservation' = [reservation EXCEPT ![i] = Renewed(n)]
  BY <1>1
<1>3. q \in Nat \ {0}
  BY QuantityPositive
<1>4. n \in Nat \ {0}
  BY <1>3, RowTypes DEF CartItem
<1>5. [cart |-> c, variant |-> v, quantity |-> n] \in CartItem
      /\ Renewed(n) \in CartReservation
  BY <1>4 DEF CartItem, CartReservation, Renewed
<1>6. IF HasLine(c, v) THEN IsLine(i, c, v) ELSE ~Exists(i)
  BY <1>1, LineOfIsLine DEF Fresh
<1> HIDE DEF n
<1>7. CartTypeOK'
  <2>1. level' \in [Variants -> StockLevel]
    BY <1>3, ReserveKeeps DEF AddToCart, CartInv, CartTypeOK
  <2>2. QED
    BY <1>2, <1>5, <2>1 DEF AddToCart, CartInv, CartTypeOK
<1>8. ReservationMatchesItem'
  <2> SUFFICES ASSUME NEW j \in ItemIds
               PROVE  /\ Exists(j)' <=> reservation'[j] # None
                      /\ Exists(j)' => reservation'[j].quantity
                                         = cartItem'[j].quantity
    BY DEF ReservationMatchesItem
  <2>1. CASE j = i
    BY <2>1, <1>2, <1>5, NoneAssumption
       DEF CartInv, CartTypeOK, Exists, Renewed
  <2>2. CASE j # i
    BY <2>2, <1>2 DEF CartInv, CartTypeOK, ReservationMatchesItem, Exists
  <2>3. QED
    BY <2>1, <2>2
<1>9. OneLinePerVariant'
  <2> SUFFICES ASSUME NEW j \in ItemIds, NEW k \in ItemIds,
                      Exists(j)', Exists(k)', j # k,
                      cartItem'[j].cart = cartItem'[k].cart,
                      cartItem'[j].variant = cartItem'[k].variant
               PROVE  FALSE
    BY DEF OneLinePerVariant
  <2>1. \A m \in ItemIds \ {i} : cartItem'[m] = cartItem[m]
    BY <1>2 DEF CartInv, CartTypeOK
  <2>2. cartItem'[i] = [cart |-> c, variant |-> v, quantity |-> n]
    BY <1>2 DEF CartInv, CartTypeOK
  <2>3. CASE j # i /\ k # i
    BY <2>1, <2>3 DEF CartInv, OneLinePerVariant, Exists
  <2>4. ASSUME NEW m \in ItemIds \ {i}, IsLine(m, c, v)
        PROVE  FALSE
    BY <2>4, <1>6 DEF CartInv, OneLinePerVariant, IsLine, InCart, HasLine, Exists
  <2>5. QED
    BY <2>1, <2>2, <2>3, <2>4 DEF IsLine, InCart, Exists
<1>10. QED
  BY <1>7, <1>8, <1>9 DEF CartInv

(* update_cart_item                                                        *)
LEMMA UpdateKeeps ==
  ASSUME CartInv, NEW i \in ItemIds, NEW q \in Quantity, UpdateCartItem(i, q)
  PROVE  CartInv'
<1>1. Exists(i) /\ cartItem[i] \in CartItem
  BY RowTypes DEF UpdateCartItem
<1>2. q \in Nat \ {0}
  BY QuantityPositive
<1>3. cartItem' = [cartItem EXCEPT ![i].quantity = q]
      /\ reservation' = [reservation EXCEPT ![i] = Renewed(q)]
  BY DEF UpdateCartItem
<1>4. [cartItem[i] EXCEPT !.quantity = q] \in CartItem
      /\ Renewed(q) \in CartReservation
  BY <1>1, <1>2 DEF CartItem, CartReservation, Renewed
<1>5. level' \in [Variants -> StockLevel]
  <2> DEFINE v == cartItem[i].variant
             old == cartItem[i].quantity
  <2>1. v \in Variants /\ old \in Nat
    BY <1>1 DEF CartItem
  <2>2. level[v] \in StockLevel /\ level \in [Variants -> StockLevel]
    BY <2>1 DEF CartInv, CartTypeOK
  <2>3. CASE /\ q > old
             /\ CanReserve(level[v], q - old)
             /\ level' = [level EXCEPT ![v] = Reserve(@, q - old)]
    BY <2>1, <2>2, <2>3, <1>2, ReserveKeeps
  <2>4. CASE /\ q < old
             /\ CanRelease(level[v], old - q)
             /\ level' = [level EXCEPT ![v] = Release(@, old - q)]
    BY <2>1, <2>2, <2>4, <1>2, ReleaseKeeps
  <2>5. CASE UNCHANGED level
    BY <2>2, <2>5
  <2>6. QED
    BY <2>3, <2>4, <2>5 DEF UpdateCartItem
<1>6. CartTypeOK'
  BY <1>3, <1>4, <1>5 DEF UpdateCartItem, CartInv, CartTypeOK
<1>7. \A j \in ItemIds :
        /\ Exists(j)' <=> Exists(j)
        /\ Exists(j) => /\ cartItem'[j].cart = cartItem[j].cart
                        /\ cartItem'[j].variant = cartItem[j].variant
  BY <1>1, <1>3, <1>4, NoneAssumption DEF Exists, CartItem, CartInv, CartTypeOK
<1>8. ReservationMatchesItem'
  <2> SUFFICES ASSUME NEW j \in ItemIds
               PROVE  /\ Exists(j)' <=> reservation'[j] # None
                      /\ Exists(j)' => reservation'[j].quantity
                                         = cartItem'[j].quantity
    BY DEF ReservationMatchesItem
  <2>1. CASE j = i
    BY <2>1, <1>1, <1>3, <1>4, <1>7, NoneAssumption
       DEF CartInv, CartTypeOK, Renewed, CartItem
  <2>2. CASE j # i
    BY <2>2, <1>3 DEF CartInv, CartTypeOK, ReservationMatchesItem, Exists
  <2>3. QED
    BY <2>1, <2>2
<1>9. OneLinePerVariant'
  BY <1>7 DEF CartInv, OneLinePerVariant
<1>10. QED
  BY <1>6, <1>8, <1>9 DEF CartInv

(* remove_from_cart                                                        *)
LEMMA RemoveKeeps ==
  ASSUME CartInv, NEW i \in ItemIds, RemoveFromCart(i)
  PROVE  CartInv'
<1>1. cartItem[i].variant \in Variants /\ Held(i) \in Nat
  BY RowTypes DEF RemoveFromCart, CartItem
<1>2. level' \in [Variants -> StockLevel]
  BY <1>1, ReleaseKeeps DEF RemoveFromCart, CartInv, CartTypeOK
<1>3. QED
  BY <1>2, DeleteKeeps DEF RemoveFromCart, CartInv, CartTypeOK

(* clear_cart reads ...                                                    *)
LEMMA ClearReadKeeps ==
  ASSUME CartInv, NEW c \in CartIds, ClearRead(c)
  PROVE  CartInv'
<1>1. [i \in ItemIds |-> IF InCart(i, c) THEN Held(i) ELSE 0]
        \in [ItemIds -> Nat]
  BY HeldNat DEF CartInv
<1>2. clearing' \in [CartIds -> [ItemIds -> Nat]]
  BY <1>1 DEF ClearRead, CartInv, CartTypeOK
<1>3. QED
  BY <1>2, TablesAlone DEF ClearRead, CartInv, CartTypeOK

(* ... and commits                                                         *)
LEMMA ClearCommitKeeps ==
  ASSUME CartInv, NEW c \in CartIds, ClearCommit(c)
  PROVE  CartInv'
<1>1. \A v \in Variants : ReleasedBy(c, v) \in Nat
  BY LineOfIsLine DEF ReleasedBy, CartInv, CartTypeOK
<1>2. level' \in [Variants -> StockLevel]
  BY <1>1, ReleaseKeeps DEF ClearCommit, CartInv, CartTypeOK
<1>3. clearing' \in [CartIds -> [ItemIds -> Nat]]
  BY DEF ClearCommit, CartInv, CartTypeOK
<1>4. QED
  BY <1>2, <1>3, DeleteKeeps DEF ClearCommit, CartInv, CartTypeOK

(* ... or rolls back.                                                      *)
LEMMA ClearRollbackKeeps ==
  ASSUME CartInv, NEW c \in CartIds, ClearRollback(c)
  PROVE  CartInv'
<1>1. clearing' \in [CartIds -> [ItemIds -> Nat]]
  BY DEF ClearRollback, CartInv, CartTypeOK
<1>2. QED
  BY <1>1, TablesAlone DEF ClearRollback, CartInv, CartTypeOK

(* The reservations of merge_guest_cart, row by row.                       *)
LEMMA MergedRows ==
  ASSUME CartInv, NEW g \in Guests, NEW c \in CartIds \ Guests,
         MergeGuestCart(g, c), NEW i \in ItemIds
  PROVE  /\ Exists(i)' => /\ Exists(i)
                          /\ ~JoinsLine(i, g, c)
                          /\ cartItem'[i] \in CartItem
                          /\ cartItem'[i].variant = cartItem[i].variant
                          /\ cartItem'[i].cart =
                               IF InCart(i, g) THEN c ELSE cartItem[i].cart
                          /\ reservation'[i] \in CartReservation
                          /\ reservation'[i].quantity = cartItem'[i].quantity
         /\ ~Exists(i)' => cartItem'[i] = None /\ reservation'[i] = None
<1>1. /\ cartItem'[i] =
           IF JoinsLine(i, g, c) THEN None
           ELSE IF InCart(i, g) THEN [cartItem[i] EXCEPT !.cart = c]
           ELSE IF TakesLine(i, g, c)
                THEN [cartItem[i] EXCEPT !.quantity = MergedQuantity(i, g)]
           ELSE cartItem[i]
      /\ reservation'[i] =
           IF JoinsLine(i, g, c) THEN None
           ELSE IF InCart(i, g) /\ reservation[i] # None
                THEN [reservation[i] EXCEPT !.live = TRUE]
           ELSE IF TakesLine(i, g, c) THEN MergedReservation(i, g)
           ELSE reservation[i]
  BY DEF MergeGuestCart
<1>2. CASE JoinsLine(i, g, c)
  BY <1>1, <1>2 DEF Exists
<1>3. CASE ~JoinsLine(i, g, c) /\ InCart(i, g)
  <2>1. Exists(i) /\ cartItem[i] \in CartItem
        /\ reservation[i] \in CartReservation /\ reservation[i] # None
        /\ reservation[i].quantity = cartItem[i].quantity
    BY <1>3, RowTypes DEF InCart, CartInv, ReservationMatchesItem
  <2>2. cartItem'[i] = [cartItem[i] EXCEPT !.cart = c]
        /\ reservation'[i] = [reservation[i] EXCEPT !.live = TRUE]
    BY <1>1, <1>3, <2>1
  <2>3. cartItem'[i] \in CartItem /\ reservation'[i] \in CartReservation
    BY <2>1, <2>2 DEF CartItem, CartReservation
  <2>4. Exists(i)'
    BY <2>3, NoneAssumption DEF Exists
  <2>5. QED
    BY <1>3, <2>1, <2>2, <2>3, <2>4 DEF CartItem, CartReservation
<1>4. CASE TakesLine(i, g, c) /\ ~InCart(i, g) /\ ~JoinsLine(i, g, c)
  <2>1. Exists(i) /\ cartItem[i] \in CartItem
    BY <1>4, RowTypes DEF TakesLine, InCart
  <2> DEFINE j == LineOf(g, cartItem[i].variant)
  <2>2. j \in ItemIds /\ Exists(j)
    BY <1>4, LineOfIsLine DEF TakesLine, IsLine, InCart
  <2>3. MergedQuantity(i, g) \in Nat \ {0}
    BY <2>1, <2>2, RowTypes DEF MergedQuantity, CartItem
  <2>4. cartItem'[i] = [cartItem[i] EXCEPT !.quantity = MergedQuantity(i, g)]
        /\ reservation'[i] = Renewed(MergedQuantity(i, g))
    BY <1>1, <1>4 DEF MergedReservation
  <2>5. cartItem'[i] \in CartItem /\ reservation'[i] \in CartReservation
    BY <2>1, <2>3, <2>4 DEF CartItem, CartReservation, Renewed
  <2>6. Exists(i)'
    BY <2>5, NoneAssumption DEF Exists
  <2>7. QED
    BY <1>4, <2>1, <2>3, <2>4, <2>5, <2>6 DEF CartItem, Renewed
<1>5. CASE ~TakesLine(i, g, c) /\ ~InCart(i, g) /\ ~JoinsLine(i, g, c)
  <2>1. cartItem'[i] = cartItem[i] /\ reservation'[i] = reservation[i]
    BY <1>1, <1>5
  <2>2. CASE Exists(i)
    BY <1>5, <2>1, <2>2, RowTypes DEF Exists, CartInv, ReservationMatchesItem
  <2>3. CASE ~Exists(i)
    BY <2>1, <2>3 DEF Exists, CartInv, ReservationMatchesItem
  <2>4. QED
    BY <2>2, <2>3
<1>6. QED
  BY <1>2, <1>3, <1>4, <1>5

(* merge_guest_cart                                                        *)
LEMMA MergeKeeps ==
  ASSUME CartInv, NEW g \in Guests, NEW c \in CartIds \ Guests,
         MergeGuestCart(g, c)
  PROVE  CartInv'
<1>1. CartTypeOK'
  <2>1. \A i \in ItemIds : /\ cartItem'[i] \in CartItem \cup {None}
                           /\ reservation'[i] \in CartReservation \cup {None}
    BY MergedRows DEF Exists
  <2>2. cartItem' = [i \in ItemIds |-> cartItem'[i]]
        /\ reservation' = [i \in ItemIds |-> reservation'[i]]
    BY DEF MergeGuestCart
  <2>3. QED
    BY <2>1, <2>2 DEF MergeGuestCart, CartInv, CartTypeOK
<1>2. ReservationMatchesItem'
  BY MergedRows, NoneAssumption DEF ReservationMatchesItem, Exists
<1>3. OneLinePerVariant'
  <2> SUFFICES ASSUME NEW i \in ItemIds, NEW j \in ItemIds,
                      Exists(i)', Exists(j)', i # j,
                      cartItem'[i].cart = cartItem'[j].cart,
                      cartItem'[i].variant = cartItem'[j].variant
               PROVE  FALSE
    BY DEF OneLinePerVariant
  <2>1. \A k \in {i, j} :
          /\ Exists(k) /\ ~JoinsLine(k, g, c)
          /\ cartItem'[k].variant = cartItem[k].variant
          /\ cartItem'[k].cart = IF InCart(k, g) THEN c ELSE cartItem[k].cart
    BY MergedRows
  <2>2. cartItem[i].variant = cartItem[j].variant
    BY <2>1
  <2>3. cartItem[i].cart # cartItem[j].cart
    BY <2>1, <2>2 DEF CartInv, OneLinePerVariant
  <2>4. ASSUME NEW k \in {i, j}, NEW m \in {i, j},
               InCart(k, g), ~InCart(m, g), cartItem[m].cart = c
        PROVE  FALSE
    <3>1. IsLine(m, c, cartItem[k].variant)
      BY <2>1, <2>2, <2>4 DEF IsLine, InCart
    <3>2. JoinsLine(k, g, c)
      BY <2>4, <3>1 DEF JoinsLine, HasLine
    <3>3. QED
      BY <2>1, <2>4, <3>2
  <2>5. QED
    BY <2>1, <2>3, <2>4 DEF InCart
<1>4. QED
  BY <1>1, <1>2, <1>3 DEF CartInv

(* -------------------- expiry and the suppliers' steps ------------------ *)

(* A reservation expires.                                                  *)
LEMMA ElapseKeeps ==
  ASSUME CartInv, NEW i \in ItemIds, Elapse(i)
  PROVE  CartInv'
<1>1. reservation[i] \in CartReservation /\ reservation[i] # None
  BY DEF Elapse, Live, CartInv, CartTypeOK
<1>2. /\ reservation' = [reservation EXCEPT ![i].live = FALSE]
      /\ [reservation[i] EXCEPT !.live = FALSE] \in CartReservation
  BY <1>1 DEF Elapse, CartReservation
<1>3. CartTypeOK'
  BY <1>2 DEF Elapse, CartInv, CartTypeOK
<1>4. \A j \in ItemIds :
        /\ reservation'[j] # None <=> reservation[j] # None
        /\ reservation[j] # None =>
             reservation'[j].quantity = reservation[j].quantity
  BY <1>1, <1>2, NoneAssumption DEF CartInv, CartTypeOK, CartReservation
<1>5. ReservationMatchesItem'
  BY <1>4 DEF Elapse, CartInv, ReservationMatchesItem, Exists
<1>6. OneLinePerVariant'
  BY DEF Elapse, CartInv, OneLinePerVariant, Exists
<1>7. QED
  BY <1>3, <1>5, <1>6 DEF CartInv

(* The expiry task gives a line's stock back.                              *)
LEMMA ReleaseExpiredKeeps ==
  ASSUME CartInv, NEW i \in ItemIds, ReleaseExpired(i)
  PROVE  CartInv'
<1>1. cartItem[i].variant \in Variants /\ Held(i) \in Nat
  BY RowTypes DEF ReleaseExpired, CartItem
<1>2. level' \in [Variants -> StockLevel]
  BY <1>1, ReleaseKeeps DEF ReleaseExpired, CartInv, CartTypeOK
<1>3. QED
  BY <1>2, DeleteKeeps DEF ReleaseExpired, CartInv, CartTypeOK

(* receive_stock and adjust_stock                                          *)
LEMMA StockKeeps ==
  ASSUME CartInv, StockStep
  PROVE  CartInv'
<1>1. level' \in [Variants -> StockLevel]
  <2>1. ASSUME NEW v \in Variants, NEW q \in Quantity, ReceiveStock(v, q)
        PROVE  level' \in [Variants -> StockLevel]
    BY <2>1, QuantityPositive DEF ReceiveStock, CartInv, CartTypeOK, StockLevel
  <2>2. ASSUME NEW v \in Variants, NEW d \in -MaxQuantity..MaxQuantity,
               AdjustStock(v, d)
        PROVE  level' \in [Variants -> StockLevel]
    <3>1. d \in Int
      BY InventoryAssumption
    <3>2. QED
      BY <2>2, <3>1 DEF AdjustStock, CartInv, CartTypeOK, StockLevel
  <2>3. QED
    BY <2>1, <2>2 DEF StockStep, SupplierStockStep
<1>2. QED
  BY <1>1, TablesAlone DEF StockStep, CartInv, CartTypeOK

(* ------------------------------- theorems ------------------------------ *)

LEMMA CartInitInv == CartInit => CartInv
BY InventoryAssumption, NoneAssumption
   DEF CartInit, InventoryInit, StockLevel, CartInv, CartTypeOK,
       ReservationMatchesItem, OneLinePerVariant, Exists

(* Every step of the carts keeps the invariant.                            *)
LEMMA CartStepInv == CartInv /\ [CartNext]_cartVars => CartInv'
<1> SUFFICES ASSUME CartInv, [CartNext]_cartVars
             PROVE  CartInv'
  OBVIOUS
<1>1. CASE BuyerCartStep
  BY <1>1, AddKeeps, UpdateKeeps, RemoveKeeps, ClearReadKeeps,
     ClearCommitKeeps, ClearRollbackKeeps, MergeKeeps DEF BuyerCartStep
<1>2. CASE ExpiryStep
  <2>1. ASSUME NEW i \in ItemIds, SkipExpired(i)
        PROVE  CartInv'
    BY <2>1, TablesAlone DEF SkipExpired, CartInv, CartTypeOK
  <2>2. CASE ExpiryScan \/ WorkerLost
    BY <2>2, TablesAlone DEF ExpiryScan, WorkerLost, CartInv, CartTypeOK
  <2>3. QED
    BY <1>2, <2>1, <2>2, ElapseKeeps, ReleaseExpiredKeeps DEF ExpiryStep
<1>3. CASE StockStep
  BY <1>3, StockKeeps
<1>4. CASE UNCHANGED cartVars
  BY <1>4, TablesAlone DEF cartVars, CartInv, CartTypeOK
<1>5. QED
  BY <1>1, <1>2, <1>3, <1>4 DEF CartNext

THEOREM CartInvariant == CartSpec => []CartInv
<1>1. QED
  BY CartInitInv, CartStepInv, PTL DEF CartSpec

(* Cart tables and stock levels are well typed; in particular no counter   *)
(* of a stock level is ever negative.                                      *)
THEOREM CartTypes == CartSpec => []CartTypeOK
<1>1. CartInv => CartTypeOK
  BY DEF CartInv
<1>2. QED
  BY <1>1, CartInvariant, PTL

(* Every cart line has a reservation for exactly its quantity.             *)
THEOREM ReservationsMatch == CartSpec => []ReservationMatchesItem
<1>1. CartInv => ReservationMatchesItem
  BY DEF CartInv
<1>2. QED
  BY <1>1, CartInvariant, PTL

(* A cart has one line per variant, also after merges.                     *)
THEOREM LinesUnique == CartSpec => []OneLinePerVariant
<1>1. CartInv => OneLinePerVariant
  BY DEF CartInv
<1>2. QED
  BY <1>1, CartInvariant, PTL

(* The expiry task takes no line whose reservation is live: whatever it    *)
(* read earlier, the line of a buyer who renewed in between stays.         *)
THEOREM RenewedKept == CartSpec => RenewedLineKept
<1> DEFINE Kept == expiring' # expiring =>
             \A i \in ItemIds :
                Live(i) =>
                  reservation'[i] = reservation[i] /\ cartItem'[i] = cartItem[i]
<1>1. CartInv /\ [CartNext]_cartVars => [Kept]_cartVars
  <2> SUFFICES ASSUME CartInv, CartNext, expiring' # expiring,
                      NEW j \in ItemIds, Live(j)
               PROVE  reservation'[j] = reservation[j] /\ cartItem'[j] = cartItem[j]
    BY DEF cartVars
  <2>1. ~BuyerCartStep /\ ~StockStep
    BY DEF BuyerCartStep, StockStep, AddToCart, UpdateCartItem, RemoveFromCart,
           ClearRead, ClearCommit, ClearRollback, MergeGuestCart
  <2>2. ASSUME NEW i \in ItemIds, ReleaseExpired(i)
        PROVE  reservation'[j] = reservation[j] /\ cartItem'[j] = cartItem[j]
    <3>1. j # i
      BY <2>2 DEF ReleaseExpired, Expired, Live
    <3>2. QED
      BY <2>2, <3>1 DEF ReleaseExpired, Without
  <2>3. ASSUME NEW i \in ItemIds, SkipExpired(i)
        PROVE  reservation'[j] = reservation[j] /\ cartItem'[j] = cartItem[j]
    BY <2>3 DEF SkipExpired
  <2>4. \A i \in ItemIds : ~Elapse(i)
    BY DEF Elapse
  <2>5. CASE ExpiryScan \/ WorkerLost
    BY <2>5 DEF ExpiryScan, WorkerLost
  <2>6. QED
    BY <2>1, <2>2, <2>3, <2>4, <2>5 DEF CartNext, ExpiryStep
<1>2. QED
  BY <1>1, CartInvariant, PTL DEF CartSpec, RenewedLineKept

(* A step of the carts or of the expiry task moves units of a variant      *)
(* between available and reserved, and changes no variant's units on hand. *)
LEMMA StepKeepsUnits ==
  ASSUME CartInv, BuyerCartStep \/ ExpiryStep
  PROVE  \A v \in Variants : OnHand(level'[v]) = OnHand(level[v])
<1> USE DEF CartInv, CartTypeOK
<1>1. ASSUME NEW c \in CartIds, NEW w \in Variants, NEW q \in Quantity,
             AddToCart(c, w, q)
      PROVE  \A v \in Variants : OnHand(level'[v]) = OnHand(level[v])
  BY <1>1, QuantityPositive, ReserveKeeps DEF AddToCart
<1>2. ASSUME NEW i \in ItemIds, NEW q \in Quantity, UpdateCartItem(i, q)
      PROVE  \A v \in Variants : OnHand(level'[v]) = OnHand(level[v])
  <2> DEFINE w == cartItem[i].variant
             old == cartItem[i].quantity
  <2>1. w \in Variants /\ old \in Nat /\ q \in Nat /\ level[w] \in StockLevel
    BY <1>2, RowTypes, QuantityPositive DEF UpdateCartItem, CartItem
  <2>2. CASE q > old /\ CanReserve(level[w], q - old)
             /\ level' = [level EXCEPT ![w] = Reserve(@, q - old)]
    BY <2>1, <2>2, ReserveKeeps
  <2>3. CASE q < old /\ CanRelease(level[w], old - q)
             /\ level' = [level EXCEPT ![w] = Release(@, old - q)]
    BY <2>1, <2>3, ReleaseKeeps
  <2>4. QED
    BY <1>2, <2>2, <2>3 DEF UpdateCartItem
<1>3. ASSUME NEW i \in ItemIds, RemoveFromCart(i) \/ ReleaseExpired(i)
      PROVE  \A v \in Variants : OnHand(level'[v]) = OnHand(level[v])
  <2>1. Held(i) \in Nat /\ cartItem[i].variant \in Variants
    BY <1>3, RowTypes DEF RemoveFromCart, ReleaseExpired, CartItem
  <2>2. QED
    BY <1>3, <2>1, ReleaseKeeps DEF RemoveFromCart, ReleaseExpired
<1>4. ASSUME NEW c \in CartIds, ClearCommit(c)
      PROVE  \A v \in Variants : OnHand(level'[v]) = OnHand(level[v])
  <2>1. \A v \in Variants : ReleasedBy(c, v) \in Nat
    BY LineOfIsLine DEF ReleasedBy
  <2>2. QED
    BY <1>4, <2>1, ReleaseKeeps DEF ClearCommit
<1>5. CASE level' = level
  BY <1>5
<1>6. QED
  BY <1>1, <1>2, <1>3, <1>4, <1>5
     DEF BuyerCartStep, ExpiryStep, ClearRead, ClearRollback, MergeGuestCart,
         Elapse, SkipExpired, ExpiryScan, WorkerLost

(* Only suppliers change how many units of a variant are on hand.          *)
THEOREM UnitsConserved == CartSpec => UnitsKept
<1>1. CartInv /\ [CartNext]_cartVars
        => [ \/ \A v \in Variants : OnHand(level'[v]) = OnHand(level[v])
             \/ SupplierStockStep ]_cartVars
  BY StepKeepsUnits DEF CartNext, StockStep
<1>2. QED
  BY <1>1, CartInvariant, PTL DEF CartSpec, UnitsKept

(* ------------------------- the units that are held --------------------- *)

(* CartStockBacked is a sum over the rows, and a sum is kept row by row:   *)
(* Weight(v) is what each row adds to it.  A clear_cart releases what it   *)
(* read, so what it read must still be what the rows hold (ClearingAgrees) *)
(* which is where a buyer who sends one request at a time comes in.        *)
Weight(v) ==
  [i \in ItemIds |->
     IF Exists(i) /\ cartItem[i].variant = v THEN Held(i) ELSE 0]

Units(v) == SumFunctionOnSet(Weight(v), ItemIds)

(* a step moves as many units into or out of "reserved" as rows hold more  *)
(* or less afterwards                                                      *)
WeightsMove ==
  \A v \in Variants :
     level'[v].reserved - level[v].reserved = Units(v)' - Units(v)

WeightBacked == \A v \in Variants : level[v].reserved = Units(v)

ClearingAgrees ==
  \A c \in CartIds : ~Idle(c) =>
     \A i \in ItemIds : InCart(i, c) => clearing[c][i] = Held(i)

StockInv == CartInv /\ WeightBacked /\ ClearingAgrees

(* What the rows hold of a variant is the sum of their weights.            *)
LEMMA HeldIsWeight ==
  ASSUME CartInv, NEW v \in Variants
  PROVE  CartHeld(v) = Units(v)
<1> DEFINE T == {i \in ItemIds : Exists(i) /\ cartItem[i].variant = v}
           f == [i \in ItemIds |-> Held(i)]
           g == Weight(v)
<1>1. T \in SUBSET ItemIds /\ \A i \in T : f[i] \in Nat
  BY HeldNat DEF CartInv
<1>2. \A i \in ItemIds : g[i] = IF i \in T THEN f[i] ELSE 0
  BY DEF Weight
<1>3. CartHeld(v) = SumFunctionOnSet(f, T)
  BY DEF CartHeld
<1> HIDE DEF T, f, g
<1>4. SumFunctionOnSet(f, T) = SumFunctionOnSet(g, ItemIds)
  BY <1>1, <1>2, SumWhere, CartAssumption
<1>5. QED
  BY <1>3, <1>4 DEF g, Units

LEMMA UnitsType ==
  ASSUME CartInv, NEW v
  PROVE  Units(v) \in Nat
<1> DEFINE f == Weight(v)
<1>1. \A i \in ItemIds : f[i] \in Nat
  BY HeldNat DEF CartInv, Weight
<1> HIDE DEF f
<1>2. SumFunctionOnSet(f, ItemIds) \in Nat
  BY <1>1, SumGrows, CartAssumption
<1>3. QED
  BY <1>2 DEF f, Units

(* The two sides of the difference, before and after the step              *)
LEMMA WeightTypes ==
  ASSUME CartInv, CartInv', NEW v \in Variants
  PROVE  /\ Ints(Weight(v), ItemIds) /\ Ints(Weight(v)', ItemIds)
         /\ level[v].reserved \in Nat /\ level'[v].reserved \in Nat
BY HeldNat DEF CartInv, CartTypeOK, StockLevel, CartReservation, Weight, Held, Ints

(* The sum of a variant changes by the difference of the one row that      *)
(* changed.                                                                *)
LEMMA RowDifference ==
  ASSUME CartInv, CartInv', NEW v \in Variants, NEW i \in ItemIds,
         \A j \in ItemIds \ {i} : Weight(v)'[j] = Weight(v)[j]
  PROVE  /\ Units(v)' - Units(v) = Weight(v)'[i] - Weight(v)[i]
         /\ Units(v) \in Int /\ Units(v)' \in Int
         /\ Weight(v)[i] \in Int /\ Weight(v)'[i] \in Int
<1> DEFINE f == Weight(v)
           g == Weight(v)'
<1>1. Ints(f, ItemIds) /\ Ints(g, ItemIds)
  BY WeightTypes
<1>2. Units(v) = SumFunctionOnSet(f, ItemIds) /\ Units(v)' = SumFunctionOnSet(g, ItemIds)
  BY DEF Units
<1>3. f[i] \in Int /\ g[i] \in Int
  BY <1>1 DEF Ints
<1> HIDE DEF f, g
<1>4. SumFunctionOnSet(g, ItemIds) = SumFunctionOnSet(f, ItemIds) - f[i] + g[i]
  BY <1>1, SumChange, CartAssumption DEF f, g
<1>5. SumFunctionOnSet(f, ItemIds) \in Int /\ SumFunctionOnSet(g, ItemIds) \in Int
  BY <1>1, SumParts, CartAssumption
<1>6. QED
  BY <1>2, <1>3, <1>4, <1>5 DEF f, g

(* So it is with the row that a request is about, whose variant is v.      *)
LEMMA OneRow ==
  ASSUME CartInv, CartInv', NEW v \in Variants, NEW i \in ItemIds,
         \A u \in Variants : \A j \in ItemIds \ {i} : Weight(u)'[j] = Weight(u)[j],
         \A u \in Variants \ {v} : Weight(u)'[i] = Weight(u)[i],
         level'[v].reserved = level[v].reserved + (Weight(v)'[i] - Weight(v)[i]),
         \A u \in Variants \ {v} : level'[u].reserved = level[u].reserved
  PROVE  WeightsMove
<1> SUFFICES ASSUME NEW u \in Variants
             PROVE  level'[u].reserved - level[u].reserved = Units(u)' - Units(u)
  BY DEF WeightsMove
<1>1. level[u].reserved \in Nat /\ level'[u].reserved \in Nat
  BY WeightTypes
<1>2. /\ Units(u)' - Units(u) = Weight(u)'[i] - Weight(u)[i]
      /\ Weight(u)[i] \in Int /\ Weight(u)'[i] \in Int
  BY RowDifference
<1>3. CASE u = v
  BY <1>1, <1>2, <1>3
<1>4. CASE u # v
  BY <1>1, <1>2, <1>4
<1>5. QED
  BY <1>3, <1>4

(* With every row's weight the same, so is the sum.                        *)
LEMMA SameUnits ==
  ASSUME NEW v, \A i \in ItemIds : Weight(v)'[i] = Weight(v)[i]
  PROVE  Units(v)' = Units(v)
<1>1. Weight(v)' = Weight(v)
  BY DEF Weight
<1>2. QED
  BY <1>1 DEF Units

LEMMA UnitsBoth ==
  ASSUME CartInv, CartInv', NEW v \in Variants
  PROVE  Units(v) \in Int /\ Units(v)' \in Int
<1> DEFINE f == Weight(v)'
<1>1. Ints(f, ItemIds)
  BY WeightTypes
<1> HIDE DEF f
<1>2. SumFunctionOnSet(f, ItemIds) \in Int
  BY <1>1, SumParts, CartAssumption
<1>3. Units(v)' \in Int
  BY <1>2 DEF f, Units
<1>4. QED
  BY <1>3, UnitsType

(* Without a change of weights or counters nothing is to be shown.         *)
LEMMA SameWeights ==
  ASSUME CartInv, CartInv', NEW v \in Variants,
         \A i \in ItemIds : Weight(v)'[i] = Weight(v)[i],
         level'[v].reserved = level[v].reserved
  PROVE  level'[v].reserved - level[v].reserved = Units(v)' - Units(v)
<1>1. Units(v)' = Units(v) /\ Units(v) \in Nat /\ level[v].reserved \in Nat
  BY SameUnits, UnitsType, WeightTypes
<1>2. QED
  BY <1>1

(* add_to_cart reserves what it adds to the line's reservation.            *)
LEMMA AddMoves ==
  ASSUME CartInv, CartInv',
         NEW c \in CartIds, NEW v \in Variants, NEW q \in Quantity,
         AddToCart(c, v, q)
  PROVE  WeightsMove
<1>1. PICK i \in ItemIds :
        /\ IF HasLine(c, v) THEN i = LineOf(c, v) ELSE Fresh(i)
        /\ LET n == (IF Exists(i) THEN cartItem[i].quantity ELSE 0) + q
           IN  /\ cartItem' = [cartItem EXCEPT ![i] =
                     [cart |-> c, variant |-> v, quantity |-> n]]
               /\ reservation' = [reservation EXCEPT ![i] = Renewed(n)]
  BY DEF AddToCart
<1> DEFINE old == IF Exists(i) THEN cartItem[i].quantity ELSE 0
           n == old + q
<1>2. /\ cartItem' = [cartItem EXCEPT ![i] =
                        [cart |-> c, variant |-> v, quantity |-> n]]
      /\ reservation' = [reservation EXCEPT ![i] = Renewed(n)]
  BY <1>1
<1>3. q \in Nat /\ old \in Nat
  BY QuantityPositive, RowTypes DEF CartItem
<1>4. /\ cartItem'[i] = [cart |-> c, variant |-> v, quantity |-> n]
      /\ reservation'[i] = Renewed(n)
      /\ \A j \in ItemIds \ {i} :
           cartItem'[j] = cartItem[j] /\ reservation'[j] = reservation[j]
  BY <1>2 DEF CartInv, CartTypeOK
<1>5. Exists(i) => cartItem[i].variant = v
  BY <1>1, LineOfIsLine DEF Fresh, IsLine
<1>6. Exists(i)' /\ Held(i)' = n
  <2>1. cartItem'[i] \in CartItem /\ reservation'[i] \in CartReservation
    BY <1>3, <1>4, QuantityPositive DEF CartItem, CartReservation, Renewed
  <2>2. cartItem'[i] # None /\ reservation'[i] # None
    BY <2>1, NoneAssumption
  <2>3. reservation'[i].quantity = n
    BY <1>4 DEF Renewed
  <2> HIDE DEF n
  <2>4. QED
    BY <2>2, <2>3 DEF Exists, Held
<1>7. Weight(v)[i] = old
  BY <1>5, RowTypes DEF Weight
<1>8. Weight(v)'[i] = n
  BY <1>4, <1>6 DEF Weight
<1>9. \A u \in Variants \ {v} : Weight(u)'[i] = 0 /\ Weight(u)[i] = 0
  BY <1>4, <1>5 DEF Weight
<1>10. \A u \in Variants : \A j \in ItemIds \ {i} : Weight(u)'[j] = Weight(u)[j]
  BY <1>4 DEF Weight, Exists, Held
<1>11. /\ level'[v].reserved = level[v].reserved + q
       /\ \A u \in Variants \ {v} : level'[u].reserved = level[u].reserved
  BY DEF AddToCart, Reserve, CartInv, CartTypeOK
<1> HIDE DEF old
<1>12. QED
  BY <1>3, <1>7, <1>8, <1>9, <1>10, <1>11, OneRow

(* update_cart_item reserves or releases the difference.                   *)
LEMMA UpdateMoves ==
  ASSUME CartInv, CartInv',
         NEW i \in ItemIds, NEW q \in Quantity, UpdateCartItem(i, q)
  PROVE  WeightsMove
<1>0. PICK v \in Variants, old \in Nat :
        v = cartItem[i].variant /\ old = cartItem[i].quantity
  BY RowTypes DEF UpdateCartItem, CartItem
<1>1. Exists(i) /\ cartItem[i] \in CartItem /\ Held(i) = old
  BY <1>0, RowTypes DEF UpdateCartItem
<1>2. /\ cartItem'[i] = [cartItem[i] EXCEPT !.quantity = q]
      /\ reservation'[i] = Renewed(q)
      /\ \A j \in ItemIds \ {i} :
           cartItem'[j] = cartItem[j] /\ reservation'[j] = reservation[j]
  BY DEF UpdateCartItem, CartInv, CartTypeOK
<1>3. q \in Nat \ {0} /\ cartItem'[i] \in CartItem /\ cartItem'[i].variant = v
  BY <1>0, <1>1, <1>2, QuantityPositive DEF CartItem
<1>4. Exists(i)' /\ Held(i)' = q
  <2>1. cartItem'[i] # None /\ reservation'[i] # None
    BY <1>3, NoneAssumption DEF CartInv, ReservationMatchesItem, Exists
  <2>2. QED
    BY <1>2, <2>1 DEF Exists, Held, Renewed
<1>5. Weight(v)[i] = old /\ Weight(v)'[i] = q
  BY <1>0, <1>1, <1>3, <1>4 DEF Weight
<1>6. \A u \in Variants \ {v} : Weight(u)'[i] = Weight(u)[i]
  BY <1>0, <1>1, <1>3, <1>4 DEF Weight
<1>7. \A u \in Variants : \A j \in ItemIds \ {i} : Weight(u)'[j] = Weight(u)[j]
  BY <1>2 DEF Weight, Exists, Held
<1>8. /\ level'[v].reserved = level[v].reserved + (q - old)
      /\ \A u \in Variants \ {v} : level'[u].reserved = level[u].reserved
  <2>1. level \in [Variants -> StockLevel]
    BY DEF CartInv, CartTypeOK
  <2>2. CASE q > old /\ level' = [level EXCEPT ![v] = Reserve(@, q - old)]
    BY <1>1, <1>3, <2>1, <2>2 DEF Reserve, StockLevel
  <2>3. CASE q < old /\ level' = [level EXCEPT ![v] = Release(@, old - q)]
    BY <1>1, <1>3, <2>1, <2>3 DEF Release, StockLevel
  <2>4. CASE q = old /\ level' = level
    BY <1>1, <1>3, <2>1, <2>4 DEF StockLevel
  <2>5. QED
    BY <1>0, <2>2, <2>3, <2>4 DEF UpdateCartItem
<1>9. QED
  BY <1>5, <1>6, <1>7, <1>8, OneRow

(* remove_from_cart and the expiry task give back what the row holds.      *)
LEMMA DeleteMoves ==
  ASSUME CartInv, CartInv', NEW i \in ItemIds,
         RemoveFromCart(i) \/ ReleaseExpired(i)
  PROVE  WeightsMove
<1>0. PICK v \in Variants : v = cartItem[i].variant
  BY RowTypes DEF RemoveFromCart, ReleaseExpired, CartItem
<1>1. Exists(i) /\ Held(i) \in Nat
  BY RowTypes DEF RemoveFromCart, ReleaseExpired
<1>2. /\ level' = [level EXCEPT ![v] = Release(@, Held(i))]
      /\ cartItem' = Without(cartItem, {i})
      /\ reservation' = Without(reservation, {i})
  BY <1>0 DEF RemoveFromCart, ReleaseExpired
<1>3. /\ ~Exists(i)'
      /\ \A j \in ItemIds \ {i} :
           cartItem'[j] = cartItem[j] /\ reservation'[j] = reservation[j]
  BY <1>2 DEF Without, Exists
<1>4. \A u \in Variants : \A j \in ItemIds \ {i} : Weight(u)'[j] = Weight(u)[j]
  BY <1>3 DEF Weight, Exists, Held
<1>5. Weight(v)[i] = Held(i) /\ Weight(v)'[i] = 0
  BY <1>0, <1>1, <1>3 DEF Weight
<1>6. \A u \in Variants \ {v} : Weight(u)'[i] = Weight(u)[i]
  BY <1>0, <1>1, <1>3 DEF Weight
<1>7. /\ level'[v].reserved = level[v].reserved + (0 - Held(i))
      /\ \A u \in Variants \ {v} : level'[u].reserved = level[u].reserved
  BY <1>1, <1>2 DEF Release, CartInv, CartTypeOK, StockLevel
<1>8. QED
  BY <1>1, <1>4, <1>5, <1>6, <1>7, OneRow

(* clear_cart gives back what it read: of a variant, the cart's one line,  *)
(* which holds what was read.                                              *)
LEMMA ClearMoves ==
  ASSUME CartInv, CartInv', ClearingAgrees,
         NEW c \in CartIds, ClearCommit(c)
  PROVE  WeightsMove
<1> DEFINE R == ClearedRows(c)
<1>1. /\ \A i \in R : ~Exists(i)'
      /\ \A i \in ItemIds \ R :
           cartItem'[i] = cartItem[i] /\ reservation'[i] = reservation[i]
  <2>1. R \subseteq ItemIds
    BY DEF ClearedRows
  <2> HIDE DEF R
  <2>2. /\ cartItem' = Without(cartItem, R)
        /\ reservation' = Without(reservation, R)
    BY DEF ClearCommit, R
  <2>3. QED
    BY <2>1, <2>2 DEF Without, Exists
<1>2. \A i \in ItemIds : i \in R <=> InCart(i, c)
  <2>1. \A i \in ItemIds : InCart(i, c) => clearing[c][i] = Held(i) /\ Held(i) > 0
    BY RowTypes DEF ClearCommit, ClearingAgrees, InCart
  <2>2. QED
    BY <2>1 DEF ClearedRows
<1> HIDE DEF R
<1> SUFFICES ASSUME NEW v \in Variants
             PROVE  level'[v].reserved - level[v].reserved = Units(v)' - Units(v)
  BY DEF WeightsMove
<1>3. level'[v] = Release(level[v], ReleasedBy(c, v)) /\ level[v].reserved \in Nat
  BY DEF ClearCommit, CartInv, CartTypeOK, StockLevel
<1>4. CASE ~HasLine(c, v)
  <2>1. \A i \in R \cap ItemIds : ~(Exists(i) /\ cartItem[i].variant = v)
    BY <1>2, <1>4 DEF HasLine, IsLine, InCart
  <2>2. \A i \in ItemIds : Weight(v)'[i] = Weight(v)[i]
    BY <1>1, <2>1 DEF Weight, Exists, Held
  <2>3. level'[v].reserved = level[v].reserved
    BY <1>3, <1>4 DEF ReleasedBy, Release
  <2>4. QED
    BY <2>2, <2>3, SameWeights
<1>5. CASE HasLine(c, v)
  <2>1. PICK i \in ItemIds : i = LineOf(c, v) /\ IsLine(i, c, v)
    BY <1>5, LineOfIsLine
  <2>2. /\ i \in R /\ Exists(i) /\ cartItem[i].variant = v
        /\ Held(i) \in Nat /\ ReleasedBy(c, v) = Held(i)
    BY <1>2, <1>5, <2>1, HeldNat
       DEF IsLine, InCart, ReleasedBy, ClearCommit, ClearingAgrees, CartInv
  <2>3. \A j \in ItemIds \ {i} : j \in R => ~(Exists(j) /\ cartItem[j].variant = v)
    BY <1>2, <2>1, <2>2 DEF IsLine, InCart, CartInv, OneLinePerVariant
  <2>4. \A j \in ItemIds \ {i} : Weight(v)'[j] = Weight(v)[j]
    BY <1>1, <2>3 DEF Weight, Exists, Held
  <2>5. Weight(v)[i] = Held(i) /\ Weight(v)'[i] = 0
    BY <1>1, <2>2 DEF Weight
  <2>6. level'[v].reserved = level[v].reserved - Held(i)
    BY <1>3, <2>2 DEF Release
  <2>7. Units(v)' - Units(v) = Weight(v)'[i] - Weight(v)[i]
    BY <2>4, RowDifference
  <2>8. QED
    BY <1>3, <2>2, <2>5, <2>6, <2>7
<1>6. QED
  BY <1>4, <1>5

(* merge_guest_cart: what the rows hold afterwards                         *)
LEMMA MergedHeld ==
  ASSUME CartInv, NEW g \in Guests, NEW c \in CartIds \ Guests,
         MergeGuestCart(g, c), NEW i \in ItemIds, Exists(i)'
  PROVE  /\ Exists(i)
         /\ cartItem'[i].variant = cartItem[i].variant
         /\ Held(i)' = IF TakesLine(i, g, c) THEN MergedQuantity(i, g) ELSE Held(i)
<1>1. /\ Exists(i) /\ ~JoinsLine(i, g, c)
      /\ cartItem'[i].variant = cartItem[i].variant
      /\ reservation'[i] \in CartReservation
      /\ reservation'[i].quantity = cartItem'[i].quantity
  BY MergedRows
<1>2. Held(i)' = cartItem'[i].quantity
  BY <1>1, NoneAssumption DEF Held
<1>3. cartItem[i] \in CartItem /\ Held(i) = cartItem[i].quantity
  BY <1>1, RowTypes
<1>4. cartItem'[i] = IF InCart(i, g) THEN [cartItem[i] EXCEPT !.cart = c]
                     ELSE IF TakesLine(i, g, c)
                          THEN [cartItem[i] EXCEPT !.quantity = MergedQuantity(i, g)]
                     ELSE cartItem[i]
  BY <1>1 DEF MergeGuestCart
<1>5. InCart(i, g) => ~TakesLine(i, g, c)
  BY DEF InCart, TakesLine
<1>6. cartItem'[i].quantity =
        IF TakesLine(i, g, c) THEN MergedQuantity(i, g) ELSE cartItem[i].quantity
  BY <1>3, <1>4, <1>5 DEF CartItem
<1>7. QED
  BY <1>1, <1>2, <1>3, <1>6

(* ... so a variant in both carts has its weight moved to the buyer's row. *)
LEMMA MergeMoves ==
  ASSUME CartInv, CartInv',
         NEW g \in Guests, NEW c \in CartIds \ Guests, MergeGuestCart(g, c)
  PROVE  WeightsMove
<1> SUFFICES ASSUME NEW v \in Variants
             PROVE  level'[v].reserved - level[v].reserved = Units(v)' - Units(v)
  BY DEF WeightsMove
<1>1. level' = level /\ g # c
  BY DEF MergeGuestCart
<1>2. ASSUME NEW i \in ItemIds, Exists(i), ~JoinsLine(i, g, c)
      PROVE  Exists(i)'
  <2>1. cartItem[i] \in CartItem
    BY <1>2, RowTypes
  <2>2. cartItem'[i] = IF InCart(i, g) THEN [cartItem[i] EXCEPT !.cart = c]
                       ELSE IF TakesLine(i, g, c)
                            THEN [cartItem[i] EXCEPT !.quantity = MergedQuantity(i, g)]
                       ELSE cartItem[i]
    BY <1>2 DEF MergeGuestCart
  <2>3. TakesLine(i, g, c) => MergedQuantity(i, g) \in Nat \ {0}
    BY <1>2, <2>1, LineOfIsLine, RowTypes
       DEF MergedQuantity, TakesLine, IsLine, InCart, CartItem
  <2>4. cartItem'[i] \in CartItem
    BY <2>1, <2>2, <2>3 DEF CartItem
  <2>5. QED
    BY <2>4, NoneAssumption DEF Exists
<1>3. CASE \E i \in ItemIds : IsLine(i, g, v) /\ HasLine(c, v)
  <2>1. PICK i \in ItemIds, j \in ItemIds :
          /\ i = LineOf(g, v) /\ j = LineOf(c, v)
          /\ IsLine(i, g, v) /\ IsLine(j, c, v)
    BY <1>3, LineOfIsLine DEF HasLine
  <2>2. i # j /\ JoinsLine(i, g, c) /\ TakesLine(j, g, c) /\ ~JoinsLine(j, g, c)
    BY <1>1, <2>1 DEF IsLine, InCart, JoinsLine, TakesLine, HasLine
  <2>3. /\ Exists(i) /\ cartItem[i].variant = v /\ Held(i) = cartItem[i].quantity
        /\ Exists(j) /\ cartItem[j].variant = v /\ Held(j) = cartItem[j].quantity
        /\ Held(i) \in Nat /\ Held(j) \in Nat
    BY <2>1, RowTypes DEF IsLine, InCart
  <2>4. ~Exists(i)'
    BY <2>2, MergedRows
  <2>5. Exists(j)' /\ cartItem'[j].variant = v /\ Held(j)' = Held(j) + Held(i)
    <3>1. Exists(j)'
      BY <1>2, <2>2, <2>3
    <3>2. MergedQuantity(j, g) = Held(j) + Held(i)
      BY <2>1, <2>3 DEF MergedQuantity
    <3>3. QED
      BY <2>2, <2>3, <3>1, <3>2, MergedHeld
  <2>6. ASSUME NEW k \in ItemIds \ {i, j}
        PROVE  Weight(v)'[k] = Weight(v)[k]
    <3>1. CASE Exists(k) /\ cartItem[k].variant = v
      <4>1. ~InCart(k, g) /\ ~InCart(k, c)
        BY <2>1, <3>1 DEF IsLine, InCart, CartInv, OneLinePerVariant
      <4>2. Exists(k)'
        BY <1>2, <3>1, <4>1 DEF JoinsLine
      <4>3. cartItem'[k].variant = v /\ Held(k)' = Held(k)
        BY <3>1, <4>1, <4>2, MergedHeld DEF TakesLine
      <4>4. QED
        BY <3>1, <4>2, <4>3 DEF Weight
    <3>2. CASE ~(Exists(k) /\ cartItem[k].variant = v)
      <4>1. ~(Exists(k)' /\ cartItem'[k].variant = v)
        BY <3>2, MergedHeld
      <4>2. QED
        BY <3>2, <4>1 DEF Weight
    <3>3. QED
      BY <3>1, <3>2
  <2> DEFINE f == Weight(v)
             g2 == Weight(v)'
             h == [k \in ItemIds |-> IF k = i THEN 0 ELSE f[k]]
  <2>7. /\ f[i] = Held(i) /\ f[j] = Held(j)
        /\ g2[i] = 0 /\ g2[j] = Held(j) + Held(i)
        /\ \A k \in ItemIds \ {i, j} : g2[k] = f[k]
    BY <2>3, <2>4, <2>5, <2>6 DEF Weight
  <2>8. Ints(f, ItemIds) /\ Ints(g2, ItemIds)
    BY WeightTypes
  <2>9. Units(v) = SumFunctionOnSet(f, ItemIds) /\ Units(v)' = SumFunctionOnSet(g2, ItemIds)
    BY DEF Units
  <2> HIDE DEF f, g2
  <2>10. Ints(h, ItemIds) /\ h[i] = 0 /\ \A k \in ItemIds \ {i} : h[k] = f[k]
    BY <2>8 DEF Ints
  <2>11. \A k \in ItemIds \ {j} : g2[k] = h[k]
    BY <2>7, <2>10
  <2> HIDE DEF h
  <2>12. SumFunctionOnSet(h, ItemIds) = SumFunctionOnSet(f, ItemIds) - f[i] + h[i]
    BY <2>8, <2>10, SumChange, CartAssumption
  <2>13. SumFunctionOnSet(g2, ItemIds) = SumFunctionOnSet(h, ItemIds) - h[j] + g2[j]
    BY <2>8, <2>10, <2>11, SumChange, CartAssumption
  <2>14. h[j] = f[j] /\ level[v].reserved \in Nat
    BY <2>2, <2>10 DEF CartInv, CartTypeOK, StockLevel
  <2>15. SumFunctionOnSet(f, ItemIds) \in Int
    BY <2>8, SumParts, CartAssumption
  <2>16. QED
    BY <1>1, <2>3, <2>7, <2>9, <2>10, <2>12, <2>13, <2>14, <2>15
<1>4. CASE ~\E i \in ItemIds : IsLine(i, g, v) /\ HasLine(c, v)
  <2>1. ASSUME NEW k \in ItemIds
        PROVE  Weight(v)'[k] = Weight(v)[k]
    <3>1. CASE Exists(k) /\ cartItem[k].variant = v
      <4>1. ~JoinsLine(k, g, c) /\ ~TakesLine(k, g, c)
        BY <1>4, <3>1 DEF JoinsLine, TakesLine, HasLine, IsLine, InCart
      <4>2. Exists(k)'
        BY <1>2, <3>1, <4>1
      <4>3. cartItem'[k].variant = v /\ Held(k)' = Held(k)
        BY <3>1, <4>1, <4>2, MergedHeld
      <4>4. QED
        BY <3>1, <4>2, <4>3 DEF Weight
    <3>2. CASE ~(Exists(k) /\ cartItem[k].variant = v)
      <4>1. ~(Exists(k)' /\ cartItem'[k].variant = v)
        BY <3>2, MergedHeld
      <4>2. QED
        BY <3>2, <4>1 DEF Weight
    <3>3. QED
      BY <3>1, <3>2
  <2>2. QED
    BY <1>1, <2>1, SameWeights
<1>5. QED
  BY <1>3, <1>4

(* ------------------- what a clear_cart in flight has read -------------- *)

(* ClearingAgrees of one step follows when no cart that is being cleared   *)
(* gains a line or sees one of its lines change its quantity.              *)
LEMMA AgreesStill ==
  ASSUME ClearingAgrees, clearing' = clearing,
         \A c \in CartIds : ~Idle(c) =>
            \A i \in ItemIds : InCart(i, c)' => InCart(i, c) /\ Held(i)' = Held(i)
  PROVE  ClearingAgrees'
BY DEF ClearingAgrees, Idle

(* Rows that are deleted are in no cart; the others stay as they are.      *)
LEMMA DeletedAgree ==
  ASSUME ClearingAgrees, NEW S, clearing' = clearing,
         cartItem' = Without(cartItem, S), reservation' = Without(reservation, S)
  PROVE  ClearingAgrees'
<1>1. \A c \in CartIds : \A i \in ItemIds :
        InCart(i, c)' => InCart(i, c) /\ Held(i)' = Held(i)
  BY DEF InCart, Exists, Held, Without
<1>2. QED
  BY <1>1, AgreesStill

(* The buyer whose cart is being cleared waits for the answer, so requests *)
(* change the lines of other carts only.                                   *)
LEMMA RequestsAgree ==
  ASSUME SerialBuyers, CartInv, CartInv', ClearingAgrees,
         \/ \E c \in CartIds, v \in Variants, q \in Quantity : AddToCart(c, v, q)
         \/ \E i \in ItemIds, q \in Quantity : UpdateCartItem(i, q)
         \/ \E g \in Guests, c \in CartIds \ Guests : MergeGuestCart(g, c)
  PROVE  ClearingAgrees'
<1>1. ASSUME NEW c \in CartIds, NEW v \in Variants, NEW q \in Quantity,
             AddToCart(c, v, q)
      PROVE  ClearingAgrees'
  <2>1. Idle(c) /\ clearing' = clearing
    BY <1>1 DEF AddToCart, Admits
  <2>2. PICK i \in ItemIds : \E n :
          /\ cartItem' = [cartItem EXCEPT ![i] =
                            [cart |-> c, variant |-> v, quantity |-> n]]
          /\ reservation' = [reservation EXCEPT ![i] = Renewed(n)]
    BY <1>1 DEF AddToCart
  <2>3. /\ cartItem'[i].cart = c
        /\ \A j \in ItemIds \ {i} :
             cartItem'[j] = cartItem[j] /\ reservation'[j] = reservation[j]
    BY <2>2 DEF CartInv, CartTypeOK
  <2>4. \A d \in CartIds : ~Idle(d) =>
          \A j \in ItemIds : InCart(j, d)' => InCart(j, d) /\ Held(j)' = Held(j)
    BY <2>1, <2>3 DEF InCart, Exists, Held
  <2>5. QED
    BY <2>1, <2>4, AgreesStill
<1>2. ASSUME NEW i \in ItemIds, NEW q \in Quantity, UpdateCartItem(i, q)
      PROVE  ClearingAgrees'
  <2>1. Idle(cartItem[i].cart) /\ clearing' = clearing /\ Exists(i)
    BY <1>2 DEF UpdateCartItem, Admits
  <2>2. cartItem[i] \in CartItem
    BY <2>1, RowTypes
  <2>3. /\ cartItem'[i].cart = cartItem[i].cart
        /\ \A j \in ItemIds \ {i} :
             cartItem'[j] = cartItem[j] /\ reservation'[j] = reservation[j]
    BY <1>2, <2>2 DEF UpdateCartItem, CartInv, CartTypeOK, CartItem
  <2>4. \A d \in CartIds : ~Idle(d) =>
          \A j \in ItemIds : InCart(j, d)' => InCart(j, d) /\ Held(j)' = Held(j)
    BY <2>1, <2>3 DEF InCart, Exists, Held
  <2>5. QED
    BY <2>1, <2>4, AgreesStill
<1>3. ASSUME NEW g \in Guests, NEW c \in CartIds \ Guests, MergeGuestCart(g, c)
      PROVE  ClearingAgrees'
  <2>1. Idle(c) /\ clearing' = clearing
    BY <1>3 DEF MergeGuestCart, Admits
  <2>2. ASSUME NEW d \in CartIds, ~Idle(d), NEW j \in ItemIds, InCart(j, d)'
        PROVE  InCart(j, d) /\ Held(j)' = Held(j)
    <3>1. /\ Exists(j)' /\ cartItem'[j].cart = d /\ d # c
      BY <2>1, <2>2 DEF InCart
    <3>2. Exists(j) /\ cartItem[j].cart = d
      BY <1>3, <3>1, MergedRows
    <3>3. ~TakesLine(j, g, c)
      BY <3>1, <3>2 DEF TakesLine, InCart
    <3>4. QED
      BY <1>3, <3>1, <3>2, <3>3, MergedHeld DEF InCart
  <2>3. QED
    BY <2>1, <2>2, AgreesStill
<1>4. QED
  BY <1>1, <1>2, <1>3

(* clear_cart itself                                                       *)
LEMMA ClearAgrees ==
  ASSUME CartInv, ClearingAgrees, NEW c \in CartIds,
         ClearRead(c) \/ ClearCommit(c) \/ ClearRollback(c)
  PROVE  ClearingAgrees'
<1>1. /\ clearing \in [CartIds -> [ItemIds -> Nat]]
      /\ \A d \in CartIds \ {c} : clearing'[d] = clearing[d]
  BY DEF ClearRead, ClearCommit, ClearRollback, CartInv, CartTypeOK
<1>2. CASE ClearRead(c)
  <2>1. /\ cartItem' = cartItem /\ reservation' = reservation
        /\ \A i \in ItemIds : InCart(i, c) => clearing'[c][i] = Held(i)
    BY <1>1, <1>2 DEF ClearRead
  <2>2. QED
    BY <1>1, <2>1 DEF ClearingAgrees, Idle, InCart, Exists, Held
<1>3. CASE ClearCommit(c) \/ ClearRollback(c)
  <2>1. \A i \in ItemIds : clearing'[c][i] = 0
    BY <1>1, <1>3 DEF ClearCommit, ClearRollback
  <2>2. \A d \in CartIds : \A i \in ItemIds :
          InCart(i, d)' => InCart(i, d) /\ Held(i)' = Held(i)
    BY <1>3 DEF ClearCommit, ClearRollback, InCart, Exists, Held, Without
  <2>3. QED
    BY <1>1, <2>1, <2>2 DEF ClearingAgrees, Idle
<1>4. QED
  BY <1>2, <1>3

(* --------------------- the sums under every step ----------------------- *)

LEMMA StockStart == CartInit => StockInv
<1> SUFFICES ASSUME CartInit PROVE StockInv
  OBVIOUS
<1>1. CartInv
  BY CartInitInv
<1>2. ClearingAgrees
  BY DEF CartInit, ClearingAgrees, Idle
<1>3. ASSUME NEW v \in Variants
      PROVE  level[v].reserved = Units(v)
  <2>1. level[v].reserved = 0
    BY <1>3 DEF CartInit, InventoryInit
  <2>2. \A i \in ItemIds : Weight(v)[i] = 0
    BY DEF CartInit, Weight, Exists
  <2> DEFINE f == Weight(v)
  <2> HIDE DEF f
  <2>3. SumFunctionOnSet(f, {}) = SumFunctionOnSet(f, ItemIds)
    BY <2>2, SumGrows, CartAssumption DEF f
  <2>4. SumFunctionOnSet(f, {}) = 0
    BY FS_EmptySet, SumParts DEF Ints
  <2>5. QED
    BY <2>1, <2>3, <2>4 DEF f, Units
<1>4. QED
  BY <1>1, <1>2, <1>3 DEF StockInv, WeightBacked

(* A step that moves no reserved unit and changes no row's weight.         *)
LEMMA WeightsAlone ==
  ASSUME CartInv, CartInv',
         \A v \in Variants : level'[v].reserved = level[v].reserved,
         \A i \in ItemIds : /\ Exists(i)' <=> Exists(i)
                            /\ Exists(i) => cartItem'[i].variant = cartItem[i].variant
                            /\ Held(i)' = Held(i)
  PROVE  WeightsMove
<1>1. \A v \in Variants : \A i \in ItemIds : Weight(v)'[i] = Weight(v)[i]
  BY DEF Weight
<1>2. QED
  BY <1>1, SameWeights DEF WeightsMove

(* Every step of the carts moves the units it should, and leaves what is   *)
(* being cleared as it was read.                                           *)
LEMMA CartMoves ==
  ASSUME SerialBuyers, CartInv, CartInv', ClearingAgrees, [CartNext]_cartVars
  PROVE  WeightsMove /\ ClearingAgrees'
<1>1. ASSUME NEW c \in CartIds, NEW v \in Variants, NEW q \in Quantity,
             AddToCart(c, v, q)
      PROVE  WeightsMove /\ ClearingAgrees'
  BY <1>1, AddMoves, RequestsAgree
<1>2. ASSUME NEW i \in ItemIds, NEW q \in Quantity, UpdateCartItem(i, q)
      PROVE  WeightsMove /\ ClearingAgrees'
  BY <1>2, UpdateMoves, RequestsAgree
<1>3. ASSUME NEW i \in ItemIds, RemoveFromCart(i) \/ ReleaseExpired(i)
      PROVE  WeightsMove /\ ClearingAgrees'
  <2>1. ClearingAgrees'
    BY <1>3, DeletedAgree DEF RemoveFromCart, ReleaseExpired
  <2>2. QED
    BY <1>3, <2>1, DeleteMoves
<1>4. ASSUME NEW c \in CartIds, ClearRead(c) \/ ClearRollback(c)
      PROVE  WeightsMove /\ ClearingAgrees'
  <2>1. WeightsMove
    BY <1>4, WeightsAlone DEF ClearRead, ClearRollback, Exists, Held
  <2>2. QED
    BY <1>4, <2>1, ClearAgrees
<1>5. ASSUME NEW c \in CartIds, ClearCommit(c)
      PROVE  WeightsMove /\ ClearingAgrees'
  BY <1>5, ClearMoves, ClearAgrees
<1>6. ASSUME NEW g \in Guests, NEW c \in CartIds \ Guests, MergeGuestCart(g, c)
      PROVE  WeightsMove /\ ClearingAgrees'
  BY <1>6, MergeMoves, RequestsAgree
<1>7. ASSUME NEW i \in ItemIds, Elapse(i)
      PROVE  WeightsMove /\ ClearingAgrees'
  <2>1. \A j \in ItemIds : Held(j)' = Held(j)
    <3>1. reservation[i] \in CartReservation /\ reservation[i] # None
      BY <1>7 DEF Elapse, Live, CartInv, CartTypeOK
    <3>2. /\ reservation'[i] = [reservation[i] EXCEPT !.live = FALSE]
          /\ \A j \in ItemIds \ {i} : reservation'[j] = reservation[j]
      BY <1>7 DEF Elapse, CartInv, CartTypeOK
    <3>3. reservation'[i] \in CartReservation
          /\ reservation'[i].quantity = reservation[i].quantity
      BY <3>1, <3>2 DEF CartReservation
    <3>4. QED
      BY <3>1, <3>2, <3>3, NoneAssumption DEF Held
  <2>2. cartItem' = cartItem /\ level' = level /\ clearing' = clearing
    BY <1>7 DEF Elapse
  <2>3. WeightsMove
    BY <2>1, <2>2, WeightsAlone DEF Exists
  <2>4. ClearingAgrees'
    BY <2>1, <2>2, AgreesStill DEF InCart, Exists
  <2>5. QED
    BY <2>3, <2>4
<1>8. CASE /\ cartItem' = cartItem /\ reservation' = reservation
           /\ clearing' = clearing
           /\ \A v \in Variants : level'[v].reserved = level[v].reserved
  <2>1. WeightsMove
    BY <1>8, WeightsAlone DEF Exists, Held
  <2>2. ClearingAgrees'
    BY <1>8, AgreesStill DEF InCart, Exists, Held
  <2>3. QED
    BY <2>1, <2>2
<1>9. CASE BuyerCartStep
  BY <1>9, <1>1, <1>2, <1>3, <1>4, <1>5, <1>6 DEF BuyerCartStep
<1>10. CASE ExpiryStep
  BY <1>10, <1>3, <1>7, <1>8 DEF ExpiryStep, SkipExpired, ExpiryScan, WorkerLost
<1>11. CASE StockStep
  <2>1. \A v \in Variants : level'[v].reserved = level[v].reserved
    BY <1>11 DEF StockStep, SupplierStockStep, ReceiveStock, AdjustStock,
       CartInv, CartTypeOK, StockLevel
  <2>2. QED
    BY <1>8, <1>11, <2>1 DEF StockStep
<1>12. CASE UNCHANGED cartVars
  BY <1>8, <1>12 DEF cartVars
<1>13. QED
  BY <1>9, <1>10, <1>11, <1>12 DEF CartNext

LEMMA StockStepInv ==
  ASSUME SerialBuyers, StockInv, [CartNext]_cartVars
  PROVE  StockInv'
<1>1. CartInv /\ CartInv' /\ WeightBacked /\ ClearingAgrees
  BY CartStepInv DEF StockInv
<1>2. WeightsMove /\ ClearingAgrees'
  BY <1>1, CartMoves
<1>3. ASSUME NEW v \in Variants
      PROVE  level'[v].reserved = Units(v)'
  <2>1. /\ level'[v].reserved - level[v].reserved = Units(v)' - Units(v)
        /\ level[v].reserved = Units(v)
    BY <1>1, <1>2 DEF WeightsMove, WeightBacked
  <2>2. level[v].reserved \in Nat /\ level'[v].reserved \in Nat
    BY <1>1, WeightTypes
  <2>3. Units(v)' \in Int
    BY <1>1, UnitsBoth
  <2>4. QED
    BY <2>1, <2>2, <2>3
<1>4. QED
  BY <1>1, <1>2, <1>3 DEF StockInv, WeightBacked

(* While a buyer sends one request at a time, the units reserved of a      *)
(* variant are at all times those its cart lines hold: no add, update,     *)
(* merge, clear or expiry run leaks a unit or gives one back twice.        *)
THEOREM StockBacked == SerialBuyers => (CartSpec => []CartStockBacked)
<1>1. CASE SerialBuyers
  <2>1. StockInv => CartStockBacked
    BY HeldIsWeight DEF StockInv, WeightBacked, CartStockBacked
  <2>2. SerialBuyers /\ StockInv /\ [CartNext]_cartVars => StockInv'
    BY StockStepInv
  <2>3. QED
    BY <1>1, <2>1, <2>2, StockStart, PTL DEF CartSpec
<1>2. CASE ~SerialBuyers
  BY <1>2
<1>3. QED
  BY <1>1, <1>2
=============================================================================
