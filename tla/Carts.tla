-------------------------------- MODULE Carts --------------------------------
(***************************************************************************)
(* Carts and their 30-minute stock reservations                            *)
(* (apps/marketplace/services.py and tasks.py) over the stock levels.      *)
(*                                                                         *)
(* The tables are CartItem and CartReservation (one reservation row per    *)
(* item row, deleted with it); a row is known by its id, which is never    *)
(* used again while anything in flight still refers to it.  The database   *)
(* is PostgreSQL at READ COMMITTED.  A service function that locks the     *)
(* CartItem row before it reads what it uses is one step.  Two are not:    *)
(*                                                                         *)
(*  - clear_cart reads items and reservations in one locking SELECT with   *)
(*    a join.  When the statement has to wait for an item's lock, only the *)
(*    item is read again; the joined reservation is the one of the         *)
(*    statement's start.  ClearRead is the start, ClearCommit the rest.    *)
(*  - the expiry task takes the ids of the expired reservations, then      *)
(*    treats each id in a transaction of its own, and may die in between.  *)
(*                                                                         *)
(* Time is one bit of each reservation: live until expires_at passes.      *)
(***************************************************************************)
EXTENDS Inventory, FiniteSets, Functions

CONSTANTS
  CartIds,        \* carts of signed-in buyers and of guest sessions
  Guests,         \* the guest ones among them
  ItemIds,        \* primary keys of CartItem rows
  SerialBuyers,   \* TRUE: a buyer sends no cart request while the answer
                  \* to clear_cart on the same cart is outstanding
  None            \* no row

ASSUME CartAssumption ==
  /\ Guests \subseteq CartIds
  /\ SerialBuyers \in BOOLEAN
  /\ IsFiniteSet(ItemIds)

CartItem == [cart : CartIds, variant : Variants, quantity : Nat \ {0}]
CartReservation == [quantity : Nat \ {0}, live : BOOLEAN]

ASSUME NoneAssumption == None \notin CartItem /\ None \notin CartReservation

VARIABLES
  cartItem,       \* cartItem[i]: the CartItem row with id i, or None
  reservation,    \* reservation[i]: the CartReservation of item i, or None
  clearing,       \* clearing[c][i]: the quantity of item i's reservation as
                  \* a clear_cart of cart c in flight has read it, 0 if not
  expiring        \* ids an expiry task has read and not yet treated

cartVars == <<level, cartItem, reservation, clearing, expiring>>

Exists(i) == cartItem[i] # None
InCart(i, c) == Exists(i) /\ cartItem[i].cart = c
IsLine(i, c, v) == InCart(i, c) /\ cartItem[i].variant = v
HasLine(c, v) == \E i \in ItemIds : IsLine(i, c, v)

(* The row of variant v in cart c: (cart, variant) is unique. *)
LineOf(c, v) == CHOOSE i \in ItemIds : IsLine(i, c, v)

Fresh(i) ==
  /\ ~Exists(i)
  /\ i \notin expiring
  /\ \A c \in CartIds : clearing[c][i] = 0

Idle(c) == \A i \in ItemIds : clearing[c][i] = 0
Admits(c) == SerialBuyers => Idle(c)

(* The stock held for an item: what its reservation row says. *)
Held(i) == IF reservation[i] = None THEN 0 ELSE reservation[i].quantity
Live(i) == reservation[i] # None /\ reservation[i].live
Expired(i) == reservation[i] # None /\ ~reservation[i].live

Renewed(q) == [quantity |-> q, live |-> TRUE]

(* item.delete(): the reservation row goes with the item row. *)
Without(rows, S) == [i \in ItemIds |-> IF i \in S THEN None ELSE rows[i]]

-----------------------------------------------------------------------------

(* Mutated forms, substituted by the checks for the definitions they name. *)

(* for MergedReservation: the sum is not carried over *)
ReservationUnsummed(i, g) == Renewed(cartItem[i].quantity)

(* for JoinsLine: lines are moved without a look at the buyer's own *)
NeverJoins(i, g, c) == FALSE

(* for ReleasedBy: the rows are deleted, their stock is not released *)
ClearsWithoutRelease(c, v) == 0

(* for ExpiryScan: the comparison with now is the wrong way round *)
ScanUnexpired ==
  /\ {i \in ItemIds : Exists(i) /\ ~Expired(i)} \ expiring # {}
  /\ expiring' = expiring \cup {i \in ItemIds : Exists(i) /\ ~Expired(i)}
  /\ UNCHANGED <<level, cartItem, reservation, clearing>>

(* for ReleaseExpired: expires_at is not tested again under the lock *)
ReleaseWithoutRecheck(i) ==
  /\ i \in expiring /\ Exists(i) /\ reservation[i] # None
  /\ CanRelease(level[cartItem[i].variant], Held(i))
  /\ level' = [level EXCEPT ![cartItem[i].variant] = Release(@, Held(i))]
  /\ cartItem' = Without(cartItem, {i})
  /\ reservation' = Without(reservation, {i})
  /\ expiring' = expiring \ {i}
  /\ UNCHANGED clearing

-----------------------------------------------------------------------------

(* add_to_cart: insert the line or add to the locked one, then reserve.  A *)
(* failed reservation rolls both back.                                     *)
AddToCart(c, v, q) ==
  /\ Admits(c)
  /\ CanReserve(level[v], q)
  /\ \E i \in ItemIds :
       /\ IF HasLine(c, v) THEN i = LineOf(c, v) ELSE Fresh(i)
       /\ LET n == (IF Exists(i) THEN cartItem[i].quantity ELSE 0) + q
          IN  /\ cartItem' = [cartItem EXCEPT ![i] =
                                [cart |-> c, variant |-> v, quantity |-> n]]
              /\ reservation' = [reservation EXCEPT ![i] = Renewed(n)]
  /\ level' = [level EXCEPT ![v] = Reserve(@, q)]
  /\ UNCHANGED <<clearing, expiring>>

(* update_cart_item: reserve or release the difference to the locked row *)
UpdateCartItem(i, q) ==
  /\ Exists(i)
  /\ Admits(cartItem[i].cart)
  /\ LET v == cartItem[i].variant
         old == cartItem[i].quantity
     IN  \/ /\ q > old
            /\ CanReserve(level[v], q - old)
            /\ level' = [level EXCEPT ![v] = Reserve(@, q - old)]
         \/ /\ q < old
            /\ CanRelease(level[v], old - q)
            /\ level' = [level EXCEPT ![v] = Release(@, old - q)]
         \/ q = old /\ UNCHANGED level
  /\ cartItem' = [cartItem EXCEPT ![i].quantity = q]
  /\ reservation' = [reservation EXCEPT ![i] = Renewed(q)]
  /\ UNCHANGED <<clearing, expiring>>

(* remove_from_cart *)
RemoveFromCart(i) ==
  /\ Exists(i)
  /\ Admits(cartItem[i].cart)
  /\ CanRelease(level[cartItem[i].variant], Held(i))
  /\ level' = [level EXCEPT ![cartItem[i].variant] = Release(@, Held(i))]
  /\ cartItem' = Without(cartItem, {i})
  /\ reservation' = Without(reservation, {i})
  /\ UNCHANGED <<clearing, expiring>>

(* clear_cart, the start of its locking SELECT: items joined with their    *)
(* reservations as committed now                                           *)
ClearRead(c) ==
  /\ Idle(c)
  /\ \E i \in ItemIds : InCart(i, c)
  /\ clearing' = [clearing EXCEPT ![c] =
                    [i \in ItemIds |-> IF InCart(i, c) THEN Held(i) ELSE 0]]
  /\ UNCHANGED <<level, cartItem, reservation, expiring>>

(* The rows read by clear_cart that are still there and still in the cart  *)
(* once their locks are held; the quantity released is the one read.       *)
ClearedRows(c) == {i \in ItemIds : clearing[c][i] > 0 /\ InCart(i, c)}
ReleasedBy(c, v) ==
  IF HasLine(c, v) THEN clearing[c][LineOf(c, v)] ELSE 0

ClearCommit(c) ==
  /\ ~Idle(c)
  /\ \A v \in Variants : CanRelease(level[v], ReleasedBy(c, v))
  /\ level' = [v \in Variants |-> Release(level[v], ReleasedBy(c, v))]
  /\ cartItem' = Without(cartItem, ClearedRows(c))
  /\ reservation' = Without(reservation, ClearedRows(c))
  /\ clearing' = [clearing EXCEPT ![c] = [i \in ItemIds |-> 0]]
  /\ UNCHANGED expiring

(* clear_cart raises (a release that finds too little reserved), is a      *)
(* deadlock victim or loses its worker: nothing is written                 *)
ClearRollback(c) ==
  /\ ~Idle(c)
  /\ clearing' = [clearing EXCEPT ![c] = [i \in ItemIds |-> 0]]
  /\ UNCHANGED <<level, cartItem, reservation, expiring>>

(* merge_guest_cart, at sign-in: a line in both carts is summed into the   *)
(* buyer's and the guest's row deleted, its stock staying reserved; any    *)
(* other line moves to the buyer's cart.                                   *)
JoinsLine(i, g, c) == InCart(i, g) /\ HasLine(c, cartItem[i].variant)
TakesLine(i, g, c) == InCart(i, c) /\ HasLine(g, cartItem[i].variant)
MergedQuantity(i, g) ==
  cartItem[i].quantity + cartItem[LineOf(g, cartItem[i].variant)].quantity
MergedReservation(i, g) == Renewed(MergedQuantity(i, g))

MergeGuestCart(g, c) ==
  /\ Admits(g) /\ Admits(c)
  /\ cartItem' =
       [i \in ItemIds |->
          IF JoinsLine(i, g, c) THEN None
          ELSE IF InCart(i, g) THEN [cartItem[i] EXCEPT !.cart = c]
          ELSE IF TakesLine(i, g, c)
               THEN [cartItem[i] EXCEPT !.quantity = MergedQuantity(i, g)]
          ELSE cartItem[i]]
  /\ reservation' =
       [i \in ItemIds |->
          IF JoinsLine(i, g, c) THEN None
          ELSE IF InCart(i, g) /\ reservation[i] # None
               THEN [reservation[i] EXCEPT !.live = TRUE]
          ELSE IF TakesLine(i, g, c) THEN MergedReservation(i, g)
          ELSE reservation[i]]
  /\ UNCHANGED <<level, clearing, expiring>>

-----------------------------------------------------------------------------

(* thirty minutes pass for item i *)
Elapse(i) ==
  /\ Live(i)
  /\ reservation' = [reservation EXCEPT ![i].live = FALSE]
  /\ UNCHANGED <<level, cartItem, clearing, expiring>>

(* release_expired_cart_reservations, its query: a run of the periodic     *)
(* task, of which several may be under way                                 *)
ExpiryScan ==
  /\ {i \in ItemIds : Expired(i)} \ expiring # {}
  /\ expiring' = expiring \cup {i \in ItemIds : Expired(i)}
  /\ UNCHANGED <<level, cartItem, reservation, clearing>>

(* One id of the loop: the item is locked, its reservation read again and  *)
(* still expired, the stock given back and the row deleted.                *)
ReleaseExpired(i) ==
  /\ i \in expiring /\ Exists(i) /\ Expired(i)
  /\ CanRelease(level[cartItem[i].variant], Held(i))
  /\ level' = [level EXCEPT ![cartItem[i].variant] = Release(@, Held(i))]
  /\ cartItem' = Without(cartItem, {i})
  /\ reservation' = Without(reservation, {i})
  /\ expiring' = expiring \ {i}
  /\ UNCHANGED clearing

(* the item is gone, its reservation was renewed, or the release raised *)
SkipExpired(i) ==
  /\ i \in expiring
  /\ Exists(i) /\ Expired(i) =>
       ~CanRelease(level[cartItem[i].variant], Held(i))
  /\ expiring' = expiring \ {i}
  /\ UNCHANGED <<level, cartItem, reservation, clearing>>

(* the worker that runs the task dies; the ids it read are forgotten *)
WorkerLost ==
  /\ expiring # {}
  /\ expiring' = {}
  /\ UNCHANGED <<level, cartItem, reservation, clearing>>

-----------------------------------------------------------------------------

CartInit ==
  /\ InventoryInit
  /\ cartItem = [i \in ItemIds |-> None]
  /\ reservation = [i \in ItemIds |-> None]
  /\ clearing = [c \in CartIds |-> [i \in ItemIds |-> 0]]
  /\ expiring = {}

BuyerCartStep ==
  \/ \E c \in CartIds, v \in Variants, q \in Quantity : AddToCart(c, v, q)
  \/ \E i \in ItemIds, q \in Quantity : UpdateCartItem(i, q)
  \/ \E i \in ItemIds : RemoveFromCart(i)
  \/ \E c \in CartIds : ClearRead(c) \/ ClearCommit(c) \/ ClearRollback(c)
  \/ \E g \in Guests, c \in CartIds \ Guests : MergeGuestCart(g, c)

ExpiryStep ==
  \/ \E i \in ItemIds : Elapse(i) \/ ReleaseExpired(i) \/ SkipExpired(i)
  \/ ExpiryScan
  \/ WorkerLost

StockStep ==
  SupplierStockStep /\ UNCHANGED <<cartItem, reservation, clearing, expiring>>

CartNext == BuyerCartStep \/ ExpiryStep \/ StockStep

CartSpec == CartInit /\ [][CartNext]_cartVars

(* Celery beat queues the task every five minutes, and not every worker    *)
(* dies before it reaches a given id.                                      *)
ExpiryFairness ==
  /\ WF_cartVars(ExpiryScan)
  /\ \A i \in ItemIds : SF_cartVars(ReleaseExpired(i))

FairCartSpec == CartSpec /\ ExpiryFairness

-----------------------------------------------------------------------------

CartTypeOK ==
  /\ level \in [Variants -> StockLevel]
  /\ cartItem \in [ItemIds -> CartItem \cup {None}]
  /\ reservation \in [ItemIds -> CartReservation \cup {None}]
  /\ clearing \in [CartIds -> [ItemIds -> Nat]]
  /\ expiring \in SUBSET ItemIds

(* Every cart line has a reservation for exactly its quantity, and no      *)
(* reservation is left without its line, whatever adds, updates, merges,   *)
(* clears and expiry runs interleave: what checkout consumes and what      *)
(* expiry gives back is what the buyer sees in the cart.                   *)
ReservationMatchesItem ==
  \A i \in ItemIds :
     /\ Exists(i) <=> reservation[i] # None
     /\ Exists(i) => reservation[i].quantity = cartItem[i].quantity

(* A cart has at most one line per variant, also after guest lines have    *)
(* been moved into it.                                                     *)
OneLinePerVariant ==
  \A i, j \in ItemIds :
     /\ Exists(i) /\ Exists(j)
     /\ cartItem[i].cart = cartItem[j].cart
     /\ cartItem[i].variant = cartItem[j].variant
     => i = j

(* The units that cart lines hold of variant v *)
CartHeld(v) ==
  SumFunctionOnSet([i \in ItemIds |-> Held(i)],
                   {i \in ItemIds : Exists(i) /\ cartItem[i].variant = v})

(* A variant's reserved units are exactly those of the cart lines that     *)
(* hold them: no request, merge or expiry run leaks a unit or gives one    *)
(* back twice.                                                             *)
CartStockBacked == \A v \in Variants : level[v].reserved = CartHeld(v)

(* The expiry task takes no line whose reservation is live at that moment, *)
(* although it decides on ids it read earlier: a buyer who renews in       *)
(* between keeps the line.                                                 *)
RenewedLineKept ==
  [][ expiring' # expiring =>
        \A i \in ItemIds :
           Live(i) =>
             reservation'[i] = reservation[i] /\ cartItem'[i] = cartItem[i]
    ]_cartVars

(* Only suppliers change how many units of a variant are on hand: whatever *)
(* buyers and the expiry task do moves units between available and         *)
(* reserved.                                                               *)
UnitsKept ==
  [][ \/ \A v \in Variants : OnHand(level'[v]) = OnHand(level[v])
      \/ SupplierStockStep ]_cartVars

(* The stock of an abandoned cart comes back: a reservation that has       *)
(* expired is eventually given back or renewed, although task runs die.    *)
AbandonedCartReleased ==
  \A i \in ItemIds : Expired(i) ~> ~Expired(i)

=============================================================================
