-------------------------------- MODULE Orders --------------------------------
(***************************************************************************)
(* Checkout and the life of an order (apps/orders/services.py, views.py)   *)
(* composed with the carts and the stock levels.                           *)
(*                                                                         *)
(* An order has one sub-order per supplier of its lines, and a status of   *)
(* its own that is derived from theirs.  place_order reads every row under *)
(* its lock, so it is one step.  The handlers that move a sub-order are    *)
(* not: the view reads the sub-order without a lock and hands the object   *)
(* to the service, which tests the status it holds in memory, changes      *)
(* stock, writes the new status, reads the statuses of all sub-orders to   *)
(* derive the order's, and commits.  Two such requests interleave between  *)
(* the read, the derivation (which sees only committed rows and its own)   *)
(* and the commit.  A request here is                                      *)
(*     checked -> read -> derived -> committed                             *)
(* where only a cancellation has the first stage (the view's own test).    *)
(***************************************************************************)
EXTENDS Carts

CONSTANTS
  Suppliers,
  SupplierOf,     \* the supplier of each variant
  OrderIds,       \* orders that may be placed
  Workers,        \* bound: request handlers at work on orders at one time
  Overlap         \* which requests on one order may be under way together:
                  \* "none", "suppliers" (on disjoint sub-orders) or "any"

ASSUME OrderAssumption ==
  /\ SupplierOf \in [Variants -> Suppliers]
  /\ Overlap \in {"none", "suppliers", "any"}
  /\ IsFiniteSet(OrderIds) /\ IsFiniteSet(Suppliers)

(* An item row is never taken for a sub-order: they are in two tables. *)
ASSUME KeysAssumption == ItemIds \cap (OrderIds \X Suppliers) = {}

OrderStatus == {"PENDING", "CONFIRMED", "DISPATCHED", "DELIVERED", "CANCELLED"}
NoStatus == "NONE"    \* no such row; in a derivation: leave it as it is
MaybeStatus == OrderStatus \cup {NoStatus}

Ops == {"confirm", "dispatch", "deliver", "cancel"}
Request == [op : Ops, order : OrderIds, stage : {"checked", "read", "derived"},
            seen : [Suppliers -> MaybeStatus], derived : MaybeStatus]

ASSUME NoRequestAssumption == None \notin Request

VARIABLES
  order,      \* order[o]: the status of order o, NoStatus before it is placed
  subOrder,   \* subOrder[o][s]: the status of its sub-order at supplier s
  lines,      \* lines[o][v]: the quantity of its OrderItem for variant v
  request     \* request[w]: the request worker w is handling, or None

orderVars == <<order, subOrder, lines, request>>
vars == <<cartVars, orderVars>>

-----------------------------------------------------------------------------

(* for Derived: "any" where the code says "all" *)
DerivedFromAny(subs) ==
  IF \E s \in Suppliers : subs[s] = "CONFIRMED" THEN "CONFIRMED" ELSE NoStatus

(* _sync_order_status: the status derived from those of the sub-orders *)
AllIn(subs, S) ==
  \A s \in Suppliers : subs[s] \in S \cup {NoStatus, "CANCELLED"}
Derived(subs) ==
  IF AllIn(subs, {}) THEN "CANCELLED"
  ELSE IF AllIn(subs, {"DELIVERED"}) THEN "DELIVERED"
  ELSE IF AllIn(subs, {"DISPATCHED", "DELIVERED"}) THEN "DISPATCHED"
  ELSE IF AllIn(subs, {"CONFIRMED", "DISPATCHED", "DELIVERED"}) THEN "CONFIRMED"
  ELSE NoStatus

(* The statuses in which a service lets a sub-order be moved, and to which *)
MayStart(op) ==
  CASE op = "confirm" -> {"PENDING"}
    [] op = "dispatch" -> {"PENDING", "CONFIRMED"}
    [] op = "deliver" -> {"DISPATCHED"}
Target(op) ==
  CASE op = "confirm" -> "CONFIRMED"
    [] op = "dispatch" -> "DISPATCHED"
    [] op = "deliver" -> "DELIVERED"
    [] op = "cancel" -> "CANCELLED"

(* The sub-orders a request may come to write: a cancellation, any *)
Touched(r) == {s \in Suppliers : r.op = "cancel" \/ r.seen[s] # NoStatus}

MayOverlap(o, S) ==
  \A w \in Workers :
     request[w] # None /\ request[w].order = o =>
       \/ Overlap = "any"
       \/ Overlap = "suppliers" /\ Touched(request[w]) \cap S = {}

-----------------------------------------------------------------------------

(* _consume_cart_reservation: the buyer's own line, if its reservation has *)
(* not expired, pays for the order's units; what it lacks is reserved and  *)
(* what it has too much is given back.                                     *)
Consumes(c, v) == HasLine(c, v) /\ Live(LineOf(c, v))

(* for TakeReserved: what the reservation has too much is forgotten *)
TakeWholeReservation(l, r, q) ==
  IF r < q THEN Reserve(Release(l, r), q) ELSE l

TakeReserved(l, r, q) ==
  IF r < q THEN Reserve(Release(l, r), q) ELSE Release(l, r - q)
CanTakeReserved(l, r, q) ==
  /\ CanRelease(l, IF r < q THEN r ELSE r - q)
  /\ r < q => CanReserve(Release(l, r), q)

CheckoutLevel(c, v, q) ==
  IF q = 0 THEN level[v]
  ELSE IF Consumes(c, v) THEN TakeReserved(level[v], Held(LineOf(c, v)), q)
  ELSE Reserve(level[v], q)
CanCheckout(c, v, q) ==
  IF q = 0 THEN TRUE
  ELSE IF Consumes(c, v) THEN CanTakeReserved(level[v], Held(LineOf(c, v)), q)
  ELSE CanReserve(level[v], q)

(* place_order by the owner of cart c: all lines or none *)
PlaceOrder(c, o, want) ==
  /\ Admits(c)
  /\ order[o] = NoStatus
  /\ \E v \in Variants : want[v] > 0
  /\ \A v \in Variants : CanCheckout(c, v, want[v])
  /\ level' = [v \in Variants |-> CheckoutLevel(c, v, want[v])]
  /\ LET used == {i \in ItemIds : /\ InCart(i, c)
                                  /\ want[cartItem[i].variant] > 0
                                  /\ Consumes(c, cartItem[i].variant)}
     IN  /\ cartItem' = Without(cartItem, used)
         /\ reservation' = Without(reservation, used)
  /\ order' = [order EXCEPT ![o] = "PENDING"]
  /\ lines' = [lines EXCEPT ![o] = want]
  /\ subOrder' = [subOrder EXCEPT ![o] =
       [s \in Suppliers |->
          IF \E v \in Variants : SupplierOf[v] = s /\ want[v] > 0
          THEN "PENDING" ELSE NoStatus]]
  /\ UNCHANGED <<clearing, expiring, request>>

-----------------------------------------------------------------------------

Start(w, r) == request' = [request EXCEPT ![w] = r]
End(w) == request' = [request EXCEPT ![w] = None]

Only(s, st) == [t \in Suppliers |-> IF t = s THEN st ELSE NoStatus]

(* A supplier's view (or the courier's webhook, for a delivery) reads the  *)
(* sub-order; the service refuses a status it may not start from.          *)
ReadSubOrder(w, op, o, s) ==
  /\ request[w] = None
  /\ MayOverlap(o, {s})
  /\ subOrder[o][s] \in MayStart(op)
  /\ Start(w, [op |-> op, order |-> o, stage |-> "read",
               seen |-> Only(s, subOrder[o][s]), derived |-> NoStatus])
  /\ UNCHANGED <<cartVars, order, subOrder, lines>>

(* OrderCancelView reads the order and tests its status. *)
CheckCancel(w, o) ==
  /\ request[w] = None
  /\ MayOverlap(o, Suppliers)
  /\ order[o] \in OrderStatus \ {"DISPATCHED", "DELIVERED"}
  /\ Start(w, [op |-> "cancel", order |-> o, stage |-> "checked",
               seen |-> [s \in Suppliers |-> NoStatus], derived |-> NoStatus])
  /\ UNCHANGED <<cartVars, order, subOrder, lines>>

(* cancel_order reads the sub-orders that are not cancelled.  A delivered  *)
(* one makes cancel_sub_order raise; with none at all, nothing is written  *)
(* (Rollback).                                                             *)
ReadForCancel(w) ==
  /\ request[w] # None /\ request[w].stage = "checked"
  /\ LET subs == subOrder[request[w].order]
     IN  /\ \A s \in Suppliers : subs[s] # "DELIVERED"
         /\ \E s \in Suppliers : subs[s] \notin {NoStatus, "CANCELLED"}
         /\ Start(w, [request[w] EXCEPT
              !.stage = "read",
              !.seen = [s \in Suppliers |->
                IF subs[s] = "CANCELLED" THEN NoStatus ELSE subs[s]]])
  /\ UNCHANGED <<cartVars, order, subOrder, lines>>

(* for WrittenBy: the update is not limited to the request's sub-orders *)
WrittenToAll(r) ==
  [s \in Suppliers |-> IF subOrder[r.order][s] # NoStatus THEN Target(r.op)
                       ELSE NoStatus]

(* The sub-orders of request r's order once r has written its own *)
WrittenBy(r) ==
  [s \in Suppliers |-> IF r.seen[s] # NoStatus THEN Target(r.op)
                       ELSE subOrder[r.order][s]]

(* A sub-order's row stays locked from its update to the commit. *)
Rows(r) == {s \in Suppliers : r.seen[s] # NoStatus}
RowsLocked(w) ==
  \E x \in Workers \ {w} :
     /\ request[x] # None /\ request[x].stage = "derived"
     /\ request[x].order = request[w].order
     /\ Rows(request[x]) \cap Rows(request[w]) # {}

(* The sub-orders are updated, then _sync_order_status reads all of them.  *)
DeriveStatus(w) ==
  /\ request[w] # None /\ request[w].stage = "read"
  /\ ~RowsLocked(w)
  /\ Start(w, [request[w] EXCEPT !.stage = "derived",
                                 !.derived = Derived(WrittenBy(request[w]))])
  /\ UNCHANGED <<cartVars, order, subOrder, lines>>

(* The units of variant v that request r ships, or gives back.  A          *)
(* cancellation gives back those of a sub-order it saw not yet dispatched. *)
Shipped(r, v) ==
  IF r.op = "dispatch" /\ r.seen[SupplierOf[v]] # NoStatus
  THEN lines[r.order][v] ELSE 0

(* for GivenBack: the units of a dispatched sub-order are given back too *)
CancelGivesBackAll(r, v) ==
  IF r.op = "cancel" /\ r.seen[SupplierOf[v]] # NoStatus
  THEN lines[r.order][v] ELSE 0

GivenBack(r, v) ==
  IF r.op = "cancel" /\ r.seen[SupplierOf[v]] \in {"PENDING", "CONFIRMED"}
  THEN lines[r.order][v] ELSE 0

(* The transaction of confirm_, dispatch_, deliver_sub_order, cancel_order *)
Commit(w) ==
  /\ request[w] # None /\ request[w].stage = "derived"
  /\ LET r == request[w]
     IN  /\ \A v \in Variants : /\ CanDispatch(level[v], Shipped(r, v))
                                /\ CanRelease(level[v], GivenBack(r, v))
         /\ level' = [v \in Variants |->
              Release(Dispatch(level[v], Shipped(r, v)), GivenBack(r, v))]
         /\ subOrder' = [subOrder EXCEPT ![r.order] = WrittenBy(r)]
         /\ order' = [order EXCEPT ![r.order] =
              IF r.derived = NoStatus THEN @ ELSE r.derived]
  /\ End(w)
  /\ UNCHANGED <<cartItem, reservation, clearing, expiring, lines>>

(* A failed check, a deadlock or a lost worker: nothing is written. *)
Rollback(w) ==
  /\ request[w] # None
  /\ End(w)
  /\ UNCHANGED <<cartVars, order, subOrder, lines>>

-----------------------------------------------------------------------------

Init ==
  /\ CartInit
  /\ order = [o \in OrderIds |-> NoStatus]
  /\ subOrder = [o \in OrderIds |-> [s \in Suppliers |-> NoStatus]]
  /\ lines = [o \in OrderIds |-> [v \in Variants |-> 0]]
  /\ request = [w \in Workers |-> None]

Checkout ==
  \E c \in CartIds \ Guests, o \in OrderIds,
     want \in [Variants -> 0..MaxQuantity] : PlaceOrder(c, o, want)

RequestStep ==
  \E w \in Workers :
     \/ \E o \in OrderIds, s \in Suppliers, op \in Ops \ {"cancel"} :
           ReadSubOrder(w, op, o, s)
     \/ \E o \in OrderIds : CheckCancel(w, o)
     \/ ReadForCancel(w)
     \/ DeriveStatus(w)
     \/ Commit(w)
     \/ Rollback(w)

Next == (CartNext /\ UNCHANGED orderVars) \/ Checkout \/ RequestStep

Spec == Init /\ [][Next]_vars

-----------------------------------------------------------------------------

TypeOK ==
  /\ CartTypeOK
  /\ order \in [OrderIds -> MaybeStatus]
  /\ subOrder \in [OrderIds -> [Suppliers -> MaybeStatus]]
  /\ lines \in [OrderIds -> [Variants -> Nat]]
  /\ request \in [Workers -> Request \cup {None}]

(* The units order o's sub-orders still hold of variant v: those of a      *)
(* sub-order that is neither dispatched nor cancelled                      *)
OrderHeld(o, v) ==
  IF subOrder[o][SupplierOf[v]] \in {"PENDING", "CONFIRMED"}
  THEN lines[o][v] ELSE 0

(* A variant's reserved units are exactly those that cart lines and open   *)
(* sub-orders hold: add, merge, expiry, checkout, dispatch and cancel move *)
(* a unit from one to the other or out, and never count it twice.          *)
ReservedIsHeld ==
  \A v \in Variants :
     level[v].reserved =
       CartHeld(v) + SumFunction([o \in OrderIds |-> OrderHeld(o, v)])

(* How far along the life cycle a status is.  "No status" counts lowest. *)
Rank(st) == CASE st = "CONFIRMED" -> 1 [] st = "DISPATCHED" -> 2
              [] st = "DELIVERED" -> 3 [] st = "CANCELLED" -> 4 [] OTHER -> 0

(* The order is never reported further along than its sub-orders are,      *)
(* although two suppliers derive it from sub-orders read before the other  *)
(* one's commit.                                                           *)
OrderNotAhead ==
  \A o \in OrderIds : Rank(order[o]) <= Rank(Derived(subOrder[o]))

(* A sub-order only moves forward in its life cycle: no request that read  *)
(* it before another one's commit takes it back, and none of one supplier  *)
(* moves another's.                                                        *)
SubOrdersForward ==
  [][ \A o \in OrderIds, s \in Suppliers :
         Rank(subOrder[o][s]) <= Rank(subOrder'[o][s]) ]_vars

(* At rest, with no request on the order under way, the order's status is  *)
(* the one derived from its sub-orders.                                    *)
OrderStatusDerived ==
  \A o \in OrderIds :
     /\ order[o] # NoStatus
     /\ \A w \in Workers : request[w] # None => request[w].order # o
     /\ Derived(subOrder[o]) # NoStatus
     => order[o] = Derived(subOrder[o])

(* The holders of stock: a cart line, or an order's sub-order *)
SubOrderIds == OrderIds \X Suppliers

Ledger == INSTANCE StockLedger WITH
  Holders <- ItemIds \cup SubOrderIds,
  Orders <- SubOrderIds,
  free <- [v \in Variants |-> level[v].available],
  held <- [h \in ItemIds \cup SubOrderIds |-> [v \in Variants |->
             IF h \in ItemIds
             THEN IF Exists(h) /\ cartItem[h].variant = v THEN Held(h) ELSE 0
             ELSE IF SupplierOf[v] = h[2] THEN OrderHeld(h[1], v) ELSE 0]]

(* Carts, checkout, dispatch and cancellation together keep the promise of *)
(* the stock ledger.                                                       *)
LedgerKept == Ledger!LedgerSpec

=============================================================================
