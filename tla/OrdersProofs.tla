----------------------------- MODULE OrdersProofs -----------------------------
(***************************************************************************)
(* Theorems about checkout and the life of orders, for every set of        *)
(* variants, suppliers, orders and request handlers.                       *)
(*                                                                         *)
(* Types and cart invariants hold whatever requests overlap.  That an      *)
(* order is never reported further along than its sub-orders needs that    *)
(* no two requests on one sub-order overlap (Overlap # "any").  Then what  *)
(* a request has seen of its sub-orders is still so when it commits        *)
(* (SeenIsCurrent), sub-orders only move forward, and a status derived     *)
(* before another supplier's commit can lag behind but not run ahead       *)
(* (DerivedNotAhead).                                                      *)
(*                                                                         *)
(* With this the units reserved are those that cart lines and open         *)
(* sub-orders hold (HeldInv), and every step is a step of StockLedger.     *)
(***************************************************************************)
EXTENDS Orders, CartsProofs

BaseInv == TypeOK /\ CartInv

(* -------------------------------- stock -------------------------------- *)

(* The stock of a checkout: what _consume_cart_reservation and             *)
(* reserve_stock leave of a variant's level.                               *)
LEMMA CheckoutLevelKeeps ==
  ASSUME BaseInv, NEW c, NEW v \in Variants, NEW q \in Nat, CanCheckout(c, v, q)
  PROVE  CheckoutLevel(c, v, q) \in StockLevel
<1>1. level[v] \in StockLevel
  BY DEF BaseInv, CartInv, CartTypeOK
<1>2. CASE q = 0
  BY <1>1, <1>2 DEF CheckoutLevel
<1>3. CASE q # 0 /\ ~Consumes(c, v)
  BY <1>1, <1>3, ReserveKeeps DEF CheckoutLevel, CanCheckout
<1>4. CASE q # 0 /\ Consumes(c, v)
  <2> DEFINE r == Held(LineOf(c, v))
  <2>1. r \in Nat
    BY <1>4, LineOfIsLine, HeldNat DEF Consumes, BaseInv, CartInv
  <2>2. CheckoutLevel(c, v, q) = TakeReserved(level[v], r, q)
        /\ CanTakeReserved(level[v], r, q)
    BY <1>4 DEF CheckoutLevel, CanCheckout
  <2> HIDE DEF r
  <2>3. CASE r < q
    <3>1. Release(level[v], r) \in StockLevel
      BY <1>1, <2>1, <2>2, <2>3, ReleaseKeeps DEF CanTakeReserved
    <3>2. QED
      BY <2>2, <2>3, <3>1, ReserveKeeps DEF TakeReserved, CanTakeReserved
  <2>4. CASE ~(r < q)
    BY <1>1, <2>1, <2>2, <2>4, ReleaseKeeps DEF TakeReserved, CanTakeReserved
  <2>5. QED
    BY <2>3, <2>4
<1>5. QED
  BY <1>2, <1>3, <1>4

(* The stock of a committed request: it ships or gives back, never both.   *)
LEMMA CommitLevelKeeps ==
  ASSUME BaseInv, NEW r \in Request, NEW v \in Variants,
         CanDispatch(level[v], Shipped(r, v)), CanRelease(level[v], GivenBack(r, v))
  PROVE  Release(Dispatch(level[v], Shipped(r, v)), GivenBack(r, v)) \in StockLevel
<1>1. level[v] \in StockLevel /\ lines[r.order][v] \in Nat
  BY DEF BaseInv, CartInv, CartTypeOK, TypeOK, Request
<1>2. /\ Shipped(r, v) \in Nat /\ GivenBack(r, v) \in Nat
      /\ Shipped(r, v) = 0 \/ GivenBack(r, v) = 0
  BY <1>1 DEF Shipped, GivenBack
<1>3. QED
  BY <1>1, <1>2 DEF StockLevel, CanDispatch, CanRelease, Dispatch, Release

(* ------------------------- types and cart rows ------------------------- *)

LEMMA RequestTypes ==
  ASSUME BaseInv, NEW w \in Workers, request[w] # None
  PROVE  request[w] \in Request
BY DEF BaseInv, TypeOK

(* _sync_order_status yields an order status or leaves it alone.           *)
LEMMA DerivedType == ASSUME NEW subs PROVE Derived(subs) \in MaybeStatus
BY DEF Derived, MaybeStatus, OrderStatus, NoStatus

LEMMA TargetType == ASSUME NEW op \in Ops PROVE Target(op) \in OrderStatus
BY DEF Ops, Target, OrderStatus

LEMMA WrittenType ==
  ASSUME BaseInv, NEW r \in Request
  PROVE  WrittenBy(r) \in [Suppliers -> MaybeStatus]
BY TargetType DEF WrittenBy, Request, MaybeStatus, BaseInv, TypeOK

(* A stage of a request that touches no table keeps the invariant.         *)
LEMMA StartKeeps ==
  ASSUME BaseInv, NEW w \in Workers, NEW r \in Request \cup {None},
         Start(w, r), UNCHANGED <<cartVars, order, subOrder, lines>>
  PROVE  BaseInv'
<1>1. CartInv'
  BY TablesAlone DEF BaseInv, CartInv, CartTypeOK, cartVars
<1>2. QED
  BY <1>1 DEF BaseInv, TypeOK, Start, CartInv

LEMMA PlaceOrderKeeps ==
  ASSUME BaseInv, NEW c \in CartIds, NEW o \in OrderIds,
         NEW want \in [Variants -> 0..MaxQuantity], PlaceOrder(c, o, want)
  PROVE  BaseInv'
<1>1. want \in [Variants -> Nat]
  BY InventoryAssumption
<1>2. level' \in [Variants -> StockLevel]
  BY <1>1, CheckoutLevelKeeps DEF PlaceOrder
<1>3. CartInv'
  <2>1. PICK S : /\ cartItem' = Without(cartItem, S)
                 /\ reservation' = Without(reservation, S)
    BY DEF PlaceOrder
  <2>2. QED
    BY <1>2, <2>1, DeleteKeeps DEF PlaceOrder, BaseInv, CartInv, CartTypeOK
<1>4. order' \in [OrderIds -> MaybeStatus]
      /\ subOrder' \in [OrderIds -> [Suppliers -> MaybeStatus]]
      /\ lines' \in [OrderIds -> [Variants -> Nat]]
  BY <1>1 DEF PlaceOrder, BaseInv, TypeOK, MaybeStatus, OrderStatus
<1>5. QED
  BY <1>3, <1>4 DEF PlaceOrder, BaseInv, TypeOK, CartInv

LEMMA CommitKeeps ==
  ASSUME BaseInv, NEW w \in Workers, Commit(w)
  PROVE  BaseInv'
<1> DEFINE r == request[w]
<1>1. r \in Request
  BY RequestTypes DEF Commit
<1>2. level' \in [Variants -> StockLevel]
  BY <1>1, CommitLevelKeeps DEF Commit
<1>3. CartInv'
  BY <1>2, TablesAlone DEF Commit, BaseInv, CartInv, CartTypeOK
<1>4. order' \in [OrderIds -> MaybeStatus]
      /\ subOrder' \in [OrderIds -> [Suppliers -> MaybeStatus]]
  BY <1>1, WrittenType DEF Commit, BaseInv, TypeOK, Request
<1>5. QED
  BY <1>3, <1>4 DEF Commit, End, BaseInv, TypeOK, CartInv

LEMMA RequestStepKeeps ==
  ASSUME BaseInv, RequestStep
  PROVE  BaseInv'
<1>1. ASSUME NEW w \in Workers, NEW o \in OrderIds, NEW s \in Suppliers,
             NEW op \in Ops \ {"cancel"}, ReadSubOrder(w, op, o, s)
      PROVE  BaseInv'
  <2> DEFINE r == [op |-> op, order |-> o, stage |-> "read",
                   seen |-> Only(s, subOrder[o][s]), derived |-> NoStatus]
  <2>1. r \in Request
    BY DEF Request, Only, BaseInv, TypeOK, MaybeStatus
  <2>2. QED
    BY <1>1, <2>1, StartKeeps DEF ReadSubOrder
<1>2. ASSUME NEW w \in Workers, NEW o \in OrderIds, CheckCancel(w, o)
      PROVE  BaseInv'
  <2> DEFINE r == [op |-> "cancel", order |-> o, stage |-> "checked",
                   seen |-> [s \in Suppliers |-> NoStatus], derived |-> NoStatus]
  <2>1. r \in Request
    BY DEF Request, Ops, MaybeStatus
  <2>2. QED
    BY <1>2, <2>1, StartKeeps DEF CheckCancel
<1>3. ASSUME NEW w \in Workers, ReadForCancel(w)
      PROVE  BaseInv'
  <2> DEFINE sn == [s \in Suppliers |->
                      IF subOrder[request[w].order][s] = "CANCELLED" THEN NoStatus
                      ELSE subOrder[request[w].order][s]]
             r == [request[w] EXCEPT !.stage = "read", !.seen = sn]
  <2>1. request[w] \in Request
    BY <1>3, RequestTypes DEF ReadForCancel
  <2>2. sn \in [Suppliers -> MaybeStatus]
    BY <2>1 DEF Request, BaseInv, TypeOK, MaybeStatus
  <2>3. r \in Request
    BY <2>1, <2>2 DEF Request
  <2>4. QED
    BY <1>3, <2>3, StartKeeps DEF ReadForCancel
<1>4. ASSUME NEW w \in Workers, DeriveStatus(w)
      PROVE  BaseInv'
  <2>1. request[w] \in Request
    BY <1>4, RequestTypes DEF DeriveStatus
  <2>2. [request[w] EXCEPT !.stage = "derived",
                           !.derived = Derived(WrittenBy(request[w]))] \in Request
    BY <2>1, DerivedType DEF Request
  <2>3. QED
    BY <1>4, <2>2, StartKeeps DEF DeriveStatus
<1>5. ASSUME NEW w \in Workers, Rollback(w)
      PROVE  BaseInv'
  BY <1>5, StartKeeps DEF Rollback, End, Start
<1>6. QED
  BY <1>1, <1>2, <1>3, <1>4, <1>5, CommitKeeps DEF RequestStep

LEMMA InitBase == Init => BaseInv
<1> SUFFICES ASSUME Init PROVE BaseInv
  OBVIOUS
<1>1. CartInv
  BY CartInitInv DEF Init
<1>2. QED
  BY <1>1 DEF Init, BaseInv, CartInv, TypeOK, MaybeStatus

LEMMA StepBase == BaseInv /\ [Next]_vars => BaseInv'
<1> SUFFICES ASSUME BaseInv, [Next]_vars PROVE BaseInv'
  OBVIOUS
<1>1. CASE CartNext /\ UNCHANGED orderVars
  <2>1. CartInv'
    BY <1>1, CartStepInv DEF BaseInv
  <2>2. QED
    BY <1>1, <2>1 DEF BaseInv, TypeOK, CartInv, orderVars
<1>2. CASE Checkout
  BY <1>2, PlaceOrderKeeps DEF Checkout
<1>3. CASE RequestStep
  BY <1>3, RequestStepKeeps
<1>4. CASE UNCHANGED vars
  <2>1. CartInv'
    BY <1>4, CartStepInv DEF BaseInv, vars
  <2>2. QED
    BY <1>4, <2>1 DEF BaseInv, TypeOK, CartInv, vars, orderVars
<1>5. QED
  BY <1>1, <1>2, <1>3, <1>4 DEF Next

LEMMA BaseInvariant == Spec => []BaseInv
BY InitBase, StepBase, PTL DEF Spec

(* Stock levels, carts, orders and requests are well typed, whatever       *)
(* requests overlap; in particular no stock counter is ever negative.      *)
THEOREM OrderTypes == Spec => []TypeOK
<1>1. BaseInv => TypeOK
  BY DEF BaseInv
<1>2. QED
  BY <1>1, BaseInvariant, PTL

(* Checkout too keeps every cart line matched by its reservation.          *)
THEOREM CheckoutKeepsReservations == Spec => []ReservationMatchesItem
<1>1. BaseInv => ReservationMatchesItem
  BY DEF BaseInv, CartInv
<1>2. QED
  BY <1>1, BaseInvariant, PTL

(* ------------------- an order is not ahead of its parts ---------------- *)

(* The derived status ranks below every sub-order's: it is their minimum,  *)
(* cancelled ones counting highest.                                        *)
LEMMA DerivedRank ==
  ASSUME NEW subs \in [Suppliers -> MaybeStatus], NEW k \in 0..4
  PROVE  k <= Rank(Derived(subs))
           <=> \A s \in Suppliers : subs[s] # NoStatus => k <= Rank(subs[s])
<1>1. \A s \in Suppliers :
         subs[s] \in {"NONE", "PENDING", "CONFIRMED", "DISPATCHED", "DELIVERED",
                     "CANCELLED"}
  BY DEF MaybeStatus, OrderStatus, NoStatus
<1>2. /\ Rank("NONE") = 0 /\ Rank("PENDING") = 0 /\ Rank("CONFIRMED") = 1
      /\ Rank("DISPATCHED") = 2 /\ Rank("DELIVERED") = 3
      /\ Rank("CANCELLED") = 4
  BY DEF Rank
<1>3. CASE AllIn(subs, {})
  BY <1>1, <1>2, <1>3 DEF Derived, AllIn, NoStatus
<1>4. CASE ~AllIn(subs, {}) /\ AllIn(subs, {"DELIVERED"})
  BY <1>1, <1>2, <1>4 DEF Derived, AllIn, NoStatus
<1>5. CASE ~AllIn(subs, {"DELIVERED"}) /\ AllIn(subs, {"DISPATCHED", "DELIVERED"})
  BY <1>1, <1>2, <1>5 DEF Derived, AllIn, NoStatus
<1>6. CASE /\ ~AllIn(subs, {"DISPATCHED", "DELIVERED"})
           /\ AllIn(subs, {"CONFIRMED", "DISPATCHED", "DELIVERED"})
  BY <1>1, <1>2, <1>6 DEF Derived, AllIn, NoStatus
<1>7. CASE ~AllIn(subs, {"CONFIRMED", "DISPATCHED", "DELIVERED"})
  BY <1>1, <1>2, <1>7 DEF Derived, AllIn, NoStatus
<1>8. QED
  BY <1>3, <1>4, <1>5, <1>6, <1>7 DEF AllIn

(* What holds of a request under way when no two of them may be at work on *)
(* one sub-order.                                                          *)
Placed(r) == order[r.order] # NoStatus
OnlyCancelChecks(r) == r.stage = "checked" => r.op = "cancel"
Apart(r, q) == r.order = q.order => Touched(r) \cap Touched(q) = {}
SeenIsCurrent(r) ==
  \A s \in Suppliers : r.seen[s] # NoStatus =>
     /\ subOrder[r.order][s] = r.seen[s]
     /\ Rank(r.seen[s]) <= Rank(Target(r.op))
DerivedNotAhead(r) ==
  r.stage = "derived" =>
    \A s \in Suppliers : WrittenBy(r)[s] # NoStatus =>
       Rank(r.derived) <= Rank(WrittenBy(r)[s])

RequestsInv ==
  /\ \A w \in Workers : request[w] # None =>
       /\ Placed(request[w])
       /\ OnlyCancelChecks(request[w])
       /\ SeenIsCurrent(request[w])
       /\ DerivedNotAhead(request[w])
  /\ \A w, x \in Workers :
       w # x /\ request[w] # None /\ request[x] # None
         => Apart(request[w], request[x])

OrdersInv ==
  \A o \in OrderIds, s \in Suppliers :
     subOrder[o][s] # NoStatus =>
       order[o] # NoStatus /\ Rank(order[o]) <= Rank(subOrder[o][s])

FlowInv == RequestsInv /\ OrdersInv

LEMMA RankType == ASSUME NEW st PROVE Rank(st) \in 0..4
BY DEF Rank

LEMMA RankOfTarget == 
  ASSUME NEW op \in Ops, NEW st \in OrderStatus,
         op = "cancel" \/ st \in MayStart(op)
  PROVE  Rank(st) <= Rank(Target(op))
<1>1. CASE op = "cancel"
  <2>1. Rank(Target(op)) = 4
    BY <1>1 DEF Target, Rank
  <2>2. QED
    BY <2>1, RankType
<1>2. CASE op = "confirm"
  BY <1>2 DEF Target, Rank, MayStart
<1>3. CASE op = "dispatch"
  BY <1>3 DEF Target, Rank, MayStart
<1>4. CASE op = "deliver"
  BY <1>4 DEF Target, Rank, MayStart
<1>5. QED
  BY <1>1, <1>2, <1>3, <1>4 DEF Ops

(* A new stage of one request, the tables being left alone                 *)
LEMMA StartFlow ==
  ASSUME BaseInv, FlowInv, NEW w \in Workers, NEW r \in Request,
         Start(w, r), order' = order, subOrder' = subOrder,
         Placed(r), OnlyCancelChecks(r), SeenIsCurrent(r), DerivedNotAhead(r),
         \A x \in Workers \ {w} : request[x] # None => Apart(request[x], r)
  PROVE  FlowInv'
<1>1. request' = [request EXCEPT ![w] = r] /\ request \in [Workers -> Request \cup {None}]
  BY DEF Start, BaseInv, TypeOK
<1>2. \A q : Placed(q)' = Placed(q) /\ SeenIsCurrent(q)' = SeenIsCurrent(q)
            /\ OnlyCancelChecks(q)' = OnlyCancelChecks(q)
            /\ DerivedNotAhead(q)' = DerivedNotAhead(q)
  BY DEF Placed, OnlyCancelChecks, SeenIsCurrent, DerivedNotAhead, WrittenBy
<1>3. \A q, p : Apart(q, p) => Apart(p, q)
  BY DEF Apart
<1>4. RequestsInv'
  <2>1. ASSUME NEW x \in Workers, request'[x] # None
        PROVE  Placed(request'[x]) /\ OnlyCancelChecks(request'[x])
               /\ SeenIsCurrent(request'[x]) /\ DerivedNotAhead(request'[x])
    <3>1. CASE x = w
      BY <1>1, <3>1
    <3>2. CASE x # w
      BY <1>1, <2>1, <3>2 DEF FlowInv, RequestsInv
    <3>3. QED
      BY <3>1, <3>2
  <2>2. ASSUME NEW x \in Workers, NEW y \in Workers, x # y,
               request'[x] # None, request'[y] # None
        PROVE  Apart(request'[x], request'[y])
    <3>1. CASE x # w /\ y # w
      BY <1>1, <2>2, <3>1 DEF FlowInv, RequestsInv
    <3>2. CASE x = w
      BY <1>1, <1>3, <2>2, <3>2
    <3>3. CASE y = w
      BY <1>1, <2>2, <3>3
    <3>4. QED
      BY <3>1, <3>2, <3>3
  <2>3. QED
    BY <1>2, <2>1, <2>2 DEF RequestsInv, Placed, OnlyCancelChecks,
                            SeenIsCurrent, DerivedNotAhead, Apart, Touched, WrittenBy
<1>5. OrdersInv'
  BY DEF FlowInv, OrdersInv
<1>6. QED
  BY <1>4, <1>5 DEF FlowInv

(* A view may start on a sub-order no other request is at work on.         *)
LEMMA OverlapApart ==
  ASSUME BaseInv, Overlap # "any", NEW w \in Workers, NEW o \in OrderIds,
         NEW S, MayOverlap(o, S), NEW r, r.order = o, Touched(r) \subseteq S
  PROVE  \A x \in Workers \ {w} : request[x] # None => Apart(request[x], r)
BY DEF MayOverlap, Apart

LEMMA ReadSubOrderFlow ==
  ASSUME BaseInv, FlowInv, Overlap # "any", NEW w \in Workers,
         NEW o \in OrderIds, NEW s \in Suppliers, NEW op \in Ops \ {"cancel"},
         ReadSubOrder(w, op, o, s)
  PROVE  FlowInv'
<1> DEFINE r == [op |-> op, order |-> o, stage |-> "read",
                 seen |-> Only(s, subOrder[o][s]), derived |-> NoStatus]
<1>1. r \in Request
  BY DEF Request, Only, BaseInv, TypeOK, MaybeStatus
<1>2. subOrder[o][s] \in OrderStatus /\ subOrder[o][s] \in MayStart(op)
  BY DEF ReadSubOrder, MayStart, OrderStatus, Ops
<1>3. Placed(r) /\ OnlyCancelChecks(r)
  BY <1>2 DEF Placed, OnlyCancelChecks, FlowInv, OrdersInv, OrderStatus, NoStatus
<1>4. SeenIsCurrent(r)
  BY <1>2, RankOfTarget DEF SeenIsCurrent, Only
<1>5. DerivedNotAhead(r)
  BY DEF DerivedNotAhead
<1>6. Touched(r) \subseteq {s}
  BY DEF Touched, Only
<1>7. \A x \in Workers \ {w} : request[x] # None => Apart(request[x], r)
  BY <1>6, OverlapApart DEF ReadSubOrder
<1>8. QED
  BY <1>1, <1>3, <1>4, <1>5, <1>7, StartFlow DEF ReadSubOrder

LEMMA CheckCancelFlow ==
  ASSUME BaseInv, FlowInv, Overlap # "any", NEW w \in Workers,
         NEW o \in OrderIds, CheckCancel(w, o)
  PROVE  FlowInv'
<1> DEFINE r == [op |-> "cancel", order |-> o, stage |-> "checked",
                 seen |-> [s \in Suppliers |-> NoStatus], derived |-> NoStatus]
<1>1. r \in Request
  BY DEF Request, Ops, MaybeStatus
<1>2. /\ Placed(r) /\ OnlyCancelChecks(r)
      /\ SeenIsCurrent(r) /\ DerivedNotAhead(r)
  BY DEF Placed, OnlyCancelChecks, SeenIsCurrent, DerivedNotAhead, CheckCancel, OrderStatus, NoStatus
<1>3. Touched(r) \subseteq Suppliers
  BY DEF Touched
<1>4. \A x \in Workers \ {w} : request[x] # None => Apart(request[x], r)
  BY <1>3, OverlapApart DEF CheckCancel
<1>5. QED
  BY <1>1, <1>2, <1>4, StartFlow DEF CheckCancel

(* Later stages belong to the same request: it touches no more than before.*)
LEMMA StageFlow ==
  ASSUME BaseInv, FlowInv, NEW w \in Workers, request[w] # None,
         NEW r \in Request, r.order = request[w].order, r.stage # "checked",
         Touched(r) \subseteq Touched(request[w]),
         Start(w, r), order' = order, subOrder' = subOrder,
         SeenIsCurrent(r), DerivedNotAhead(r)
  PROVE  FlowInv'
<1>1. Placed(r) /\ OnlyCancelChecks(r)
  BY DEF FlowInv, RequestsInv, Placed, OnlyCancelChecks
<1>2. \A x \in Workers \ {w} : request[x] # None => Apart(request[x], r)
  BY DEF FlowInv, RequestsInv, Apart
<1>3. QED
  BY <1>1, <1>2, StartFlow

LEMMA ReadForCancelFlow ==
  ASSUME BaseInv, FlowInv, NEW w \in Workers, ReadForCancel(w)
  PROVE  FlowInv'
<1> DEFINE sn == [s \in Suppliers |->
                    IF subOrder[request[w].order][s] = "CANCELLED" THEN NoStatus
                    ELSE subOrder[request[w].order][s]]
           r == [request[w] EXCEPT !.stage = "read", !.seen = sn]
<1>1. request[w] \in Request /\ request[w] # None /\ request[w].stage = "checked"
  BY RequestTypes DEF ReadForCancel
<1>2. sn \in [Suppliers -> MaybeStatus]
  BY <1>1 DEF Request, BaseInv, TypeOK, MaybeStatus
<1>3. r \in Request /\ r.order = request[w].order /\ r.op = request[w].op
      /\ r.seen = sn /\ r.stage = "read"
  BY <1>1, <1>2 DEF Request
<1>4. r.op = "cancel"
  BY <1>1, <1>3 DEF FlowInv, RequestsInv, OnlyCancelChecks
<1>5. Start(w, r) /\ order' = order /\ subOrder' = subOrder
  BY DEF ReadForCancel
<1> HIDE DEF r
<1>6. SeenIsCurrent(r)
  <2> SUFFICES ASSUME NEW s \in Suppliers, r.seen[s] # NoStatus
               PROVE  /\ subOrder[r.order][s] = r.seen[s]
                      /\ Rank(r.seen[s]) <= Rank(Target(r.op))
    BY DEF SeenIsCurrent
  <2>1. subOrder[r.order][s] = r.seen[s]
    BY <1>3
  <2>2. r.seen[s] \in OrderStatus
    BY <1>2, <1>3 DEF MaybeStatus
  <2>3. QED
    BY <1>4, <2>1, <2>2, RankOfTarget DEF Ops
<1>7. DerivedNotAhead(r)
  BY <1>3 DEF DerivedNotAhead
<1>8. Touched(r) \subseteq Touched(request[w])
  BY <1>3, <1>4 DEF Touched
<1>9. QED
  BY <1>1, <1>3, <1>5, <1>6, <1>7, <1>8, StageFlow

LEMMA DeriveStatusFlow ==
  ASSUME BaseInv, FlowInv, NEW w \in Workers, DeriveStatus(w)
  PROVE  FlowInv'
<1> DEFINE subs == WrittenBy(request[w])
           r == [request[w] EXCEPT !.stage = "derived", !.derived = Derived(subs)]
<1>1. request[w] \in Request /\ request[w] # None
  BY RequestTypes DEF DeriveStatus
<1>2. subs \in [Suppliers -> MaybeStatus]
  BY <1>1, WrittenType
<1>3. /\ r \in Request /\ r.order = request[w].order /\ r.op = request[w].op
      /\ r.seen = request[w].seen /\ r.stage = "derived" /\ r.derived = Derived(subs)
  BY <1>1, DerivedType DEF Request
<1>4. Start(w, r) /\ order' = order /\ subOrder' = subOrder
  BY DEF DeriveStatus
<1>5. WrittenBy(r) = subs
  BY <1>3 DEF WrittenBy
<1> HIDE DEF r
<1>6. SeenIsCurrent(r)
  BY <1>1, <1>3 DEF FlowInv, RequestsInv, SeenIsCurrent
<1>7. DerivedNotAhead(r)
  <2>1. \A s \in Suppliers : subs[s] # NoStatus => Rank(Derived(subs)) <= Rank(subs[s])
    <3> DEFINE k == Rank(Derived(subs))
    <3> HIDE DEF subs
    <3>1. k \in 0..4 /\ k <= Rank(Derived(subs))
      BY RankType
    <3>2. QED
      BY <1>2, <3>1, DerivedRank
  <2>2. QED
    BY <1>3, <1>5, <2>1 DEF DerivedNotAhead
<1>8. Touched(r) \subseteq Touched(request[w])
  BY <1>3 DEF Touched
<1>9. QED
  BY <1>1, <1>3, <1>4, <1>6, <1>7, <1>8, StageFlow

LEMMA RollbackFlow ==
  ASSUME BaseInv, FlowInv, NEW w \in Workers, Rollback(w)
  PROVE  FlowInv'
<1>1. /\ order' = order /\ subOrder' = subOrder /\ request'[w] = None
      /\ \A x \in Workers \ {w} : request'[x] = request[x]
  BY DEF Rollback, End, BaseInv, TypeOK
<1>2. RequestsInv'
  BY <1>1 DEF FlowInv, RequestsInv, Placed, OnlyCancelChecks, SeenIsCurrent,
              DerivedNotAhead, Apart, Touched, WrittenBy
<1>3. QED
  BY <1>1, <1>2 DEF FlowInv, OrdersInv

(* The sub-orders a commit writes move forward, the others stay.           *)
LEMMA CommitForward ==
  ASSUME BaseInv, FlowInv, NEW w \in Workers, Commit(w), NEW s \in Suppliers
  PROVE  /\ subOrder'[request[w].order][s] # NoStatus
              <=> subOrder[request[w].order][s] # NoStatus
         /\ Rank(subOrder[request[w].order][s])
              <= Rank(subOrder'[request[w].order][s])
         /\ request[w].seen[s] = NoStatus =>
              subOrder'[request[w].order][s] = subOrder[request[w].order][s]
<1> DEFINE r == request[w]
<1>1. r \in Request /\ r # None
  BY RequestTypes DEF Commit
<1>2. subOrder' = [subOrder EXCEPT ![r.order] = WrittenBy(r)]
  BY DEF Commit
<1>3. r.order \in OrderIds /\ r.op \in Ops
      /\ subOrder \in [OrderIds -> [Suppliers -> MaybeStatus]]
  BY <1>1 DEF Request, BaseInv, TypeOK
<1>4. subOrder'[r.order][s] = IF r.seen[s] # NoStatus THEN Target(r.op)
                              ELSE subOrder[r.order][s]
  BY <1>2, <1>3 DEF WrittenBy
<1>5. SeenIsCurrent(r)
  BY <1>1 DEF FlowInv, RequestsInv
<1> HIDE DEF r
<1>6. Target(r.op) # NoStatus
  BY <1>3, TargetType DEF OrderStatus, NoStatus
<1>7. Rank(subOrder[r.order][s]) <= Rank(subOrder[r.order][s])
  BY RankType
<1>8. CASE r.seen[s] # NoStatus
  BY <1>4, <1>5, <1>6, <1>8 DEF SeenIsCurrent, r
<1>9. CASE r.seen[s] = NoStatus
  BY <1>4, <1>7, <1>9 DEF r
<1>10. QED
  BY <1>8, <1>9

LEMMA CommitFlow ==
  ASSUME BaseInv, FlowInv, NEW w \in Workers, Commit(w)
  PROVE  FlowInv'
<1> DEFINE r == request[w]
<1>1. /\ r \in Request /\ r # None /\ r.stage = "derived" /\ r.order \in OrderIds
      /\ order \in [OrderIds -> MaybeStatus]
      /\ subOrder \in [OrderIds -> [Suppliers -> MaybeStatus]]
  BY RequestTypes DEF Commit, Request, BaseInv, TypeOK
<1>2. /\ request'[w] = None
      /\ \A x \in Workers \ {w} : request'[x] = request[x]
  BY DEF Commit, End, BaseInv, TypeOK
<1>3. /\ subOrder' = [subOrder EXCEPT ![r.order] = WrittenBy(r)]
      /\ order' = [order EXCEPT ![r.order] =
                     IF r.derived = NoStatus THEN @ ELSE r.derived]
  BY DEF Commit
<1>4. \A o \in OrderIds \ {r.order} : subOrder'[o] = subOrder[o] /\ order'[o] = order[o]
  BY <1>1, <1>3
<1>5. Placed(r) /\ SeenIsCurrent(r) /\ DerivedNotAhead(r)
  BY <1>1 DEF FlowInv, RequestsInv
<1>6. order'[r.order] # NoStatus
  BY <1>1, <1>3, <1>5 DEF Placed
<1>7. ASSUME NEW x \in Workers \ {w}, request[x] # None
      PROVE  /\ Placed(request[x])'
             /\ OnlyCancelChecks(request[x])'
             /\ SeenIsCurrent(request[x])'
             /\ DerivedNotAhead(request[x])'
  <2> DEFINE q == request[x]
  <2>1. /\ Placed(q) /\ OnlyCancelChecks(q) /\ SeenIsCurrent(q)
        /\ DerivedNotAhead(q) /\ Apart(q, r)
    BY <1>1, <1>7 DEF FlowInv, RequestsInv
  <2>2. q \in Request /\ q.order \in OrderIds
    BY <1>7, RequestTypes DEF Request
  <2>3. request'[x] = q
    BY <1>2
  <2>4. Placed(q)'
    BY <1>4, <1>6, <2>1, <2>2, <2>3 DEF Placed
  <2>5. OnlyCancelChecks(q)'
    BY <2>1, <2>3 DEF OnlyCancelChecks
  <2>6. ASSUME NEW s \in Suppliers, q.seen[s] # NoStatus
        PROVE  subOrder'[q.order][s] = subOrder[q.order][s]
    <3>1. CASE q.order # r.order
      BY <1>4, <2>2, <3>1
    <3>2. CASE q.order = r.order
      <4>1. s \notin Touched(r)
        BY <2>1, <2>6, <3>2 DEF Apart, Touched
      <4>2. r.seen[s] = NoStatus
        BY <4>1 DEF Touched
      <4>3. QED
        BY <3>2, <4>2, CommitForward
    <3>3. QED
      BY <3>1, <3>2
  <2>7. SeenIsCurrent(q)'
    BY <2>1, <2>3, <2>6 DEF SeenIsCurrent
  <2>8. DerivedNotAhead(q)'
    <3> SUFFICES ASSUME q.stage = "derived", NEW s \in Suppliers,
                        WrittenBy(q)'[s] # NoStatus
                 PROVE  Rank(q.derived) <= Rank(WrittenBy(q)'[s])
      BY <2>3 DEF DerivedNotAhead
    <3>1. /\ WrittenBy(q)[s] = IF q.seen[s] # NoStatus THEN Target(q.op)
                               ELSE subOrder[q.order][s]
          /\ WrittenBy(q)'[s] = IF q.seen[s] # NoStatus THEN Target(q.op)
                                ELSE subOrder'[q.order][s]
      BY <2>3 DEF WrittenBy
    <3>2. CASE q.seen[s] # NoStatus \/ q.order # r.order
      BY <1>4, <2>1, <2>2, <3>1, <3>2 DEF DerivedNotAhead
    <3>3. CASE q.seen[s] = NoStatus /\ q.order = r.order
      <4>1. /\ subOrder[r.order][s] # NoStatus
            /\ Rank(subOrder[r.order][s]) <= Rank(subOrder'[r.order][s])
        BY <3>1, <3>3, CommitForward
      <4>2. Rank(q.derived) <= Rank(subOrder[r.order][s])
        BY <2>1, <3>1, <3>3, <4>1 DEF DerivedNotAhead
      <4>3. /\ Rank(q.derived) \in 0..4 /\ Rank(subOrder[r.order][s]) \in 0..4
            /\ Rank(subOrder'[r.order][s]) \in 0..4
        BY RankType
      <4>4. QED
        BY <3>1, <3>3, <4>1, <4>2, <4>3
    <3>4. QED
      BY <3>2, <3>3
  <2>9. QED
    BY <2>4, <2>5, <2>7, <2>8
<1>8. RequestsInv'
  <2>1. \A x, y \in Workers :
          x # y /\ request'[x] # None /\ request'[y] # None
            => Apart(request[x], request[y])' 
    BY <1>2 DEF FlowInv, RequestsInv, Apart, Touched
  <2>2. QED
    BY <1>2, <1>7, <2>1 DEF RequestsInv
<1>9. OrdersInv'
  <2> SUFFICES ASSUME NEW s \in Suppliers, subOrder'[r.order][s] # NoStatus
               PROVE  Rank(order'[r.order]) <= Rank(subOrder'[r.order][s])
    BY <1>4, <1>6 DEF FlowInv, OrdersInv
  <2>1. subOrder'[r.order][s] = WrittenBy(r)[s]
    BY <1>1, <1>3
  <2>2. CASE r.derived # NoStatus
    BY <1>1, <1>3, <1>5, <2>1, <2>2 DEF DerivedNotAhead
  <2>3. CASE r.derived = NoStatus
    <3>1. order'[r.order] = order[r.order]
      BY <1>1, <1>3, <2>3
    <3>2. /\ Rank(order[r.order]) <= Rank(subOrder[r.order][s])
          /\ Rank(subOrder[r.order][s]) <= Rank(subOrder'[r.order][s])
      BY <1>1, CommitForward DEF FlowInv, OrdersInv
    <3>3. /\ Rank(order[r.order]) \in 0..4 /\ Rank(subOrder[r.order][s]) \in 0..4
          /\ Rank(subOrder'[r.order][s]) \in 0..4
      BY RankType
    <3>4. QED
      BY <3>1, <3>2, <3>3
  <2>4. QED
    BY <2>2, <2>3
<1>10. QED
  BY <1>8, <1>9 DEF FlowInv

(* A new order is pending throughout, and no request was at work on it.    *)
LEMMA PlaceOrderFlow ==
  ASSUME BaseInv, FlowInv, NEW c, NEW o \in OrderIds,
         NEW want \in [Variants -> 0..MaxQuantity], PlaceOrder(c, o, want)
  PROVE  FlowInv'
<1>1. /\ request' = request /\ order[o] = NoStatus /\ order'[o] = "PENDING"
      /\ \A p \in OrderIds \ {o} : subOrder'[p] = subOrder[p] /\ order'[p] = order[p]
      /\ \A s \in Suppliers : subOrder'[o][s] \in {"PENDING", NoStatus}
  BY DEF PlaceOrder, BaseInv, TypeOK
<1>2. \A w \in Workers : request[w] # None =>
         request[w].order \in OrderIds \ {o}
  BY <1>1, RequestTypes DEF FlowInv, RequestsInv, Placed, Request
<1>3. RequestsInv'
  BY <1>1, <1>2 DEF FlowInv, RequestsInv, Placed, OnlyCancelChecks,
                    SeenIsCurrent, DerivedNotAhead, Apart, Touched, WrittenBy
<1>4. OrdersInv'
  <2>1. "PENDING" # NoStatus /\ Rank("PENDING") = 0
    BY DEF NoStatus, Rank
  <2>2. QED
    BY <1>1, <2>1 DEF FlowInv, OrdersInv
<1>5. QED
  BY <1>3, <1>4 DEF FlowInv

LEMMA InitFlow == Init => FlowInv
BY DEF Init, FlowInv, RequestsInv, OrdersInv

LEMMA StepFlow ==
  Overlap # "any" => (BaseInv /\ FlowInv /\ [Next]_vars => FlowInv')
<1> SUFFICES ASSUME Overlap # "any", BaseInv, FlowInv, [Next]_vars PROVE FlowInv'
  OBVIOUS
<1>1. CASE UNCHANGED orderVars
  BY <1>1 DEF orderVars, FlowInv, RequestsInv, OrdersInv, Placed,
     OnlyCancelChecks, SeenIsCurrent, DerivedNotAhead, Apart, Touched, WrittenBy
<1>2. CASE Checkout
  BY <1>2, PlaceOrderFlow DEF Checkout
<1>3. CASE RequestStep
  BY <1>3, ReadSubOrderFlow, CheckCancelFlow, ReadForCancelFlow,
     DeriveStatusFlow, CommitFlow, RollbackFlow DEF RequestStep
<1>4. QED
  BY <1>1, <1>2, <1>3 DEF Next, vars

(* The flow invariant bounds the order by the minimum of its sub-orders.   *)
LEMMA FlowNotAhead == BaseInv /\ FlowInv => OrderNotAhead
<1> SUFFICES ASSUME BaseInv, FlowInv, NEW o \in OrderIds
             PROVE  Rank(order[o]) <= Rank(Derived(subOrder[o]))
  BY DEF OrderNotAhead
<1>1. subOrder[o] \in [Suppliers -> MaybeStatus] /\ Rank(order[o]) \in 0..4
  BY RankType DEF BaseInv, TypeOK
<1>2. \A s \in Suppliers : subOrder[o][s] # NoStatus =>
         Rank(order[o]) <= Rank(subOrder[o][s])
  BY DEF FlowInv, OrdersInv
<1>3. QED
  BY <1>1, <1>2, DerivedRank

(* While requests that may overlap touch different sub-orders, an order is *)
(* never reported further along than its slowest sub-order.                *)
THEOREM NotAhead == Overlap # "any" => (Spec => []OrderNotAhead)
<1> SUFFICES ASSUME Overlap # "any" PROVE Spec => []OrderNotAhead
  OBVIOUS
<1>1. BaseInv /\ FlowInv /\ [Next]_vars => FlowInv'
  BY StepFlow
<1>2. QED
  BY InitFlow, <1>1, FlowNotAhead, BaseInvariant, PTL DEF Spec

(* Requests that may overlap leave each other's sub-orders alone, so a     *)
(* sub-order never goes back to an earlier status.                         *)
THEOREM Forward == Overlap # "any" => (Spec => SubOrdersForward)
<1> DEFINE Stays(o, s) == Rank(subOrder[o][s]) <= Rank(subOrder'[o][s])
           Moves == \A o \in OrderIds, s \in Suppliers : Stays(o, s)
<1> SUFFICES ASSUME Overlap # "any" PROVE Spec => SubOrdersForward
  OBVIOUS
<1>1. BaseInv /\ FlowInv /\ [Next]_vars => FlowInv'
  BY StepFlow
<1>2. BaseInv /\ FlowInv /\ [Next]_vars => [Moves]_vars
  <2> SUFFICES ASSUME BaseInv, FlowInv, Next, NEW o \in OrderIds, NEW s \in Suppliers
               PROVE  Stays(o, s)
    OBVIOUS
  <2>1. CASE subOrder' = subOrder
    <3>1. Rank(subOrder[o][s]) \in 0..4
      BY RankType
    <3>2. QED
      BY <2>1, <3>1
  <2>2. CASE Checkout
    <3>1. PICK c \in CartIds, p \in OrderIds,
              want \in [Variants -> 0..MaxQuantity] : PlaceOrder(c, p, want)
      BY <2>2 DEF Checkout
    <3>2. CASE p = o
      <4>1. order[o] = NoStatus
        BY <3>1, <3>2 DEF PlaceOrder
      <4>2. subOrder[o][s] = NoStatus
        BY <4>1 DEF FlowInv, OrdersInv
      <4>3. Rank(subOrder[o][s]) = 0 /\ Rank(subOrder'[o][s]) \in 0..4
        BY <4>2, RankType DEF Rank, NoStatus
      <4>4. QED
        BY <4>3
    <3>3. CASE p # o
      <4>1. subOrder'[o] = subOrder[o]
        BY <3>1, <3>3 DEF PlaceOrder, BaseInv, TypeOK
      <4>2. Rank(subOrder[o][s]) \in 0..4
        BY RankType
      <4>3. QED
        BY <4>1, <4>2
    <3>4. QED
      BY <3>2, <3>3
  <2>3. ASSUME NEW w \in Workers, Commit(w)
        PROVE  Stays(o, s)
    <3>1. CASE request[w].order = o
      BY <2>3, <3>1, CommitForward
    <3>2. CASE request[w].order # o
      <4>1. subOrder'[o] = subOrder[o]
        BY <2>3, <3>2 DEF Commit, BaseInv, TypeOK
      <4>2. Rank(subOrder[o][s]) \in 0..4
        BY RankType
      <4>3. QED
        BY <4>1, <4>2
    <3>3. QED
      BY <3>1, <3>2
  <2>4. CASE RequestStep
    BY <2>1, <2>3, <2>4 DEF RequestStep, ReadSubOrder, CheckCancel,
       ReadForCancel, DeriveStatus, Rollback
  <2>5. CASE CartNext /\ UNCHANGED orderVars
    BY <2>1, <2>5 DEF orderVars
  <2>6. QED
    BY <2>2, <2>4, <2>5 DEF Next
<1>3. QED
  BY InitFlow, <1>1, <1>2, BaseInvariant, PTL DEF Spec, SubOrdersForward

(* ------------------ the units of carts and open orders ----------------- *)

(* ReservedIsHeld is two sums, one over the cart rows and one over the     *)
(* orders; a step must move as many units in "reserved" as it moves in the *)
(* two together.  What a request ships or gives back is what its           *)
(* sub-orders held because of what it has seen: that is still so at the    *)
(* commit (SeenIsCurrent), and it was a status the request may start from. *)
Ordered(v) == SumFunction([o \in OrderIds |-> OrderHeld(o, v)])

HeldMoves ==
  \A v \in Variants :
     level'[v].reserved - level[v].reserved
       = (Units(v)' - Units(v)) + (Ordered(v)' - Ordered(v))

UnitsHeld == \A v \in Variants : level[v].reserved = Units(v) + Ordered(v)

StartsWhereItMay(r) ==
  r.op # "cancel" =>
    \A s \in Suppliers : r.seen[s] # NoStatus => r.seen[s] \in MayStart(r.op)

StartsInv == \A w \in Workers : request[w] # None => StartsWhereItMay(request[w])

HeldInv == BaseInv /\ FlowInv /\ StartsInv /\ ClearingAgrees /\ UnitsHeld

LEMMA OrderHeldType ==
  ASSUME BaseInv, NEW o \in OrderIds, NEW v \in Variants
  PROVE  OrderHeld(o, v) \in Nat
BY DEF BaseInv, TypeOK, OrderHeld

(* The orders' sum as one over OrderIds, of natural numbers                *)
LEMMA OrderedType ==
  ASSUME BaseInv, NEW v \in Variants
  PROVE  /\ Ordered(v) \in Nat
         /\ Ordered(v) = SumFunctionOnSet([o \in OrderIds |-> OrderHeld(o, v)], OrderIds)
<1> DEFINE f == [o \in OrderIds |-> OrderHeld(o, v)]
<1>1. Ordered(v) = SumFunctionOnSet(f, OrderIds)
  BY DEF Ordered, SumFunction
<1>2. \A o \in OrderIds : f[o] \in Nat
  BY OrderHeldType
<1> HIDE DEF f
<1>3. SumFunctionOnSet(f, OrderIds) \in Nat
  BY <1>2, SumGrows, OrderAssumption
<1>4. QED
  BY <1>1, <1>3 DEF f

(* The sum changes by the difference of the one order that changed.        *)
LEMMA OrderDifference ==
  ASSUME BaseInv, BaseInv', NEW v \in Variants, NEW o \in OrderIds,
         \A p \in OrderIds \ {o} : OrderHeld(p, v)' = OrderHeld(p, v)
  PROVE  /\ Ordered(v)' - Ordered(v) = OrderHeld(o, v)' - OrderHeld(o, v)
         /\ Ordered(v) \in Int /\ Ordered(v)' \in Int
         /\ OrderHeld(o, v) \in Int /\ OrderHeld(o, v)' \in Int
<1> DEFINE f == [p \in OrderIds |-> OrderHeld(p, v)]
           g == [p \in OrderIds |-> OrderHeld(p, v)']
<1>1. Ordered(v) = SumFunctionOnSet(f, OrderIds) /\ Ordered(v)' = SumFunctionOnSet(g, OrderIds)
  BY DEF Ordered, SumFunction
<1>2. \A p \in OrderIds : f[p] \in Int /\ g[p] \in Int
  BY DEF BaseInv, TypeOK, OrderHeld
<1>3. \A p \in OrderIds \ {o} : g[p] = f[p]
  OBVIOUS
<1>4. f[o] = OrderHeld(o, v) /\ g[o] = OrderHeld(o, v)'
  OBVIOUS
<1> HIDE DEF f, g
<1>5. Ints(f, OrderIds) /\ Ints(g, OrderIds)
  BY <1>2 DEF Ints
<1>6. SumFunctionOnSet(g, OrderIds) = SumFunctionOnSet(f, OrderIds) - f[o] + g[o]
  BY <1>3, <1>5, SumChange, OrderAssumption
<1>7. SumFunctionOnSet(f, OrderIds) \in Int /\ SumFunctionOnSet(g, OrderIds) \in Int
  BY <1>5, SumParts, OrderAssumption
<1>8. QED
  BY <1>1, <1>2, <1>4, <1>6, <1>7

LEMMA OrderedBoth ==
  ASSUME BaseInv, BaseInv', NEW v \in Variants
  PROVE  Ordered(v) \in Int /\ Ordered(v)' \in Int
<1> DEFINE g == [p \in OrderIds |-> OrderHeld(p, v)']
<1>1. Ordered(v)' = SumFunctionOnSet(g, OrderIds)
  BY DEF Ordered, SumFunction
<1>2. \A p \in OrderIds : g[p] \in Int
  BY DEF BaseInv, TypeOK, OrderHeld
<1> HIDE DEF g
<1>3. SumFunctionOnSet(g, OrderIds) \in Int
  BY <1>2, SumParts, OrderAssumption DEF Ints
<1>4. Ordered(v) \in Nat
  BY OrderedType
<1>5. QED
  BY <1>1, <1>3, <1>4

(* With the orders left alone, the carts move the units.                   *)
LEMMA CartsAlone ==
  ASSUME BaseInv, BaseInv', WeightsMove, subOrder' = subOrder, lines' = lines
  PROVE  HeldMoves
<1> SUFFICES ASSUME NEW v \in Variants
             PROVE  level'[v].reserved - level[v].reserved
                      = (Units(v)' - Units(v)) + (Ordered(v)' - Ordered(v))
  BY DEF HeldMoves
<1>1. Ordered(v)' = Ordered(v)
  BY DEF Ordered, OrderHeld
<1>2. level[v].reserved \in Nat /\ level'[v].reserved \in Nat /\ Ordered(v) \in Nat
  BY OrderedType, WeightTypes DEF BaseInv
<1>3. level'[v].reserved - level[v].reserved = Units(v)' - Units(v)
  BY DEF WeightsMove
<1>4. Units(v) \in Int /\ Units(v)' \in Int
  BY UnitsBoth DEF BaseInv
<1>5. QED
  BY <1>1, <1>2, <1>3, <1>4

(* place_order: what the buyer's reservation held becomes the order's, and *)
(* the rest is reserved or released.                                       *)
LEMMA PlaceOrderMoves ==
  ASSUME BaseInv, BaseInv', FlowInv, NEW c \in CartIds, NEW o \in OrderIds,
         NEW want \in [Variants -> 0..MaxQuantity], PlaceOrder(c, o, want)
  PROVE  HeldMoves
<1> SUFFICES ASSUME NEW v \in Variants
             PROVE  level'[v].reserved - level[v].reserved
                      = (Units(v)' - Units(v)) + (Ordered(v)' - Ordered(v))
  BY DEF HeldMoves
<1> DEFINE q == want[v]
           used == {i \in ItemIds : /\ InCart(i, c)
                                    /\ want[cartItem[i].variant] > 0
                                    /\ Consumes(c, cartItem[i].variant)}
<1>1. q \in Nat /\ level[v] \in StockLevel /\ CartInv /\ CartInv'
  BY InventoryAssumption DEF BaseInv, CartInv, CartTypeOK
<1>2. /\ level'[v] = CheckoutLevel(c, v, q)
      /\ cartItem' = Without(cartItem, used)
      /\ reservation' = Without(reservation, used)
  BY DEF PlaceOrder
<1>3. Ordered(v)' - Ordered(v) = q /\ Ordered(v) \in Int /\ Ordered(v)' \in Int
  <2>1. /\ \A p \in OrderIds \ {o} : subOrder'[p] = subOrder[p] /\ lines'[p] = lines[p]
        /\ lines'[o] = want
        /\ SupplierOf[v] \in Suppliers
        /\ q > 0 => subOrder'[o][SupplierOf[v]] = "PENDING"
    BY OrderAssumption DEF PlaceOrder, BaseInv, TypeOK
  <2>2. OrderHeld(o, v) = 0
    BY <2>1 DEF PlaceOrder, FlowInv, OrdersInv, OrderHeld, NoStatus
  <2>3. OrderHeld(o, v)' = q
    BY <1>1, <2>1 DEF OrderHeld
  <2>4. \A p \in OrderIds \ {o} : OrderHeld(p, v)' = OrderHeld(p, v)
    BY <2>1 DEF OrderHeld
  <2>5. QED
    BY <2>2, <2>3, <2>4, <1>1, OrderDifference
<1>4. \A j \in ItemIds : cartItem'[j] = (IF j \in used THEN None ELSE cartItem[j])
                      /\ reservation'[j] = (IF j \in used THEN None ELSE reservation[j])
  <2> HIDE DEF used
  <2>1. QED
    BY <1>2 DEF Without
<1>5. CASE q = 0 \/ ~Consumes(c, v)
  <2>1. \A j \in used : cartItem[j].variant # v
    BY <1>1, <1>5
  <2>2. \A j \in ItemIds : Weight(v)'[j] = Weight(v)[j]
    <3> HIDE DEF used
    <3>1. QED
      BY <1>4, <2>1 DEF Weight, Exists, Held
  <2>3. Units(v)' = Units(v)
    BY <2>2, SameUnits
  <2>4. Units(v) \in Nat
    BY <1>1, UnitsType
  <2>5. level'[v].reserved = level[v].reserved + q
    BY <1>1, <1>2, <1>5 DEF CheckoutLevel, Reserve, StockLevel
  <2>6. level[v].reserved \in Int
    BY <1>1 DEF StockLevel
  <2>7. QED
    BY <1>1, <1>3, <2>3, <2>4, <2>5, <2>6
<1>6. CASE q # 0 /\ Consumes(c, v)
  <2>1. PICK i \in ItemIds : i = LineOf(c, v) /\ IsLine(i, c, v)
    BY <1>6, LineOfIsLine DEF Consumes
  <2>2. i \in used /\ Exists(i) /\ cartItem[i].variant = v /\ Held(i) \in Nat
    BY <1>1, <1>6, <2>1, HeldNat DEF IsLine, InCart, CartInv
  <2>3. \A j \in ItemIds \ {i} : j \in used => ~(Exists(j) /\ cartItem[j].variant = v)
    BY <1>1, <2>1 DEF IsLine, InCart, CartInv, OneLinePerVariant
  <2> HIDE DEF used
  <2>4. \A j \in ItemIds \ {i} : Weight(v)'[j] = Weight(v)[j]
    BY <1>4, <2>3 DEF Weight, Exists, Held
  <2>5. Weight(v)[i] = Held(i) /\ Weight(v)'[i] = 0
    BY <1>4, <2>2 DEF Weight, Exists
  <2>6. /\ Units(v)' - Units(v) = 0 - Held(i)
        /\ Units(v) \in Int /\ Units(v)' \in Int
    BY <1>1, <2>4, <2>5, RowDifference
  <2>7. level'[v].reserved = level[v].reserved + q - Held(i)
    <3>1. level'[v] = TakeReserved(level[v], Held(i), q)
      BY <1>2, <1>6, <2>1 DEF CheckoutLevel
    <3>2. QED
      BY <1>1, <2>2, <3>1 DEF TakeReserved, Reserve, Release, StockLevel
  <2>8. level[v].reserved \in Int
    BY <1>1 DEF StockLevel
  <2>9. QED
    BY <1>1, <1>3, <2>2, <2>6, <2>7, <2>8
<1>7. QED
  BY <1>5, <1>6

(* A committed request ships or gives back what its sub-orders held.       *)
LEMMA CommitMoves ==
  ASSUME BaseInv, BaseInv', FlowInv, StartsInv, NEW w \in Workers, Commit(w)
  PROVE  HeldMoves
<1> SUFFICES ASSUME NEW v \in Variants
             PROVE  level'[v].reserved - level[v].reserved
                      = (Units(v)' - Units(v)) + (Ordered(v)' - Ordered(v))
  BY DEF HeldMoves
<1>1. PICK r \in Request : r = request[w]
  BY RequestTypes DEF Commit
<1>2. PICK o \in OrderIds : o = r.order
  BY DEF Request
<1>3. PICK s \in Suppliers : s = SupplierOf[v]
  BY OrderAssumption
<1>4. /\ level'[v] = Release(Dispatch(level[v], Shipped(r, v)), GivenBack(r, v))
      /\ subOrder' = [subOrder EXCEPT ![o] = WrittenBy(r)]
      /\ cartItem' = cartItem /\ reservation' = reservation /\ lines' = lines
  BY <1>1, <1>2 DEF Commit
<1>5. SeenIsCurrent(r) /\ StartsWhereItMay(r)
  BY <1>1 DEF FlowInv, RequestsInv, StartsInv, Commit
<1>6. /\ level[v].reserved \in Nat /\ lines[o][v] \in Nat /\ r.op \in Ops
      /\ r.seen[s] \in MaybeStatus /\ level[v] \in StockLevel
  BY DEF BaseInv, CartInv, CartTypeOK, StockLevel, TypeOK, Request
<1>7. subOrder'[o][s] = IF r.seen[s] # NoStatus THEN Target(r.op) ELSE subOrder[o][s]
  BY <1>2, <1>4 DEF WrittenBy, BaseInv, TypeOK
<1>8. /\ \A p \in OrderIds \ {o} : OrderHeld(p, v)' = OrderHeld(p, v)
      /\ OrderHeld(o, v) = IF subOrder[o][s] \in {"PENDING", "CONFIRMED"}
                           THEN lines[o][v] ELSE 0
      /\ OrderHeld(o, v)' = IF subOrder'[o][s] \in {"PENDING", "CONFIRMED"}
                            THEN lines[o][v] ELSE 0
  BY <1>3, <1>4 DEF OrderHeld, BaseInv, TypeOK
<1>9. /\ OrderHeld(o, v)' - OrderHeld(o, v) = 0 - (Shipped(r, v) + GivenBack(r, v))
      /\ Shipped(r, v) \in Nat /\ GivenBack(r, v) \in Nat
  <2>1. r.seen[s] # NoStatus => subOrder[o][s] = r.seen[s]
    BY <1>2, <1>5 DEF SeenIsCurrent
  <2>2. /\ Shipped(r, v) = IF r.op = "dispatch" /\ r.seen[s] # NoStatus
                           THEN lines[o][v] ELSE 0
        /\ GivenBack(r, v) = IF r.op = "cancel" /\ r.seen[s] \in {"PENDING", "CONFIRMED"}
                             THEN lines[o][v] ELSE 0
    BY <1>2, <1>3 DEF Shipped, GivenBack
  <2>3. CASE r.seen[s] = NoStatus
    BY <1>6, <1>7, <1>8, <2>2, <2>3 DEF NoStatus
  <2>4. CASE r.seen[s] # NoStatus /\ r.op = "confirm"
    <3>1. r.seen[s] = "PENDING" /\ Target(r.op) = "CONFIRMED"
      BY <1>5, <2>4 DEF StartsWhereItMay, MayStart, Target
    <3>2. QED
      BY <1>6, <1>7, <1>8, <2>1, <2>2, <2>4, <3>1
  <2>5. CASE r.seen[s] # NoStatus /\ r.op = "dispatch"
    <3>1. r.seen[s] \in {"PENDING", "CONFIRMED"} /\ Target(r.op) = "DISPATCHED"
      BY <1>5, <2>5 DEF StartsWhereItMay, MayStart, Target
    <3>2. QED
      BY <1>6, <1>7, <1>8, <2>1, <2>2, <2>5, <3>1
  <2>6. CASE r.seen[s] # NoStatus /\ r.op = "deliver"
    <3>1. r.seen[s] = "DISPATCHED" /\ Target(r.op) = "DELIVERED"
      BY <1>5, <2>6 DEF StartsWhereItMay, MayStart, Target
    <3>2. QED
      BY <1>6, <1>7, <1>8, <2>1, <2>2, <2>6, <3>1
  <2>7. CASE r.seen[s] # NoStatus /\ r.op = "cancel"
    <3>1. Target(r.op) = "CANCELLED"
      BY <2>7 DEF Target
    <3>2. QED
      BY <1>6, <1>7, <1>8, <2>1, <2>2, <2>7, <3>1
  <2>8. QED
    BY <1>6, <2>3, <2>4, <2>5, <2>6, <2>7 DEF Ops
<1>10. /\ Ordered(v)' - Ordered(v) = OrderHeld(o, v)' - OrderHeld(o, v)
       /\ Ordered(v) \in Int /\ Ordered(v)' \in Int
  BY <1>8, OrderDifference
<1>11. Units(v)' = Units(v) /\ Units(v) \in Nat
  <2>1. Units(v)' = Units(v)
    BY <1>4 DEF Units, Weight, Exists, Held
  <2>2. QED
    BY <2>1, UnitsType DEF BaseInv
<1>12. level'[v].reserved = level[v].reserved - Shipped(r, v) - GivenBack(r, v)
  BY <1>4, <1>6, <1>9 DEF Release, Dispatch, StockLevel
<1>13. QED
  BY <1>6, <1>9, <1>10, <1>11, <1>12

(* A request goes on only from a status it may start from.                 *)
LEMMA StartsStep ==
  ASSUME BaseInv, FlowInv, StartsInv, [Next]_vars
  PROVE  StartsInv'
<1>1. ASSUME NEW w \in Workers, NEW r, Start(w, r),
             r # None => StartsWhereItMay(r)
      PROVE  StartsInv'
  <2>1. /\ request'[w] = r
        /\ \A x \in Workers \ {w} : request'[x] = request[x]
    BY <1>1 DEF Start, BaseInv, TypeOK
  <2>2. QED
    BY <1>1, <2>1 DEF StartsInv, StartsWhereItMay
<1>2. CASE request' = request
  BY <1>2 DEF StartsInv, StartsWhereItMay
<1>3. ASSUME NEW w \in Workers, NEW o \in OrderIds, NEW s \in Suppliers,
             NEW op \in Ops \ {"cancel"}, ReadSubOrder(w, op, o, s)
      PROVE  StartsInv'
  <2> DEFINE r == [op |-> op, order |-> o, stage |-> "read",
                   seen |-> Only(s, subOrder[o][s]), derived |-> NoStatus]
  <2>1. Start(w, r) /\ StartsWhereItMay(r)
    BY <1>3 DEF ReadSubOrder, StartsWhereItMay, Only
  <2>2. QED
    BY <1>1, <2>1
<1>4. ASSUME NEW w \in Workers, NEW o \in OrderIds, CheckCancel(w, o)
      PROVE  StartsInv'
  <2> DEFINE r == [op |-> "cancel", order |-> o, stage |-> "checked",
                   seen |-> [s \in Suppliers |-> NoStatus], derived |-> NoStatus]
  <2>1. Start(w, r) /\ StartsWhereItMay(r)
    BY <1>4 DEF CheckCancel, StartsWhereItMay
  <2>2. QED
    BY <1>1, <2>1
<1>5. ASSUME NEW w \in Workers, ReadForCancel(w)
      PROVE  StartsInv'
  <2>1. request[w] \in Request /\ request[w].op = "cancel"
    BY <1>5, RequestTypes DEF ReadForCancel, FlowInv, RequestsInv, OnlyCancelChecks
  <2>2. PICK sn : Start(w, [request[w] EXCEPT !.stage = "read", !.seen = sn])
    BY <1>5 DEF ReadForCancel
  <2>3. StartsWhereItMay([request[w] EXCEPT !.stage = "read", !.seen = sn])
    BY <2>1 DEF StartsWhereItMay, Request
  <2>4. QED
    BY <1>1, <2>2, <2>3
<1>6. ASSUME NEW w \in Workers, DeriveStatus(w)
      PROVE  StartsInv'
  <2>1. request[w] \in Request /\ StartsWhereItMay(request[w])
    BY <1>6, RequestTypes DEF DeriveStatus, StartsInv
  <2>2. PICK d : Start(w, [request[w] EXCEPT !.stage = "derived", !.derived = d])
    BY <1>6 DEF DeriveStatus
  <2>3. StartsWhereItMay([request[w] EXCEPT !.stage = "derived", !.derived = d])
    BY <2>1 DEF StartsWhereItMay, Request
  <2>4. QED
    BY <1>1, <2>2, <2>3
<1>7. ASSUME NEW w \in Workers, Commit(w) \/ Rollback(w)
      PROVE  StartsInv'
  BY <1>1, <1>7 DEF Commit, Rollback, End, Start
<1>8. CASE RequestStep
  BY <1>8, <1>3, <1>4, <1>5, <1>6, <1>7 DEF RequestStep
<1>9. CASE ~RequestStep
  BY <1>2, <1>9 DEF Next, Checkout, PlaceOrder, orderVars, vars
<1>10. QED
  BY <1>8, <1>9

(* Every step moves the units it should.                                   *)
LEMMA StepMoves ==
  ASSUME SerialBuyers, BaseInv, BaseInv', FlowInv, StartsInv, ClearingAgrees,
         [Next]_vars
  PROVE  HeldMoves /\ ClearingAgrees'
<1> USE DEF BaseInv
<1>1. CASE [CartNext]_cartVars /\ UNCHANGED orderVars
  BY <1>1, CartMoves, CartsAlone DEF orderVars
<1>2. CASE Checkout
  <2>1. PICK c \in CartIds, o \in OrderIds,
            want \in [Variants -> 0..MaxQuantity] : PlaceOrder(c, o, want)
    BY <1>2 DEF Checkout
  <2>2. ClearingAgrees'
    BY <2>1, DeletedAgree DEF PlaceOrder
  <2>3. QED
    BY <2>1, <2>2, PlaceOrderMoves
<1>3. ASSUME NEW w \in Workers, Commit(w)
      PROVE  HeldMoves /\ ClearingAgrees'
  <2>1. ClearingAgrees'
    BY <1>3, AgreesStill DEF Commit, InCart, Exists, Held
  <2>2. QED
    BY <1>3, <2>1, CommitMoves
<1>4. CASE UNCHANGED <<cartVars, order, subOrder, lines>>
  <2>1. WeightsMove /\ ClearingAgrees'
    BY <1>4, CartMoves
  <2>2. QED
    BY <1>4, <2>1, CartsAlone
<1>5. CASE RequestStep
  BY <1>3, <1>4, <1>5 DEF RequestStep, ReadSubOrder, CheckCancel, ReadForCancel,
     DeriveStatus, Rollback
<1>6. QED
  BY <1>1, <1>2, <1>5 DEF Next, vars

LEMMA HeldStart == Init => HeldInv
<1> SUFFICES ASSUME Init PROVE HeldInv
  OBVIOUS
<1>1. BaseInv /\ FlowInv
  BY InitBase, InitFlow
<1>2. StartsInv
  BY DEF Init, StartsInv
<1>3. WeightBacked /\ ClearingAgrees
  BY StockStart DEF Init, StockInv
<1>4. ASSUME NEW v \in Variants
      PROVE  Ordered(v) = 0
  <2> DEFINE f == [o \in OrderIds |-> OrderHeld(o, v)]
  <2>1. \A o \in OrderIds : f[o] = 0
    BY DEF Init, OrderHeld, NoStatus
  <2>2. Ordered(v) = SumFunctionOnSet(f, OrderIds)
    BY DEF Ordered, SumFunction
  <2> HIDE DEF f
  <2>3. SumFunctionOnSet(f, {}) = SumFunctionOnSet(f, OrderIds)
    BY <2>1, SumGrows, OrderAssumption
  <2>4. SumFunctionOnSet(f, {}) = 0
    BY FS_EmptySet, SumParts DEF Ints
  <2>5. QED
    BY <2>2, <2>3, <2>4
<1>5. ASSUME NEW v \in Variants
      PROVE  level[v].reserved = Units(v) + Ordered(v)
  <2>1. level[v].reserved = Units(v) /\ Units(v) \in Nat
    BY <1>1, <1>3, UnitsType DEF WeightBacked, BaseInv
  <2>2. QED
    BY <1>4, <2>1
<1>6. QED
  BY <1>1, <1>2, <1>3, <1>5 DEF HeldInv, UnitsHeld

LEMMA HeldStep ==
  ASSUME SerialBuyers, Overlap # "any", HeldInv, [Next]_vars
  PROVE  HeldInv' /\ HeldMoves
<1>1. BaseInv /\ FlowInv /\ StartsInv /\ ClearingAgrees /\ UnitsHeld
  BY DEF HeldInv
<1>2. BaseInv' /\ FlowInv' /\ StartsInv'
  BY <1>1, StepBase, StepFlow, StartsStep
<1>3. HeldMoves /\ ClearingAgrees'
  BY <1>1, <1>2, StepMoves
<1>4. ASSUME NEW v \in Variants
      PROVE  level'[v].reserved = Units(v)' + Ordered(v)'
  <2>1. /\ level'[v].reserved - level[v].reserved
             = (Units(v)' - Units(v)) + (Ordered(v)' - Ordered(v))
        /\ level[v].reserved = Units(v) + Ordered(v)
    BY <1>1, <1>3 DEF HeldMoves, UnitsHeld
  <2>2. level[v].reserved \in Nat /\ level'[v].reserved \in Nat
    BY <1>1, <1>2, WeightTypes DEF BaseInv
  <2>3. Units(v) \in Int /\ Units(v)' \in Int
    BY <1>1, <1>2, UnitsBoth DEF BaseInv
  <2>4. Ordered(v) \in Int /\ Ordered(v)' \in Int
    BY <1>1, <1>2, OrderedBoth
  <2>5. PICK x \in Int, y \in Int, p \in Int, q \in Int :
          x = Units(v) /\ y = Units(v)' /\ p = Ordered(v) /\ q = Ordered(v)'
    BY <2>3, <2>4
  <2>6. level'[v].reserved - level[v].reserved = (y - x) + (q - p)
    BY <2>1, <2>5
  <2>7. level[v].reserved = x + p
    BY <2>1, <2>5
  <2>8. level'[v].reserved = y + q
    BY <2>2, <2>6, <2>7
  <2>9. QED
    BY <2>5, <2>8
<1>5. QED
  BY <1>1, <1>2, <1>3, <1>4 DEF HeldInv, UnitsHeld

(* While a buyer sends one request at a time and requests on the same      *)
(* sub-order do not overlap, a variant's reserved units are at all times   *)
(* those of the cart lines and of the open sub-orders.                     *)
THEOREM ReservedHeld ==
  SerialBuyers /\ Overlap # "any" => (Spec => []ReservedIsHeld)
<1> SUFFICES ASSUME SerialBuyers, Overlap # "any" PROVE Spec => []ReservedIsHeld
  OBVIOUS
<1>1. HeldInv /\ [Next]_vars => HeldInv'
  BY HeldStep
<1>2. HeldInv => ReservedIsHeld
  BY HeldIsWeight DEF HeldInv, UnitsHeld, BaseInv, ReservedIsHeld, Ordered
<1>3. QED
  BY <1>1, <1>2, HeldStart, PTL DEF Spec

(* --------------------------- the stock ledger -------------------------- *)

Holding == ItemIds \cup SubOrderIds

(* What holder h has set aside of variant v, as the refinement reads it    *)
HeldBy(h, v) ==
  IF h \in ItemIds THEN Weight(v)[h]
  ELSE IF SupplierOf[v] = h[2] THEN OrderHeld(h[1], v) ELSE 0

LEMMA HoldingFinite == IsFiniteSet(SubOrderIds) /\ IsFiniteSet(Holding)
<1>1. IsFiniteSet(SubOrderIds)
  BY OrderAssumption, FS_Product DEF SubOrderIds
<1>2. QED
  BY <1>1, CartAssumption, FS_Union DEF Holding

(* The ledger sums as the orders do.                                       *)
LEMMA LedgerSum ==
  ASSUME NEW F
  PROVE  Ledger!SumFunction(F) = SumFunctionOnSet(F, DOMAIN F)
BY DEF Ledger!SumFunction, Ledger!SumFunctionOnSet, Ledger!FoldFunctionOnSet,
       Ledger!MapThenFoldSet, SumFunctionOnSet, FoldFunctionOnSet, MapThenFoldSet

(* The ledger's promised units are those of cart lines and open orders.    *)
PromisedHeld == \A v \in Variants : Ledger!Promised(v) = Units(v) + Ordered(v)

LEMMA PromisedIs == BaseInv => PromisedHeld
<1> SUFFICES ASSUME BaseInv, NEW v \in Variants
             PROVE  Ledger!Promised(v) = Units(v) + Ordered(v)
  BY DEF PromisedHeld
<1> DEFINE f == [h \in Holding |-> HeldBy(h, v)]
           m == [o \in OrderIds |-> <<o, SupplierOf[v]>>]
           T == {m[o] : o \in OrderIds}
           g == [o \in OrderIds |-> OrderHeld(o, v)]
<1>1. Ledger!Promised(v) = SumFunctionOnSet(f, Holding)
  <2>1. Ledger!Promised(v) = Ledger!SumFunction(f)
    BY DEF Ledger!Promised, Holding, HeldBy, Weight
  <2>2. DOMAIN f = Holding
    OBVIOUS
  <2> HIDE DEF f
  <2>3. QED
    BY <2>1, <2>2, LedgerSum
<1>2. \A i \in ItemIds : f[i] = Weight(v)[i] /\ f[i] \in Nat
  BY HeldNat DEF Holding, HeldBy, Weight, BaseInv, CartInv
<1>3. \A o \in OrderIds : /\ m[o] \in SubOrderIds /\ m[o] \notin ItemIds
                          /\ m[o][1] = o /\ m[o][2] = SupplierOf[v]
  BY OrderAssumption, KeysAssumption DEF SubOrderIds
<1>4. \A h \in SubOrderIds : h \notin ItemIds /\ h[1] \in OrderIds /\ h[2] \in Suppliers
                             /\ h = <<h[1], h[2]>>
  BY KeysAssumption DEF SubOrderIds
<1>5. \A h \in SubOrderIds : f[h] = IF SupplierOf[v] = h[2] THEN g[h[1]] ELSE 0
  BY <1>4 DEF Holding, HeldBy
<1>6. \A o \in OrderIds : g[o] \in Nat
  BY OrderHeldType
<1>7. /\ T \in SUBSET SubOrderIds
      /\ \A h \in SubOrderIds \ T : f[h] = 0
      /\ \A o \in OrderIds : g[o] = f[m[o]]
      /\ \A x, y \in OrderIds : m[x] = m[y] => x = y
  <2>1. ASSUME NEW h \in SubOrderIds, f[h] # 0
        PROVE  h \in T
    <3>1. h[1] \in OrderIds /\ h = <<h[1], SupplierOf[v]>>
      <4> HIDE DEF f, g
      <4>1. QED
        BY <1>4, <1>5, <2>1
    <3>2. QED
      BY <3>1
  <2>2. \A o \in OrderIds : g[o] = f[m[o]]
    <3> HIDE DEF f, g, m
    <3>1. QED
      BY <1>3, <1>5
  <2>3. T \in SUBSET SubOrderIds /\ \A x, y \in OrderIds : m[x] = m[y] => x = y
    <3> HIDE DEF f, g, m
    <3>1. QED
      BY <1>3
  <2>4. QED
    BY <2>1, <2>2, <2>3
<1>8. \A h \in SubOrderIds : f[h] \in Nat
  <2> HIDE DEF f, g
  <2>1. QED
    BY <1>4, <1>5, <1>6
<1>9. ItemIds \cap SubOrderIds = {} /\ Ints(f, ItemIds \cup SubOrderIds)
  BY <1>2, <1>8, KeysAssumption DEF Ints, SubOrderIds
<1>10. Ordered(v) = SumFunctionOnSet(g, OrderIds)
  BY DEF Ordered, SumFunction
<1> HIDE DEF f, m, T, g
<1>11. IsFiniteSet(T)
  BY <1>7, HoldingFinite, FS_Subset
<1>12. SumFunctionOnSet(f, Holding) = SumFunctionOnSet(f, ItemIds) + SumFunctionOnSet(f, SubOrderIds)
  BY <1>9, CartAssumption, HoldingFinite, SumUnion DEF Holding
<1>13. SumFunctionOnSet(f, ItemIds) = Units(v)
  <2> DEFINE k == Weight(v)
  <2>1. Ints(k, ItemIds) /\ \A i \in ItemIds : f[i] = k[i]
    BY <1>2 DEF Ints
  <2> HIDE DEF k
  <2>2. SumFunctionOnSet(f, ItemIds) = SumFunctionOnSet(k, ItemIds)
    BY <2>1, CartAssumption, SumSame
  <2>3. QED
    BY <2>2 DEF k, Units
<1>14. SumFunctionOnSet(f, SubOrderIds) = SumFunctionOnSet(f, T)
  BY <1>7, <1>8, HoldingFinite, SumGrows
<1>15. SumFunctionOnSet(f, T) = SumFunctionOnSet(g, OrderIds)
  <2>1. T = {m[o] : o \in OrderIds}
    BY DEF T
  <2>2. Ints(f, T)
    BY <1>7, <1>8 DEF Ints
  <2>3. QED
    BY <1>7, <1>11, <2>1, <2>2, OrderAssumption, SumMap
<1>16. QED
  BY <1>1, <1>10, <1>12, <1>13, <1>14, <1>15

(* No holder has a negative number of units.                               *)
HoldingsNat == \A h \in Holding, v \in Variants : HeldBy(h, v) \in Nat

LEMMA HoldingsAreNat == BaseInv => HoldingsNat
<1> SUFFICES ASSUME BaseInv, NEW h \in Holding, NEW v \in Variants
             PROVE  HeldBy(h, v) \in Nat
  BY DEF HoldingsNat
<1>1. CASE h \in ItemIds
  BY <1>1, HeldNat DEF HeldBy, Weight, BaseInv, CartInv
<1>2. CASE h \notin ItemIds
  <2>1. h[1] \in OrderIds
    BY <1>2 DEF Holding, SubOrderIds
  <2>2. QED
    BY <1>2, <2>1, OrderHeldType DEF HeldBy
<1>3. QED
  BY <1>1, <1>2

(* A step that keeps the units on hand of a variant only lets units of it  *)
(* change hands.                                                           *)
LEMMA KeepsIsReassign ==
  ASSUME BaseInv, BaseInv', UnitsHeld, UnitsHeld', NEW v \in Variants,
         OnHand(level'[v]) = OnHand(level[v])
  PROVE  Ledger!Reassign(v)
<1>1. /\ Ledger!Promised(v) = level[v].reserved
      /\ Ledger!Promised(v)' = level'[v].reserved
  <2>1. PromisedHeld /\ PromisedHeld'
    BY PromisedIs, PTL
  <2>2. QED
    BY <2>1 DEF PromisedHeld, UnitsHeld
<1>2. level[v] \in StockLevel /\ level'[v] \in StockLevel
  BY DEF BaseInv, CartInv, CartTypeOK
<1>3. level'[v].available >= 0
  BY <1>2 DEF StockLevel
<1>4. level'[v].available + Ledger!Promised(v)' = level[v].available + Ledger!Promised(v)
  BY <1>1, <1>2 DEF OnHand
<1>5. ASSUME NEW h \in Holding
      PROVE  /\ HeldBy(h, v)' >= 0
             /\ HeldBy(h, v)' =
                  IF h \in ItemIds
                  THEN IF Exists(h)' /\ cartItem'[h].variant = v THEN Held(h)' ELSE 0
                  ELSE IF SupplierOf[v] = h[2] THEN OrderHeld(h[1], v)' ELSE 0
  <2>1. HoldingsNat'
    BY HoldingsAreNat, PTL
  <2>2. HeldBy(h, v)' \in Nat
    BY <2>1 DEF HoldingsNat
  <2>3. HeldBy(h, v)' =
          IF h \in ItemIds
          THEN IF Exists(h)' /\ cartItem'[h].variant = v THEN Held(h)' ELSE 0
          ELSE IF SupplierOf[v] = h[2] THEN OrderHeld(h[1], v)' ELSE 0
    BY DEF HeldBy, Weight
  <2>4. QED
    BY <2>2, <2>3
<1>6. QED
  BY <1>3, <1>4, <1>5 DEF Ledger!Reassign, Holding

(* A checkout takes free units and gives back those it need not keep.      *)
LEMMA CheckoutKeepsUnits ==
  ASSUME BaseInv, NEW c, NEW v \in Variants, NEW q \in Nat, CanCheckout(c, v, q)
  PROVE  OnHand(CheckoutLevel(c, v, q)) = OnHand(level[v])
<1>1. level[v] \in StockLevel
  BY DEF BaseInv, CartInv, CartTypeOK
<1>2. CASE q = 0 \/ ~Consumes(c, v)
  BY <1>1, <1>2, ReserveKeeps DEF CheckoutLevel, CanCheckout
<1>3. CASE q # 0 /\ Consumes(c, v)
  <2>1. PICK r \in Nat : r = Held(LineOf(c, v))
    BY <1>3, LineOfIsLine, HeldNat DEF Consumes, BaseInv, CartInv
  <2>2. CheckoutLevel(c, v, q) = TakeReserved(level[v], r, q)
    BY <1>3, <2>1 DEF CheckoutLevel
  <2>3. QED
    BY <1>1, <2>2 DEF TakeReserved, Reserve, Release, OnHand, StockLevel
<1>4. QED
  BY <1>2, <1>3

(* The cart steps, checkout and the commits of requests, as the ledger     *)
(* sees them                                                               *)
LEMMA CommitShips ==
  ASSUME HeldInv, HeldInv', NEW w \in Workers, Commit(w), NEW v \in Variants
  PROVE  Ledger!Reassign(v) \/ \E h \in SubOrderIds : Ledger!Ship(h, v)
<1>0. BaseInv /\ BaseInv' /\ FlowInv /\ StartsInv /\ UnitsHeld /\ UnitsHeld'
  BY DEF HeldInv
<1>1. PICK r \in Request : r = request[w]
  BY <1>0, RequestTypes DEF Commit
<1>2. PICK o \in OrderIds, s \in Suppliers : o = r.order /\ s = SupplierOf[v]
  BY OrderAssumption DEF Request
<1>3. /\ level'[v] = Release(Dispatch(level[v], Shipped(r, v)), GivenBack(r, v))
      /\ subOrder' = [subOrder EXCEPT ![o] = WrittenBy(r)]
      /\ cartItem' = cartItem /\ reservation' = reservation /\ lines' = lines
      /\ level[v] \in StockLevel /\ lines[o][v] \in Nat
  BY <1>0, <1>1, <1>2 DEF Commit, BaseInv, CartInv, CartTypeOK, TypeOK
<1>4. /\ Shipped(r, v) = IF r.op = "dispatch" /\ r.seen[s] # NoStatus
                         THEN lines[o][v] ELSE 0
      /\ GivenBack(r, v) = IF r.op = "cancel" /\ r.seen[s] \in {"PENDING", "CONFIRMED"}
                           THEN lines[o][v] ELSE 0
  BY <1>2 DEF Shipped, GivenBack
<1>5. CASE Shipped(r, v) = 0
  <2>1. OnHand(level'[v]) = OnHand(level[v])
    BY <1>3, <1>4, <1>5 DEF Release, Dispatch, OnHand, StockLevel
  <2>2. QED
    BY <1>0, <2>1, KeepsIsReassign
<1>6. CASE Shipped(r, v) # 0
  <2>1. /\ r.op = "dispatch" /\ r.seen[s] # NoStatus /\ lines[o][v] > 0
        /\ GivenBack(r, v) = 0
    BY <1>3, <1>4, <1>6
  <2>2. subOrder[o][s] \in {"PENDING", "CONFIRMED"}
    BY <1>0, <1>1, <1>2, <2>1
       DEF FlowInv, RequestsInv, SeenIsCurrent, StartsInv, StartsWhereItMay, MayStart, Commit
  <2>3. /\ subOrder'[o][s] = "DISPATCHED"
        /\ \A p \in OrderIds \ {o} : subOrder'[p] = subOrder[p]
    BY <1>0, <1>2, <1>3, <2>1 DEF WrittenBy, Target, BaseInv, TypeOK
  <2>4. level'[v].available = level[v].available
    BY <1>3, <2>1 DEF Release, Dispatch, StockLevel
  <2>5. OrderHeld(o, v) > 0 /\ OrderHeld(o, v)' = 0
    BY <1>2, <2>1, <2>2, <2>3 DEF OrderHeld
  <2>6. \A p \in OrderIds \ {o} : OrderHeld(p, v)' = OrderHeld(p, v)
    BY <1>3, <2>3 DEF OrderHeld
  <2>7. PICK h \in SubOrderIds : h[1] = o /\ h[2] = s
    <3>1. <<o, s>> \in SubOrderIds
      BY DEF SubOrderIds
    <3>2. QED
      BY <3>1
  <2>8. h \notin ItemIds /\ \A g \in SubOrderIds \ {h} : g[2] = s => g[1] \in OrderIds \ {o}
    BY <2>7, KeysAssumption DEF SubOrderIds
  <2>9. \A g \in ItemIds : Exists(g)' = Exists(g) /\ Held(g)' = Held(g)
    BY <1>3 DEF Exists, Held
  <2>10. Ledger!Ship(h, v)
    BY <1>2, <1>3, <2>4, <2>5, <2>6, <2>7, <2>8, <2>9 DEF Ledger!Ship
  <2>11. QED
    BY <2>10
<1>7. QED
  BY <1>5, <1>6

LEMMA SupplyIsSupply ==
  ASSUME BaseInv, BaseInv', StockStep, UNCHANGED orderVars
  PROVE  \E v \in Variants : Ledger!Supply(v)
<1>1. PICK v \in Variants :
        /\ \A u \in Variants \ {v} : level'[u] = level[u]
        /\ level'[v] \in StockLevel
  BY DEF StockStep, SupplierStockStep, ReceiveStock, AdjustStock,
         BaseInv, CartInv, CartTypeOK
<1>2. cartItem' = cartItem /\ reservation' = reservation
      /\ subOrder' = subOrder /\ lines' = lines
  BY DEF StockStep, orderVars
<1>3. level'[v].available >= 0
  BY <1>1 DEF StockLevel
<1>4. Ledger!Supply(v)
  BY <1>1, <1>2, <1>3 DEF Ledger!Supply, Exists, Held, OrderHeld
<1>5. QED
  BY <1>4

LEMMA StepIsLedgerStep ==
  ASSUME HeldInv, HeldInv', [Next]_vars
  PROVE  [Ledger!LedgerNext]_Ledger!ledger
<1>0. BaseInv /\ BaseInv' /\ UnitsHeld /\ UnitsHeld' /\ CartInv
  BY DEF HeldInv, BaseInv
<1>1. CASE \A v \in Variants : OnHand(level'[v]) = OnHand(level[v])
  <2>1. \A v \in Variants : Ledger!Reassign(v)
    BY <1>0, <1>1, KeepsIsReassign
  <2>2. QED
    BY <2>1 DEF Ledger!LedgerNext
<1>2. CASE StockStep /\ UNCHANGED orderVars
  BY <1>0, <1>2, SupplyIsSupply DEF Ledger!LedgerNext
<1>3. CASE BuyerCartStep \/ ExpiryStep
  BY <1>0, <1>1, <1>3, StepKeepsUnits
<1>4. CASE Checkout
  <2>1. PICK c \in CartIds, o \in OrderIds,
            want \in [Variants -> 0..MaxQuantity] : PlaceOrder(c, o, want)
    BY <1>4 DEF Checkout
  <2>2. \A v \in Variants : want[v] \in Nat
    BY InventoryAssumption
  <2>3. \A v \in Variants : OnHand(level'[v]) = OnHand(level[v])
    BY <1>0, <2>1, <2>2, CheckoutKeepsUnits DEF PlaceOrder
  <2>4. QED
    BY <1>1, <2>3
<1>5. ASSUME NEW w \in Workers, Commit(w)
      PROVE  [Ledger!LedgerNext]_Ledger!ledger
  <2>1. \A v \in Variants : Ledger!Reassign(v) \/ \E h \in SubOrderIds : Ledger!Ship(h, v)
    BY <1>5, CommitShips
  <2>2. QED
    BY <2>1 DEF Ledger!LedgerNext
<1>6. CASE level' = level
  BY <1>1, <1>6
<1>7. CASE RequestStep
  BY <1>5, <1>6, <1>7 DEF RequestStep, ReadSubOrder, CheckCancel, ReadForCancel,
     DeriveStatus, Rollback, cartVars
<1>8. QED
  BY <1>2, <1>3, <1>4, <1>6, <1>7 DEF Next, CartNext, vars, cartVars

LEMMA InitIsLedgerInit == Init => Ledger!LedgerInit
<1> SUFFICES ASSUME Init PROVE Ledger!LedgerInit
  OBVIOUS
<1>1. \A i \in ItemIds : ~Exists(i)
  BY DEF Init, CartInit, Exists
<1>2. \A h \in SubOrderIds, v \in Variants : h[1] \in OrderIds /\ OrderHeld(h[1], v) = 0
  BY OrderAssumption DEF Init, OrderHeld, SubOrderIds, NoStatus
<1>3. \A v \in Variants : level[v].available \in Nat
  BY InventoryAssumption DEF Init, CartInit, InventoryInit
<1>4. QED
  BY <1>1, <1>2, <1>3 DEF Ledger!LedgerInit

(* Carts, checkout, dispatch and cancellation implement the stock ledger:  *)
(* a unit is promised to one holder at a time and is shipped only out of   *)
(* the order that holds it.                                                *)
THEOREM KeepsLedger ==
  SerialBuyers /\ Overlap # "any" => (Spec => LedgerKept)
<1> SUFFICES ASSUME SerialBuyers, Overlap # "any" PROVE Spec => LedgerKept
  OBVIOUS
<1>1. HeldInv /\ [Next]_vars => HeldInv'
  BY HeldStep
<1>2. HeldInv /\ HeldInv' /\ [Next]_vars => [Ledger!LedgerNext]_Ledger!ledger
  BY StepIsLedgerStep
<1>3. QED
  BY <1>1, <1>2, HeldStart, InitIsLedgerInit, PTL DEF Spec, LedgerKept, Ledger!LedgerSpec
=============================================================================
