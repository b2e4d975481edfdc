--------------------------------- MODULE Shop ---------------------------------
(***************************************************************************)
(* Cart, wishlist and checkout as one browser tab sees them.               *)
(*                                                                         *)
(* The service keeps a cart per account and one for the guest's session.   *)
(* The pages show what the query cache holds, change the service by calls  *)
(* that overlap, and invalidate the cache when a call succeeds.  A cart    *)
(* entry has one key, ['cart'], whoever it was read for.                   *)
(***************************************************************************)
EXTENDS Naturals, FiniteSets, TLC

CONSTANTS
  Variants,
  Pages,        \* bound: the pages the visitor goes to, per interest
  Slots,        \* bound: calls outstanding together
  MaxQty,       \* bound: units of a line
  MaxRows,      \* bound: rows ever inserted
  MaxOrders,    \* bound: orders ever placed
  Other,        \* lines also change elsewhere: another tab, the expiry task
  NoData

AllPages == {"home", "catalogue", "product", "supplier", "wishlist", "checkout",
             "orders", "login"}
(* Bound: one visitor is after one thing only, so that the states of the    *)
(* three add up instead of multiplying                                      *)
Interests == {"cart", "order", "wishlist"}
ASSUME ShopAssumption ==
  /\ Pages \in [Interests -> SUBSET AllPages]
  /\ MaxQty \in Nat \ {0} /\ MaxRows \in Nat /\ MaxOrders \in Nat
  /\ Other \in BOOLEAN

INSTANCE QueryCache

(* a line is a row of its own; a cart shown is the rows of one owner *)
Row == [id : 1 .. MaxRows, qty : 1 .. MaxQty]
NoRow == [id |-> 0, qty |-> 0]
Lines == [Variants -> Row \cup {NoRow}]
NoLines == [v \in Variants |-> NoRow]
Saved == [Variants -> 0 .. MaxRows]      \* the row of a saved variant, or 0

Owners == {"guest", "buyer"}
Keys == {"cart", "wishlist", "saved"}    \* ['cart'], ['wishlist'], ['wishlist', page]
Data(k) == IF k = "cart" THEN Lines ELSE Saved

VARIABLES
  lines,     \* the service: lines of each owner
  saved,     \* the service: the account's wishlist
  rows,      \* rows inserted so far
  orders,    \* the account's orders: [unpaid, paid]
  session,   \* the browser has a session of the account
  known,     \* the store has its user and token
  page,
  cache,     \* the query cache
  readFor,   \* the owner a cart request not answered yet is answered for
  doubt,     \* doubt[k]: a reason the entry may be out of date unnoticed
  local,     \* the cart kept by the catalogue and home page for a guest
  calls,     \* calls of the page's controls
  form,      \* checkout: "form", "pay" (the payment step), "paid"
  reopened,  \* how often a checkout was left, or its form came back, with an
             \* order placed and not paid
  interest   \* what the visitor is after

service == <<lines, saved, rows, orders>>
shopVars == <<service, session, known, page, cache, readFor, doubt, local, calls,
              form, reopened, interest>>

(* One call.  by: the control that waits for it, "none", or "gone" when its *)
(* page was left.  who: the owner it is sent for.  vs, id, qty: what it     *)
(* names.  st: "sent", "done" (accepted, not answered), "settling"          *)
(* (answered, its control waits for the refetch)                            *)
Call == [by : {"add", "heart", "submit", "pay", "none", "gone"},
         op : {"add", "set", "delete", "save", "unsave", "place", "intent", "clear"},
         st : {"sent", "done", "settling"}, who : Owners,
         vs : SUBSET Variants, id : 0 .. MaxRows, qty : 0 .. MaxQty]
NoCall == [op |-> "none"]

Owner(u) == IF u THEN "buyer" ELSE "guest"
(* the wrong way: only the first page of the wishlist is invalidated *)
KeyExact(op) == IF op \in {"save", "unsave"} THEN {"wishlist"} ELSE {"cart"}
(* the queries a change invalidates; ['wishlist'] is a prefix of both *)
Key(op) == IF op \in {"save", "unsave"} THEN {"wishlist", "saved"} ELSE {"cart"}
Truth(k, o) == IF k = "cart" THEN lines[o] ELSE saved

Quiet == \A s \in Slots : calls[s] = NoCall

-----------------------------------------------------------------------------
(* What a page shows                                                       *)

(* the entries a page observes, for a visitor who is known or not *)
Shows(p, u) ==
  IF interest # "wishlist"
  THEN IF u \/ p \in {"home", "catalogue", "product", "checkout"} THEN {"cart"} ELSE {}
  ELSE IF u /\ p = "product" THEN {"wishlist"}
  ELSE IF u /\ p = "wishlist" THEN {"saved"} ELSE {}

(* the page p comes up: what it shows is asked for where it has to be *)
Open(p, u, c) ==
  /\ page' = p
  /\ cache' = [k \in Keys |-> IF k \in Shows(p, u) THEN Observed(c[k]) ELSE c[k]]
  /\ readFor' = IF cache'["cart"].fetch # "sent" THEN "guest"
                ELSE IF c["cart"].fetch = "sent" THEN readFor ELSE Owner(u)

CartShown == IF cache["cart"].data = NoData THEN NoLines ELSE cache["cart"].data
SavedShown(k) == IF cache[k].data = NoData THEN [v \in Variants |-> 0] ELSE cache[k].data

(* the guest's cart of catalogue and home lives as long as the page, and is *)
(* shown to a known buyer too until the first load of theirs                *)
Local == page \in {"home", "catalogue"}

(* the calls of a page that is left are not waited for by the next one *)
Left == [s \in Slots |->
  IF calls[s] = NoCall \/ calls[s].by = "pay" THEN calls[s]
  ELSE [calls[s] EXCEPT !.by = "gone"]]

(* the checkout has an order placed and not paid *)
InHand ==
  \/ form = "pay"
  \/ \E s \in Slots : /\ calls[s] # NoCall /\ calls[s].by = "submit"
                      /\ calls[s].op = "intent" \/ calls[s].st = "done"
Dropped == IF InHand THEN 1 ELSE 0

(* a link, or router.push; the middleware keeps guests from three of them *)
Visit(p) ==
  /\ p # page
  /\ p \in {"wishlist", "checkout", "orders"} => known
  /\ p = "login" => ~session
  /\ Open(p, known, cache)
  /\ calls' = Left /\ local' = [v \in Variants |-> 0]
  /\ form' = "form" /\ reopened' = reopened + Dropped
  /\ UNCHANGED <<service, session, known, doubt, interest>>

(* the checkout turns away who is not known once a cart has come *)
TurnedAway ==
  /\ page = "checkout" /\ ~known /\ cache["cart"].data # NoData
  /\ Open(IF session THEN "catalogue" ELSE "login", known, cache)
  /\ calls' = Left /\ form' = "form" /\ reopened' = reopened + Dropped
  /\ UNCHANGED <<service, session, known, doubt, local, interest>>

(* a page load: memory is empty, and what does not wait for the user is    *)
(* asked for before there is a token.  Bound: with no call out, here and    *)
(* where the bank takes the tab                                             *)
Load ==
  /\ Quiet
  /\ known' = FALSE
  /\ Open(page, FALSE, [k \in Keys |-> Empty])
  /\ doubt' = [k \in Keys |-> FALSE]
  /\ local' = [v \in Variants |-> 0]
  /\ form' = "form" /\ reopened' = reopened + Dropped
  /\ UNCHANGED <<service, session, calls, interest>>

(* what is in the cache, or on its way, was read for somebody else *)
SomeoneElse == doubt' = [doubt EXCEPT !["cart"] =
  (@ \/ cache["cart"].data # NoData \/ cache["cart"].fetch # "idle")]

(* initialise() has the user *)
Initialised ==
  /\ session /\ ~known /\ known' = TRUE
  /\ SomeoneElse
  /\ Open(page, TRUE, cache)
  /\ UNCHANGED <<service, session, local, calls, form, reopened, interest>>

(* merge_guest_cart: summed into the account's lines, or moved to it *)
Merged ==
  [v \in Variants |->
     IF lines["guest"][v] = NoRow THEN lines["buyer"][v]
     ELSE IF lines["buyer"][v] = NoRow THEN lines["guest"][v]
     ELSE [lines["buyer"][v] EXCEPT !.qty = @ + lines["guest"][v].qty]]

(* handleLogin: the guest's cart is merged, or is not; the cache stays, and *)
(* so do the calls of the guest not answered yet                            *)
SignIn ==
  /\ page = "login" /\ ~session
  /\ session' = TRUE /\ known' = TRUE
  /\ \/ /\ \A v \in Variants : Merged[v].qty <= MaxQty
        /\ lines' = [lines EXCEPT !["buyer"] = Merged, !["guest"] = NoLines]
     \/ UNCHANGED lines
  /\ SomeoneElse
  /\ Open("catalogue", TRUE, cache)
  /\ UNCHANGED <<saved, rows, orders, local, calls, form, reopened, interest>>

(* handleLogout, whatever calls are out *)
SignOut ==
  /\ known
  /\ session' = FALSE /\ known' = FALSE
  /\ SomeoneElse
  /\ Open("login", FALSE, cache)
  /\ calls' = Left /\ local' = [v \in Variants |-> 0]
  /\ form' = "form" /\ reopened' = reopened + Dropped
  /\ UNCHANGED <<service, interest>>

-----------------------------------------------------------------------------
(* Loading                                                                 *)

Answer(k) ==
  /\ cache[k].fetch = "sent"
  /\ LET o == IF k = "cart" THEN readFor ELSE "buyer"
     IN /\ cache' = [cache EXCEPT ![k] = ReadAs(@, Truth(k, o))]
        /\ doubt' = [doubt EXCEPT ![k] = @ /\ k = "cart" /\ o # Owner(known)]
  /\ readFor' = IF k = "cart" THEN "guest" ELSE readFor
  /\ UNCHANGED <<service, session, known, page, local, calls, form, reopened, interest>>

(* the wrong way: what comes back is taken for another success, and asked  *)
(* for again                                                               *)
FreedToDone(k, c) == [s \in Slots |->
  IF k = "wishlist" /\ c[s] # NoCall /\ c[s].st = "settling"
  THEN [c[s] EXCEPT !.st = "done"] ELSE c[s]]
(* the control that waits for this refetch is free again *)
Freed(k, c) == [s \in Slots |->
  IF k = "wishlist" /\ c[s] # NoCall /\ c[s].st = "settling" THEN NoCall ELSE c[s]]

Arrive(k) ==
  /\ cache[k].fetch = "read"
  /\ cache' = [cache EXCEPT ![k] = Loaded(@)]
  /\ calls' = Freed(k, calls)
  /\ UNCHANGED <<service, session, known, page, readFor, doubt, local, form,
                 reopened, interest>>

LoadFails(k) ==
  /\ cache[k].fetch # "idle"
  /\ cache' = [cache EXCEPT ![k] = LoadFailed(@)]
  /\ calls' = Freed(k, calls)
  /\ readFor' = IF k = "cart" THEN "guest" ELSE readFor
  /\ UNCHANGED <<service, session, known, page, doubt, local, form,
                 reopened, interest>>

(* a minute later, or back from another window *)
Age(k) ==
  /\ cache[k].data # NoData /\ ~cache[k].stale
  /\ cache' = [cache EXCEPT ![k] = Aged(@)]
  /\ UNCHANGED <<service, session, known, page, readFor, doubt, local, calls,
                 form, reopened, interest>>

Focus ==
  /\ Open(page, known, cache) /\ cache' # cache
  /\ UNCHANGED <<service, session, known, doubt, local, calls, form, reopened, interest>>

(* an expired line, or a change of another tab *)
ChangeElsewhere ==
  /\ Other
  /\ \/ /\ interest # "wishlist"
        /\ \E v \in Variants :
             /\ lines["buyer"][v] # NoRow
             /\ lines' = [lines EXCEPT !["buyer"][v] = NoRow]
        /\ UNCHANGED saved
        /\ doubt' = [doubt EXCEPT !["cart"] = TRUE]
     \/ /\ interest = "wishlist"
        /\ \E v \in Variants : saved[v] # 0 /\ saved' = [saved EXCEPT ![v] = 0]
        /\ UNCHANGED lines
        /\ doubt' = [k \in Keys |-> (doubt[k] \/ k # "cart")]
  /\ UNCHANGED <<rows, orders, session, known, page, cache, readFor, local, calls,
                 form, reopened, interest>>

-----------------------------------------------------------------------------
(* The controls.  The steppers of a page act as those of its drawer, which *)
(* are never disabled                                                      *)

(* whichever slot is free *)
Free == CHOOSE s \in Slots : calls[s] = NoCall
Use(c) ==
  /\ \E s \in Slots : calls[s] = NoCall
  /\ calls' = [calls EXCEPT ![Free] = c]

Busy(b) == \E s \in Slots : calls[s] # NoCall /\ calls[s].by = b

Send(b, op, vs, id, qty) ==
  /\ Use([by |-> b, op |-> op, st |-> "sent", who |-> Owner(known),
           vs |-> vs, id |-> id, qty |-> qty])
  /\ UNCHANGED <<service, session, known, page, cache, readFor, doubt, local, form,
                 reopened, interest>>

(* the product page: for a variant its cached cart does not have *)
AddToCart(v) ==
  /\ page = "product" /\ CartShown[v] = NoRow /\ ~Busy("add")
  /\ \E q \in 1 .. MaxQty : Send("add", "add", {v}, 0, q)

(* product cards: of home and catalogue, of a supplier's page, under a      *)
(* product; and the buttons of the wishlist page                            *)
CatalogueCards == known /\ page \in {"home", "catalogue"}
SupplierCards == known /\ page = "supplier"
RelatedCards == page = "product"
SavedCards(v) == page = "wishlist" /\ known /\ CartShown[v] = NoRow

CardAdd(v) ==
  /\ CatalogueCards \/ SupplierCards \/ RelatedCards \/ SavedCards(v)
  /\ Send("none", "add", {v}, 0, 1)

(* the drawer of the page.  A known buyer whose cart has not come yet sees  *)
(* local lines there, which have no row at the service                      *)
DrawerLine(v) ==
  IF Local /\ cache["cart"].data = NoData THEN [id |-> 0, qty |-> local[v]]
  ELSE CartShown[v]

(* the wrong way: the last unit is stepped to none *)
StepLineToNone(v) ==
  /\ page \in {"product", "wishlist"} \/ (known /\ page \in {"home", "catalogue", "supplier"})
  /\ LET l == DrawerLine(v)
     IN /\ l.qty > 0
        /\ \/ l.qty < MaxQty /\ Send("none", "set", {v}, l.id, l.qty + 1)
           \/ Send("none", "set", {v}, l.id, l.qty - 1)

(* one more or one fewer than is shown, as an absolute quantity *)
StepLine(v) ==
  /\ page \in {"product", "wishlist"} \/ (known /\ page \in {"home", "catalogue", "supplier"})
  /\ LET l == DrawerLine(v)
     IN /\ l.qty > 0
        /\ \/ l.qty < MaxQty /\ Send("none", "set", {v}, l.id, l.qty + 1)
           \/ l.qty > 1 /\ Send("none", "set", {v}, l.id, l.qty - 1)
           \/ Send("none", "delete", {v}, l.id, 0)

(* a guest's cart on the catalogue and home page stays in the page *)
LocalLine(v) ==
  /\ Local /\ ~known
  /\ \/ local' = [local EXCEPT ![v] = IF @ < MaxQty THEN @ + 1 ELSE @]
     \/ /\ local[v] > 0
        /\ \E q \in {0, local[v] - 1} : local' = [local EXCEPT ![v] = q]
  /\ local' # local
  /\ UNCHANGED <<service, session, known, page, cache, readFor, doubt, calls, form,
                 reopened, interest>>

(* the heart of the product page saves what the cached page of the wishlist *)
(* does not have; the hearts of its cards are never disabled                *)
Heart(v) ==
  /\ page = "product" /\ known
  /\ \E b \in {"heart", "none"} :
       /\ b = "heart" => ~Busy("heart")
       /\ LET id == SavedShown("wishlist")[v]
          IN Send(b, IF id # 0 THEN "unsave" ELSE "save", {v}, id, 0)

RemoveSaved(v) ==
  /\ page = "wishlist" /\ SavedShown("saved")[v] # 0
  /\ Send("none", "unsave", {v}, SavedShown("saved")[v], 0)

(* the wrong way: the button is not disabled while its order is placed *)
CanSubmitAgain == page = "checkout" /\ known /\ form = "form" /\ CartShown # NoLines
(* handleSubmit: the order is of the lines shown *)
CanSubmit == page = "checkout" /\ known /\ form = "form" /\ CartShown # NoLines /\ ~Busy("submit")
Submit == CanSubmit /\ Send("submit", "place", {v \in Variants : CartShown[v] # NoRow}, 0, 0)

(* confirmPayment; then the cart is cleared *)
Pay ==
  /\ page = "checkout" /\ form = "pay" /\ orders.unpaid > 0
  /\ orders' = [unpaid |-> orders.unpaid - 1, paid |-> orders.paid + 1]
  /\ form' = "paid"
  /\ Use([by |-> "pay", op |-> "clear", st |-> "sent", who |-> Owner(known),
           vs |-> {}, id |-> 0, qty |-> 0])
  /\ UNCHANGED <<lines, saved, rows, session, known, page, cache, readFor, doubt,
                 local, reopened, interest>>

(* or the bank takes the tab, and it comes back on the order's page, paid or *)
(* not: nothing clears the cart                                              *)
PayElsewhere ==
  /\ page = "checkout" /\ form = "pay" /\ orders.unpaid > 0 /\ Quiet
  /\ \/ /\ orders' = [unpaid |-> orders.unpaid - 1, paid |-> orders.paid + 1]
        /\ UNCHANGED reopened
     \/ reopened' = reopened + 1 /\ UNCHANGED orders
  /\ known' = FALSE /\ form' = "form"
  /\ Open("orders", FALSE, [k \in Keys |-> Empty])
  /\ doubt' = [k \in Keys |-> FALSE]
  /\ UNCHANGED <<lines, saved, rows, session, local, calls, interest>>

-----------------------------------------------------------------------------
(* The calls                                                               *)

(* the service accepts the call and does it *)
Accepts(c) ==
  \/ /\ c.op = "add"
     /\ \E v \in c.vs :
          LET l == lines[c.who][v]
          IN IF l = NoRow
             THEN /\ rows < MaxRows /\ rows' = rows + 1
                  /\ lines' = [lines EXCEPT ![c.who][v] = [id |-> rows + 1, qty |-> c.qty]]
             ELSE /\ l.qty + c.qty <= MaxQty
                  /\ lines' = [lines EXCEPT ![c.who][v].qty = @ + c.qty] /\ UNCHANGED rows
     /\ UNCHANGED <<saved, orders>>
  \/ /\ c.op \in {"set", "delete"}
     /\ \E v \in c.vs :
          /\ c.id # 0 /\ lines[c.who][v].id = c.id
          /\ lines' = [lines EXCEPT ![c.who][v] =
                         IF c.op = "delete" THEN NoRow ELSE [@ EXCEPT !.qty = c.qty]]
     /\ UNCHANGED <<saved, rows, orders>>
  \/ /\ c.op = "save"
     /\ \E v \in c.vs :
          IF saved[v] # 0 THEN UNCHANGED <<saved, rows>>
          ELSE /\ rows < MaxRows /\ rows' = rows + 1
               /\ saved' = [saved EXCEPT ![v] = rows + 1]
     /\ UNCHANGED <<lines, orders>>
  \/ /\ c.op = "unsave"
     /\ \E v \in c.vs :
          saved[v] = c.id /\ c.id # 0 /\ saved' = [saved EXCEPT ![v] = 0]
     /\ UNCHANGED <<lines, rows, orders>>
  \/ (* the lines ordered leave the cart, all but those whose reservation ran out *)
     /\ c.op = "place" /\ orders.unpaid + orders.paid < MaxOrders
     /\ orders' = [orders EXCEPT !.unpaid = @ + 1]
     /\ \E out \in SUBSET c.vs :
          lines' = [lines EXCEPT ![c.who] =
                      [v \in Variants |-> IF v \in c.vs \ out THEN NoRow ELSE @[v]]]
     /\ UNCHANGED <<saved, rows>>
  \/ c.op = "intent" /\ UNCHANGED service
  \/ /\ c.op = "clear" /\ lines' = [lines EXCEPT ![c.who] = NoLines]
     /\ UNCHANGED <<saved, rows, orders>>

Handled(s) ==
  /\ calls[s] # NoCall /\ calls[s].st = "sent"
  /\ Accepts(calls[s])
  /\ calls' = [calls EXCEPT ![s].st = "done"]
  /\ reopened' = reopened + (IF calls[s].op = "place" /\ calls[s].by = "gone" THEN 1 ELSE 0)
  /\ UNCHANGED <<session, known, page, cache, readFor, doubt, local, form, interest>>

(* what the page does on success, and for the clearing also on failure *)
Invalidate(ks, s, r) ==
  LET back(k) == k \in ks /\ Restarts(cache[k], k \in Shows(page, known))
      old(k) == k \in ks /\ KeepsOld(cache[k], k \in Shows(page, known))
  IN /\ cache' = [k \in Keys |-> IF k \in ks THEN Invalidated(cache[k], k \in Shows(page, known))
                                 ELSE cache[k]]
     /\ readFor' = IF back("cart") THEN Owner(known) ELSE readFor
     /\ doubt' = [k \in Keys |-> (doubt[k] \/ old(k))]
     /\ calls' = [calls EXCEPT ![s] = r]

(* handlePaymentSuccess: then to the page of the order, or, signed out since, *)
(* to the login page                                                          *)
Cleared(s) ==
  /\ page' = IF session THEN "orders" ELSE "login"
  /\ LET c == [cache EXCEPT !["cart"] = Invalidated(@, "cart" \in Shows(page, known))]
     IN /\ cache' = [k \in Keys |-> IF k \in Shows(page', known) THEN Observed(c[k]) ELSE c[k]]
        /\ readFor' = IF cache'["cart"].fetch = "sent" THEN Owner(known) ELSE readFor
  /\ doubt' = [doubt EXCEPT !["cart"] = (@ \/ KeepsOld(cache["cart"], "cart" \in Shows(page, known)))]
  /\ calls' = [Left EXCEPT ![s] = NoCall]
  /\ form' = "form" /\ reopened' = reopened + Dropped
  /\ local' = [v \in Variants |-> 0]
  /\ UNCHANGED <<service, session, known, interest>>

Succeeded(s) ==
  LET c == calls[s]
      ended == [calls EXCEPT ![s] = NoCall]
  IN /\ c # NoCall /\ c.st = "done" /\ c.op # "clear"
     /\ \/ /\ c.op \in {"add", "set", "delete", "save", "unsave"}
           /\ Invalidate(Key(c.op), s,
                IF c.by = "heart" /\ "wishlist" \in Shows(page, known)
                THEN [c EXCEPT !.st = "settling"] ELSE NoCall)
           /\ UNCHANGED form
        \/ /\ c.op = "place"
           /\ calls' = [calls EXCEPT ![s] = [c EXCEPT !.op = "intent", !.st = "sent"]]
           /\ doubt' = [doubt EXCEPT !["cart"] = TRUE]
           /\ UNCHANGED <<cache, readFor, form>>
        \/ /\ c.op = "intent" /\ calls' = ended
           /\ form' = IF c.by = "submit" THEN "pay" ELSE form
           /\ UNCHANGED <<cache, readFor, doubt>>
     /\ UNCHANGED <<service, session, known, page, local, reopened, interest>>

(* refused, or never heard of again: done or not, the page sees an error *)
Failed(s) ==
  LET c == calls[s]
  IN /\ c # NoCall /\ c.st \in {"sent", "done"} /\ c.op # "clear"
     /\ calls' = [calls EXCEPT ![s] = NoCall]
     /\ doubt' = [k \in Keys |-> (doubt[k] \/ (c.st = "done" /\ k \in Key(c.op)))]
     /\ reopened' = reopened +
          (IF c.by = "submit" /\ (c.op = "intent" \/ c.st = "done") THEN 1 ELSE 0)
     /\ UNCHANGED <<service, session, known, page, cache, readFor, local, form, interest>>

ClearEnds(s) ==
  calls[s] # NoCall /\ calls[s].op = "clear" /\ calls[s].st \in {"sent", "done"} /\ Cleared(s)

-----------------------------------------------------------------------------
ShopInit ==
  /\ interest \in Interests
  /\ \E had \in IF interest = "cart" \/ MaxRows = 0 THEN {{}} ELSE SUBSET Variants :
       /\ rows = IF had = {} THEN 0 ELSE 1
       /\ saved = [v \in Variants |-> IF interest = "wishlist" /\ v \in had THEN 1 ELSE 0]
       /\ lines = [o \in Owners |-> [v \in Variants |->
                    IF o = "buyer" /\ interest = "order" /\ v \in had
                    THEN [id |-> 1, qty |-> 1] ELSE NoRow]]
  /\ orders = [unpaid |-> 0, paid |-> 0]
  /\ session = FALSE /\ known = FALSE /\ page = "login"
  /\ cache = [k \in Keys |-> Empty] /\ readFor = "guest"
  /\ doubt = [k \in Keys |-> FALSE] /\ local = [v \in Variants |-> 0]
  /\ calls = [s \in Slots |-> NoCall]
  /\ form = "form" /\ reopened = 0

Controls ==
  \/ /\ interest = "cart"
     /\ \E v \in Variants : AddToCart(v) \/ CardAdd(v) \/ StepLine(v)
  \/ /\ interest = "order"
     /\ Submit \/ Pay \/ PayElsewhere 
        \/ \E v \in Variants : LocalLine(v) \/ (cache["cart"].data = NoData /\ StepLine(v))
  \/ /\ interest = "wishlist"
     /\ \E v \in Variants : Heart(v) \/ RemoveSaved(v)

CallEnds(s) == Succeeded(s) \/ Failed(s) \/ ClearEnds(s)

ShopNext ==
  \/ \E p \in Pages[interest] : Visit(p)
  \/ TurnedAway \/ Load \/ Initialised \/ SignIn \/ SignOut
  \/ \E k \in Keys : Answer(k) \/ Arrive(k) \/ LoadFails(k) \/ Age(k)
  \/ Focus \/ ChangeElsewhere
  \/ Controls
  \/ \E s \in Slots : Handled(s) \/ CallEnds(s)

ShopSpec == ShopInit /\ [][ShopNext]_shopVars

(* every call of a control, and every read of the list the heart waits for, *)
(* is answered or fails in the end                                          *)
ShopFairness ==
  /\ WF_shopVars(Answer("wishlist") \/ LoadFails("wishlist"))
  /\ WF_shopVars(Arrive("wishlist") \/ LoadFails("wishlist"))
  /\ \A s \in Slots : WF_shopVars(Handled(s) \/ CallEnds(s))
ShopFairSpec == ShopSpec /\ ShopFairness

-----------------------------------------------------------------------------
(* Properties                                                              *)

(* Every variable has its type. *)
ShopTypeOK ==
  /\ lines \in [Owners -> Lines] /\ saved \in Saved /\ rows \in 0 .. MaxRows
  /\ orders \in [unpaid : 0 .. MaxOrders, paid : 0 .. MaxOrders]
  /\ session \in BOOLEAN /\ known \in BOOLEAN /\ page \in AllPages
  /\ \A k \in Keys : cache[k] \in Entry(Data(k))
  /\ readFor \in Owners /\ doubt \in [Keys -> BOOLEAN]
  /\ local \in [Variants -> 0 .. MaxQty]
  /\ calls \in [Slots -> Call \cup {NoCall}]
  /\ form \in {"form", "pay", "paid"} /\ reopened \in Nat /\ interest \in Interests


(* What a page shows as fresh is what the service has: an entry that is not *)
(* stale and not being read again equals the service's state for the        *)
(* visitor, once every change the service accepted has been answered.       *)
(* doubt names the only excuses: the reply of a change was lost, an order   *)
(* was placed (it takes the lines, and nothing is read again before it is   *)
(* paid), something else changed the lines, an entry was read for somebody  *)
(* else (sign-in and sign-out leave the cache), or a change ended while a   *)
(* first load was on its way (that load is kept).                           *)
Settled(k) == ~doubt[k] /\ \A s \in Slots :
  calls[s] # NoCall => ~(calls[s].st = "done" /\ k \in Key(calls[s].op))
FreshIsTrue == \A k \in Keys :
  Settled(k) /\ ~cache[k].stale /\ cache[k].data # NoData
    => cache[k].data = Truth(k, Owner(known))

(* No order is placed behind the visitor's back: an order that is not paid  *)
(* is the one in the checkout, or one whose checkout the visitor left, or   *)
(* saw an error of, after it was placed.                                    *)
OrdersAccounted == orders.unpaid <= reopened + Dropped

(* A control that waits for the service is free again in the end, also the  *)
(* one that waits for the refetch its own change started.                   *)
CallsEnd == \A s \in Slots : calls[s] # NoCall ~> calls[s] = NoCall

(* A signed-in buyer with nothing on its way sees the buyer's cart where    *)
(* the cache calls it fresh.                                                *)
BuyerSeesCart ==
  known /\ (\A s \in Slots : calls[s] = NoCall) /\ cache["cart"].fetch = "idle"
        /\ ~cache["cart"].stale /\ cache["cart"].data # NoData /\ "cart" \in Shows(page, known)
    => cache["cart"].data = lines["buyer"]
=============================================================================
