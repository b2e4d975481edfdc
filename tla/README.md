# Provena: TLA+ specifications

Provena is a marketplace for food suppliers: a Django/PostgreSQL service
(`src/provena-api`) with Celery workers and a Next.js storefront
(`src/provena-web`). This directory specifies, in TLA+,

- the service's transactional core: stock, carts, checkout, the life of an
  order, returns and their refunds;
- the storefront's use of it: who is signed in and where the routes let them,
  cart, wishlist and checkout through the query cache, and the pages of
  buyers, suppliers and admins that follow or change an order, a return,
  addresses, notifications, preferences, products, suppliers and banners.

Both are model-checked with TLC on small instances. The invariants of stock,
carts, orders, returns, the session, the shop and the order and office pages
are proved with TLAPS for every instance, and so is that the whole of the orders
implements an abstract ledger of stock.

## 1. The system

### The service

| part | state | operations | what makes it hard | must hold | here |
|---|---|---|---|---|---|
| inventory | one `StockLevel` row per variant: available, reserved; movement log, lots | receive, adjust, reserve, release, dispatch, return | called by every other part inside its transaction | no negative counter, no unit counted twice | `Inventory` |
| carts | `CartItem`, `CartReservation` (30 min) per buyer or guest session | add, update, remove, clear, merge at sign-in; expiry task | the task works on ids read earlier, in many transactions; requests of one buyer overlap; READ COMMITTED joins | reservation = line = stock held; abandoned stock comes back | `Carts` |
| orders | `Order`, a `SubOrder` per supplier, `OrderItem` | place, confirm, dispatch, deliver, cancel | status tested outside the lock; order status derived from rows other suppliers are changing | units move once; statuses move forward; order agrees with its sub-orders | `Orders` |
| returns, refunds | `OrderReturn`, `ReturnItem`, `PaymentRefundRequest`, the payment's totals | request, approve, reject, refund in three phases; refund of a payment; refund webhook | provider calls between transactions, joined and retried calls, an idempotency key made of the amount | refunded and restocked once, never more than bought | `Returns` |
| addresses | `Address` | create, update, set default, delete | several statements without a transaction | one default | `Addresses` |
| notifications, preferences | `Notification`, `NotificationPreference` | notify, read, read all, dismiss; set | - | - | `Bell`, `Preferences` |
| catalogue | `Product`, variants, categories, banners, search index | CRUD, feature, bulk change, import from a file | import without a transaction | a file is imported whole | `Products`, `Upload`, `Banners` (import, status, featured, banners) |
| wishlist | `WishlistItem` | save, remove | - | - | `Shop` |
| order status push | a channel group per order | ticket, join, push on commit | a socket that is not there yet, or any more | - | `OrderPage` |
| accounts | users, attempt counter in the cache, refresh tokens, reset tokens | sign-in, second factor, refresh, sign-out, lockout, reset | rotation and blacklist of refresh tokens; unlocked read-modify-write of the counter | lockout at the limit; token used once | refresh tokens, in `Session` |
| payments | `Payment` | intent, success and failure webhooks | duplicated and reordered webhooks | never paid and cancelled | refunds only |
| payouts | `Payout` | create, process (task), reverse | 10-minute takeover of a stuck worker; reversal during transfer | paid once; never paid after a full refund | reversal only |
| discounts, pricing | `DiscountCode`, `DiscountRedemption`; none | resolve, redeem; split a total | caps under concurrency; rounding | cap kept; parts add up | no |
| disputes | `Dispute`, events | open, respond, escalate (task), resolve, close | task races with a reply | no step back; refund once | no |
| courier delivery | `CourierDelivery` | quote, book, status webhooks | external order of events | delivered once; fee refunded on failure | no |
| suppliers | `Supplier` | register, approve, reject, suspend, commission rate | any decision is taken on any status | an application is decided once | decisions and rate, in `Applications` |
| reviews, analytics, ops | rows, output | CRUD, export, reports | little interaction | - | no |

Carts and orders call the inventory functions inside their own transactions.
Checkout takes over cart reservations. A delivery triggers a payout; returns,
disputes and failed couriers call refunds, which call payout reversal.
Payments reach orders only through `order.status == PENDING` when an intent is
made.

### The storefront

| part | state | operations | what makes it hard | must hold | here |
|---|---|---|---|---|---|
| session | the auth store (memory, lost on a page load); the refresh cookie; httpOnly copies of role and second factor the middleware gates by | initialise, sign-in, second factor, registration, sign-out, refresh with its queue, change of own profile, middleware, guard | three copies of one fact, updated by separate calls that overlap, fail or are not awaited | the copies agree again; nobody with a session is signed out; no call waits for ever | `Session` |
| query cache | per key: data, stale, request under way | observe, invalidate, load, age | a request under way may be older than the change; a first load is kept | fresh = the service's | `QueryCache`, `Loading` |
| cart, wishlist, checkout | cache entries, calls of the controls, the checkout's step, the guest's local cart | add, steppers, hearts, place order, pay, clear | entries not keyed by owner; lost replies; an order placed whose payment is not | what is shown as fresh is true; no order behind the visitor's back | `Shop` |
| order pages | order, list and rows entries; the socket | follow, cancel, confirm, dispatch; ask for, decide, refund a return | pushes that nobody hears; forms kept open over newer data | pages follow; a return is decided once | `OrderPage`, `Returns` |
| office pages | entries and forms of addresses, bell, preferences, products, import, suppliers, banners | see the components | changes of a tab that is not shown; an answer put into the cache; a file replaced during its preview; a form sent with what a row showed | pages follow; a button does what it offered; a form changes what was edited | `Addresses`, `Bell`, `Preferences`, `Products`, `Upload`, `Applications`, `Banners` |
| other pages | one entry and one form each | users, categories, analytics, disputes, reviews, search | - | - | no |

### Hazards

`PROJECT.json` lists them, each with its line and the properties about it, or
why there are none. These are real too and lie outside the models:

- service: an order never paid keeps its stock (`orders/services.py:262`); two
  checkouts and the last use of a discount code (`:132`); pennies of a split
  (`orders/pricing.py:31`); a partial return after the payout was reversed
  (`payments/services.py:393`); the fee after a courier's failure
  (`delivery/services.py:126`); a reset token used twice at once
  (`accounts/services.py:184`).
- session: a profile change's `getMe` answered after sign-out puts the user back
  into the store (`store/auth.ts:73`; `Calm` keeps it out of `StoreMatchesJar`);
  `POST` and `DELETE /session-sync` overtaking each other (`:23`; `InOrder`). Both
  happen in the module with the constant `FALSE`. Two
  sign-ins at once, from a form left and one opened after it, are beyond the bound.
- cart and checkout: a page load of `/checkout` is turned away before the
  session is known (`checkout/page.tsx:228`); `clearCart` after payment takes
  lines another tab added (`:216`); a payment confirmed on the bank's page
  never runs the success handler (`:113`); the drawer's steppers send the
  quantity shown, several at once (`cart-drawer.tsx:151`); the guest's local
  hearts and cart (`catalogue/_client.tsx:194`, `:165`); the product card's own
  copy of "saved" (`product-card.tsx:33`).
- orders and returns: a return of everything names no lines, so it takes
  nothing from what may be returned (order page `:81`); the tracking number
  typed for one row goes out with another (`supplier/orders/page.tsx:135`); the
  order page reads `sub.disputes`, which the serializer does not send (`:73`);
  a row in REFUNDING has no button after a reload (`admin/returns/page.tsx:70`).
- products: closing the import by its X does not refresh the list
  (`supplier/products/page.tsx:72`).
- suppliers and banners: the storefront calls an approved supplier "ACTIVE"
  (`lib/api/types.ts:274`) and the service "APPROVED" (`suppliers/models.py:11`),
  so the page's "Active" tab stays empty; the service approves a rejected
  supplier and rejects an approved one (`suppliers/services.py:103`, `:121`); Enter in the
  rate's cell sends again while a call is under way (`admin/suppliers/page.tsx:50`);
  the success of a switch closes a banner's form and what was typed in it
  (`admin/banners/page.tsx:135`), which is also what keeps the form from
  throwing the switch back.
- a refund report with an older total (`payments/services.py:111`); entries of the
  query cache that outlive a sign-out (`(auth)/login/page.tsx:41`), which `Shop` has.

## 2. Modules

The service:

| module | what it is |
|---|---|
| `Inventory` | operators on one `StockLevel` row (`CanReserve`/`Reserve`, ...) and the suppliers' two stock actions |
| `Carts` | extends `Inventory`: both cart tables, all cart requests, the expiry task; `CartSpec`, `FairCartSpec` |
| `Orders` | extends `Carts`: orders, sub-orders, their lines, and the requests under way; `Spec` |
| `StockLedger` | the abstract promise: a unit is free, set aside for one holder, or shipped |
| `Returns` | the returns of one sub-order, the refund calls, the refund ledger, the provider's keys, the payout; with the forms of the three pages that work on them |

The storefront, with what it needs of the service:

| module | what it is |
|---|---|
| `Session` | auth store, refresh cookie, gate cookies, initialise, API client and its queue, sign-in, sign-out, change of profile |
| `QueryCache` | operators on one cache entry: observe, read, load, age, invalidate |
| `Shop` | cart, wishlist and checkout of one tab over three entries, the service's carts, wishlist and orders |
| `Loading` | extends `QueryCache`: the entries of one desk, and `untold`, what no one tells the page |
| `OrderPage` | one order seen by the buyer's list and page with its socket, or by a supplier's rows |
| `Addresses` | the address book; the service's calls statement by statement |
| `Bell` | the notification bell of every page |
| `Preferences` | the e-mail preferences |
| `Products` | the admin's products: tabs, star, bulk change |
| `Upload` | the supplier's import from a file |
| `Applications` | the admin's suppliers: approving and rejecting from a panel, the commission rate in its cell |
| `Banners` | the admin's banners: switch, form, deletion |
| `Desks` | composes `Returns`, `OrderPage` and the pages above |

`MCCarts`, `MCOrders`, `MCSession`, `MCShop`, `MCReturns`, `MCDesks` are
instances for TLC; `CartsProofs`, `OrdersProofs`, `ReturnsProofs`,
`SessionProofs`, `ShopProofs`, `PagesProofs` and `DesksProofs` hold the theorems,
`Sums` the lemmas about sums that they share.

`Orders` composes the three modules it rests on: its next step is a cart step, a
checkout or a step of an order request. `Ledger == INSTANCE StockLedger WITH`
maps each cart line and each sub-order to a holder; `LedgerKept` says that the
whole implements it, which is checked and proved.

`Desks` composes parts whose rows in the service do not touch each other:
addresses, notifications, preferences, products, suppliers, banners. Interleaving
them would only multiply their states, so one desk is worked at, chosen by `Init`, and the others
rest. The returns are three desks, because the requests, decisions and refunds of
one return do touch: at each, the calls of one actor cross freely while the
others do one thing at a time (`DecidesPlainly`, `RefundsPlainly`). The decisions
on suppliers and their rates are two desks: they write different fields of a row,
one at a time. Because the variables of the other desks rest, a state is told
apart by those of its own desk (`DeskView`).

### What is a step

In the service, a function that takes the row locks before it reads what it uses
is one action: with two-phase locking its effect is that of its commit. A check
that fails raises, and the transaction leaves nothing; it is a guard. A deadlock
victim or a lost worker also leaves nothing. The exceptions are steps of their
own:

- `clear_cart` (`marketplace/services.py:123`) locks `CartItem` rows of a SELECT
  that joins reservations. If it waits for a lock, PostgreSQL re-reads the item
  only. `ClearRead` is the statement's snapshot, `ClearCommit` what is done with it.
- the expiry task (`marketplace/tasks.py`) reads ids (`ExpiryScan`), then treats
  each in its own transaction (`ReleaseExpired`, `SkipExpired`), or dies (`WorkerLost`).
- an order request: `ReadSubOrder` or `CheckCancel` and `ReadForCancel` (what the
  view and the service read and test without a lock), `DeriveStatus` (sub-orders
  updated, hence locked, and `_sync_order_status` reads all of them), `Commit`.
  `RowsLocked` is the wait for a sub-order another transaction has updated.
  A supplier's dispatch takes its stock rows before it derives; only other
  orders use these rows, and the derivation does not read them, so counting the
  stock at the commit is the same.
- a return request is validated (`CheckReturn`) and inserted (`CreateReturn`); a
  decision reads the row (`ReadReturn`) and saves over it (`SaveDecision`).
- a refund is `process_return_refund`'s three transactions and the provider calls
  between: `ClaimRefund`, `Book`, `Charge` or `ChargeFails`, `Reverse`, `Finish`;
  `Stopped` is a failure or a dead process that nothing answers for. `ChargeFails`
  lets go of the request if the provider refused or its answer was lost; if the
  intent could not be read (`PaymentIntent.retrieve` is outside the `try`) or the
  outcome not be saved, the request stays PENDING and its amount booked, while the
  claim on the return is given up all the same. An admin's
  refund of a payment (`RefundPayment`) goes through `Book` and `Charge` alike.
- an address call is `ReadRow`, `ClearDefaults`, `WriteRow`, `Successor`,
  `MarkDefault`, of which each kind has its own.
- an import creates its products one by one (`StartImport`, `CreateOne`,
  `EndImport`, `ImportRaises`).

In the storefront, a handler runs to its next `await`; a call is sent, handled by
the service and answered, or fails at either place: `...Fails` of a call that was
handled is a lost reply. `await` on a promise of `invalidateQueries` is a wait of
its own ("settling"). A page that is left takes its controls and forms with it and
not its calls: `LeaveOrder`, `LeaveRow`, `LeaveProducts`, `LeaveApplications` and
`LeaveBanners` open it again with free controls while the calls go on (in the last
three as if somebody else had made them, which they may by then as well be).
In `Session` refreshing, `/session-sync`, the profile change
and sign-out are such calls, and the access token has an age only.

### Excuses

Many promises of the pages hold up to a fact nothing in the code reacts to. Such
facts are recorded in variables no guard of the code reads, set exactly where
the fact happens, and each property names its own:

| variable | set by |
|---|---|
| `missed` (`Session`) | a call that bears on the session failed, and no page load, and no sign-in with nothing else under way, has mended it since |
| `doubt` (`Shop`), `untold` (`Loading`) | a change nobody tells the entry of: a lost reply, a change made elsewhere, an invalidation that kept an older request; cleared by the next answer |
| `reopened` (`Shop`) | a checkout left, or back at its form, with an order placed and not paid: counted |
| `behind`, `sure`, `meant` (`Products`) | whether the star could know what it toggles (a page left and opened again waits neither for its call nor for the tab), and whether it then did what it offered |
| `disturbed` (`Addresses`), `torn`, `hurried` (`Upload`) | two calls crossed or one broke off; a file picked during a preview |
| `outdated`, `sure`, `muddled` (`Applications`), `behindList`, `keeps` (`Banners`) | whether a panel or form was opened on a list read since the last change, and nothing of another admin, or of a page left since, has crossed it; two rates entered at once, or one refused |
| `excused` (`Returns`) | `left`: the row was left with a decision under way; `split`: a claim given up when money may have gone; `stuck`: a refund stopped after its charge; `overlap`: two return requests at once |

The excuses are the most useful reading of these modules for a maintainer: they
list what has to go right for the page to be right. What they excuse is not
caught: of the hazards listed, a lost reply in the shop (`doubt`), an order placed
and not paid (`reopened`), two return requests at once (`overlap`), a claim given up
when money may have gone (`split`), a row left with a decision under way (`left`),
an event the socket misses and a list nobody tells (`untold`), a second file picked
during a preview (`hurried`), an import that breaks off (`torn`), and crossing
address calls (`disturbed`) do break the promise, and the property says that nothing
else does.

### Abstractions

- Time is one bit per reservation (live until `Elapse`), per cache entry
  (`stale`), per access token.
- Row ids are not reused while something in flight refers to them (`Fresh`).
- Two lines of one variant in an order are their sum: the second line finds the
  cart line gone and reserves. When their sum exceeds the cart's reservation
  the order in which it is released and reserved differs, the result does not.
- Left out of `Inventory`: movement log, lots, low-stock alert (never read back
  by a level), the 32-bit width of the counters; `return_stock` is counted per
  return in `Returns`. Left out of carts and orders: a variant's `is_active`,
  prices, discounts, courier quotes, shipping data.
- `cancel_order` derives the status after each sub-order; the model derives once,
  after the last. With every sub-order cancelled, both end in CANCELLED.
- The courier's delivered event is one more `ReadSubOrder` with "deliver".
- `Returns`: one item of price 1 and a shipping cost; the fourteen days have not
  passed; refund webhooks arrive in order; the provider refunds a key once.
- `Session`: calls sent with a live token change nothing and are left out, names
  and passwords are not data. Bounds: one account; one sign-in under way, one
  sign-out, one change of the profile; when a sign-in is answered the calls on
  their way carry at most one refresh cookie that the browser has replaced since.
  The service's `/auth/logout/` does what it does whenever it comes, before or
  after the sign-in that follows, and so does initialise()'s `DELETE`.
- `Shop`: one visitor is after one thing (cart, order or wishlist), so that the
  three add up instead of multiplying; cart lines are ids and quantities. A page
  load, and the bank's page that ends in one, come with no call of the tab on its
  way; sign-in and sign-out come at any time.
- `OrderPage` is one tab, of the buyer or of a supplier; the other acts as
  `Elsewhere`. The races of the service's writes are in `Orders`; here a
  handler is one step.

### Assumptions that are constants

| constant | meaning | status |
|---|---|---|
| `SerialBuyers` (`Carts`) | a buyer sends no other cart request while `clear_cart` on that cart is outstanding | the storefront behaves so in one tab; nothing in the service enforces it |
| `Overlap` (`Orders`) | which requests on one order may be under way together: "none", "suppliers" (on different sub-orders), "any" | the service allows "any" |
| `BootAlone` (`Session`) | before `initialise()` is done no page sends a protected call and no form is submitted | the account, supplier and admin pages send theirs at once, and the sign-in form waits for its own call only |
| `Calm` (`Session`) | the visitor signs out and loads a page only while no call that bears on the session is outstanding; signs in only while no call of a page, refresh or change of the profile is; changes the profile while no form waits | the buttons wait for their own calls only |
| `InOrder` (`Session`) | answers that set cookies come in the order of their calls: those of `/session-sync`, and a sign-out's before that of the sign-in it overlaps with | nothing waits for the sign-out's; one connection usually keeps the order |

The passing runs use `TRUE` and "suppliers". Violation runs lift the first three and
the last and show what then happens, and section 3 how to see it for `Calm`;
`OrderStatusDerived` fails under "suppliers" already.

## 3. Runs

| run | shows | bounds |
|---|---|---|
| `carts` (91,656 states) | `ReservationMatchesItem`, `OneLinePerVariant`, `CartStockBacked`, `RenewedLineKept`, `UnitsKept`, and under fairness `AbandonedCartReleased` | a guest and a buyer, two variants of 2 units, 3 row ids, requests of 1 or 2 units |
| `orders` (264,210 states) | `ReservedIsHeld`, `OrderNotAhead`, `SubOrdersForward`, `LedgerKept` | one order over two suppliers (2 and 1 units), one cart line, two request handlers |
| `session` (645,349 states) | `StoreMatchesJar`, `GateMatchesStore`, `QueueServed`, `LandsWhereSent`, and under fairness `RequestsSettle` | an account that becomes a supplier or gains a second factor, two API calls, one expiry, two `/session-sync` calls; on each page one or two of its links |
| `shop` (647,529 states) | `FreshIsTrue`, `OrdersAccounted`, and under fairness `CallsEnd` | one variant, lines of up to 2 units, one row, two orders, two calls at once, changes from elsewhere; one or two pages per interest and those they lead to |
| `desks` (3,946,086 states) | returns: `RestockedOnce`, `ChargedOnce`, `ReturnedWithinOrdered`, `ClaimHeld`, `DecidedOnce`; pages: `OrderPageFollows`, `OneDefault`, `AddressesFollow`, `NotificationsFollow`, `ImportsWhatIsShown`, `ImportedWhole`; the admin's: `StarMeans`, `ProductsFollow`, `DecidedWhilePending`, `RateAsEntered`, `FormKeepsSwitch` | two of each: returns, return requests, refund calls, units, sub-orders, addresses and calls on them, notifications, kinds of e-mail, SKUs, uploads, tabs, suppliers, rates and calls that set one, updates of banners; one call on a notification, one product, one banner that changes and one that is made; amounts: the default, or 2 |
| `clear_race` | violation of `CartStockBacked` with `SerialBuyers = FALSE` | as `carts` |
| `status_race` | violation of `ReservedIsHeld` with `Overlap = "any"` | as `orders` |
| `derived_race` | violation of `OrderStatusDerived` with `Overlap = "suppliers"` | as `orders` |
| `reload_race` | violation of `StoreMatchesJar` with `BootAlone = FALSE` | one API call |
| `late_logout` | violation of `StoreMatchesJar` with `InOrder = FALSE` | one API call |
| `cart_reload` | violation of `BuyerSeesCart` | one unit, one call |
| `equal_refunds` | violation of `RefundPaid` | two approved returns of one unit each, one refund call |

Why the bounds are enough to be interesting:

- `carts`, `orders`: requests of two units against stock of two make
  every reservation contended and every update go both up and down; three row
  ids let both carts hold the same variant and another one at a merge, and let a
  row be replaced while a clear or an expiry run remembers it; two suppliers with
  different stock give partially dispatched and partially cancelled orders; two
  handlers give every overlap of two requests. Two buyers with orders of their own
  are left to the proof of `KeepsLedger`; in `carts` two carts do compete.
- `session`: two calls are one that owns the refresh and one that
  queues, before and after the other's answer; two `/session-sync` calls are those
  of a sign-out and of the sign-in or change before or after it.
- `shop`: two calls give a change whose refetch meets another change; two orders
  are one left behind and one placed after it; a row that comes and goes is
  enough for a call on a line that is no longer there.
- `desks`: two refund calls give a call that joins, one that retries, and one
  that fails while the other goes on; with two units and a shipping cost the
  return of one, of both and of everything are worth 1, 3 and 3, so returns
  share a key or do not. Two tabs are one shown and one that is not; two updates
  of one banner cross.

No symmetry is used. `desks` and `equal_refunds` do not look for deadlocks:
everybody may stop.

What the violation runs show (all but the last two need two calls in flight at once):

- `clear_race`: a buyer's line is enlarged while `clear_cart` waits for it. The
  old quantity is released, both rows are deleted: the difference stays reserved
  for nobody and no expiry run can find it. If the line was reduced instead, units
  of other carts are released. `DECISIONS.md:65`: "PostgreSQL's row-level
  locking handles stock reservation correctly."
- `status_race`: a confirmation read PENDING, a dispatch commits, the
  confirmation writes CONFIRMED. The units left the warehouse and the sub-order
  claims to hold them, so it can be dispatched, or its stock released, again.
  `DECISIONS.md:59`: "stock reservation must not double-count under concurrent
  requests".
- `derived_race`: two suppliers confirm together; each derives from the other's
  old status and the order stays PENDING. `BRD.md:126`: "the parent order status
  is derived from its sub-orders". With `Overlap = "none"` the property holds.
  What survives is `OrderNotAhead`: it may lag, never run ahead.
- `reload_race`: a page load under `/account` sends its query at once; the 401
  makes the API client refresh with the cookie `initialise()` is refreshing with.
  The cookie is good for one, the other is refused and empties the store: a
  visitor with a good session is signed out. `DECISIONS.md:154`: "the frontend
  refreshes silently".
- `late_logout`: the visitor signs out and in again; the answer to the sign-out,
  which nobody waits for, comes last and removes the new refresh cookie. The next
  page load signs the visitor out. `TRD.md:120`: "login returns an access token +
  sets the HttpOnly refresh cookie".
- `cart_reload`: after a page load the cart is asked for before there is a token,
  so the guest's is answered, cached under `['cart']` and fresh for a minute when
  the buyer appears. `USER_JOURNEYS.md:20`: "Cart persists by session for guests,
  by account when logged in".
- `equal_refunds`: the refund's key is the payment and the amount. A second
  return worth the same finds its refund done already: it is restocked and
  REFUNDED, and the buyer gets nothing for it. `USER_JOURNEYS.md:45`: "on approval
  the refund is issued and the returned units restock".

Two more traces come of other values in `MCSession.cfg`:

- `Calm = FALSE` breaks `StoreMatchesJar`: a call refreshes, and before the answer is
  there the visitor signs out. The service has rotated the cookie already, so it
  revokes the old one; the answer brings the new one into the browser after all
  (`lib/api/client.ts:62`). `BRD.md:67`: "Session revocation on password change or
  explicit logout".
- `BootAlone = FALSE`, with `GateMatchesStore` the only invariant: the visitor signs in
  while `initialise()` waits for its refresh. That is refused, and its catch
  block clears the gate of the session just begun (`store/auth.ts:104`).
  `store/auth.ts:20`: "Await these before navigating so the middleware sees the
  new/cleared session."

With all three `FALSE`, `Kinds = {}` and a link to the sign-in page on every page, `QueueServed`,
`LandsWhereSent` and `RequestsSettle` hold still; the first two are proved with no
assumption (section 4).

### Fairness

- `carts`: weak fairness of `ExpiryScan` (Celery beat queues the task every 300 s,
  `config/settings/base.py:294`) and strong fairness of `ReleaseExpired(i)`: an id
  scanned again and again is not always lost with its worker. Nothing is assumed
  of buyers.
- `session` (`FairSpec`): a call sent is answered or fails (a browser gives up
  on a connection), one condition per API call, per refresh at the service, for the
  client's own refresh, for `initialise()` and for `/session-sync`. No visitor has
  to do anything. For the end of the client's refresh it is strong fairness: a
  failed one sends a `DELETE`, which only the bound `MaxSyncs` can make wait, and
  while forms are submitted and answered for ever that bound is reached and left
  again; the code has no such bound. `RequestsSettle` needs the repeat of a call to be bounded, which
  the interceptor's `_retry` and the bound on expiries give.
- `shop` (`ShopFairness`): a call is handled, fails or ends, and a request of the list
  the heart waits for is answered and arrives, or fails. Nothing is assumed of
  the other entries.
- Order requests, returns and the desks have none: a supplier may never act.

## 4. Proofs

The proof modules hold for all sets of variants, carts, items, suppliers,
orders, handlers, API calls, returns, refund calls, addresses, notifications,
products, SKUs, applicants and banners, and for all bounds. They rest on the
named ASSUMEs of the specifications, which TLC evaluates in every run:

- initial stock is natural, every variant has a supplier, a return is of at least
  one unit, the amounts typed lie within the payment, the page's sub-order is one;
- the tables that sums range over are finite: `ItemIds`, `OrderIds`, `Suppliers`,
  `ReturnIds`, `Notes`. The operations of the code on them are otherwise
  unbounded;
- `None`, `NoAddress`, `NoData` are not one of the things they stand beside, and a
  row of the cart table is not taken for a sub-order (`KeysAssumption`);
- somebody may refund, and may leave the amount blank (`DesksAssumption`: without
  it one desk would have no state to begin in).

Where a theorem needs an assumption the code does not guarantee it is a
hypothesis in its statement: `SerialBuyers` in `StockBacked`, `Overlap # "any"` in
`NotAhead`, `Forward`, and both in `ReservedHeld` and `KeepsLedger`; `Calm`,
`BootAlone` and `InOrder` in `StoreMatches` and `GateMatches`. The traces
of section 3 show that each of them is needed: none can be dropped from `StoreMatches`.
Everything else holds whatever the constants are.

`Sums`: `SumFunctionOnSet` and `SumSet` of the community modules are folds, that
is recursive functions, and what they compute is a matter of induction over a
finite set. The induction schemas of the library cannot be used, as they take an
operator; `Smallest` replaces them: any set of subsets of a finite set has a
smallest one. A set on which a claim fails would have a smallest such subset,
which one unfolding of the fold refutes. What the proofs of the components use is
`SumElement` (any element may be counted first) and what follows from it: the sum
after one element is added (`SumAdd`) or has changed (`SumChange`).

`CartsProofs`: the invariant `CartInv` = types, `ReservationMatchesItem` and
`OneLinePerVariant`. It is inductive as it stands: each cart action writes an item
and its reservation together, and a merge relies on uniqueness in both carts to
know that it joins two lines only. It needs neither `SerialBuyers` nor fairness.
Two action properties follow from it: `RenewedKept` and `UnitsConserved`.
`StockBacked` (what a level has reserved is what the lines hold) is by `StockInv`,
which adds `ClearingAgrees`: the quantities an outstanding clear has read are those
its lines still have. Each step moves `reserved` by as much as it moves the sum
of the lines (`WeightsMove`); for all steps but the commit of a clear this is
read off the step, for that one it is `ClearingAgrees`.

`OrdersProofs`: `BaseInv` adds the order tables' types and holds for any
`Overlap`; it gives `OrderTypes` (no stock counter negative) and
`CheckoutKeepsReservations`. For `Overlap # "any"`, `NotAhead` and `Forward` rest
on `FlowInv`:

- requests in flight touch different sub-orders (`Apart`);
- so what one has seen of its sub-orders is still so (`SeenIsCurrent`), which
  `OrderNotAhead` alone does not say and a commit needs: it writes a status
  checked against the one seen;
- a status already derived is not above any sub-order as it will be after the
  commit (`DerivedNotAhead`): another commit only raises sub-orders;
- an order ranks below each of its sub-orders (`OrdersInv`).

`DerivedRank` says that `_sync_order_status` computes a minimum: k is at most the
rank of the derived status exactly if it is at most that of every sub-order.

`ReservedHeld` puts carts and orders together (`HeldInv`): what is reserved is
what lines and open sub-orders hold. A commit ships or gives back what its
sub-orders held because what it has seen is still so, and was a status its
request may start from (`StartsInv`). `KeepsLedger` is the refinement
`Spec => Ledger!Spec`: every step maps to a stutter of `StockLedger` or to a step of it, which for
each variant is units changing hands (any reservation, release or checkout, of
any number of rows) or a shipment of what one sub-order holds.

`ReturnsProofs`: the invariant `Inv` for any number of returns and calls is made of

- `Types`;
- `One`: a row that was not left has one decision out, and while it has been
  read the return is still REQUESTED: the decision saves over a status nobody
  else can have changed;
- `Called`: a refund works on a return that was approved, so that a decision never
  meets one;
- `Held`: a return that is REFUNDING has a call that owns the claim or is past
  its charge. `ClaimHeld` alone, which only says that some call works on it, is
  not inductive: if that call had joined, its failure would end nothing;
- `RestockedOnce`, which `Finish` keeps because it tests the status under the lock.

`Restocked` and `Claim` follow from it, `DecisionHolds` is an action property of it.
`Charged` needs more (`Settled`): as long as no claim was given up with money
perhaps gone, every call on a return carries the amount the first one settled,
the provider took no other, and before the claim it took none.
`ReturnedWithin` is by `Within`: the one request outstanding still fits beside the
returns that stand, once it was validated; with two outstanding, or a decision
left behind, it may not, which is what the property excuses. `ReturnsAreTyped`
contains that no more is refunded than was captured (`Money`): the provider's
keys are amounts, and those it has moved add up to the payment's total and to
the claim that is pending.

`SessionProofs`: `NoCallStranded` is `QueueServed` for any number of calls. Its
invariant `QueueInv` adds the types of the calls and of the two refreshes: a
refresh leaves "idle" only by a call that becomes its owner, and returns to it
only by an answer that resends or rejects every call that waits. `StoreInv`
comes before it, because what a step writes about a call is looked up in the
store. With `RestTyped` they are the types (`Typed`, `SessionIsTyped`). None of this,
nor `Lands`, assumes `Calm`, `BootAlone` or `InOrder`.

- `Lands` (`LandsWhereSent`): a call of `/session-sync` that a sign-in waits for sets
  the gate and one that a sign-out waits for clears it (`SyncsTell`), so that the
  middleware lets the page through that the handler then goes to.
- `StoreMatches` (`StoreMatchesJar`): no guard keeps a sign-in apart from a sign-out
  or a page from its links; `Single` says what is left of them. Until `initialise()`
  is done nothing else bears on the session (`Booting`, by `BootAlone`); an answered
  sign-in meets no sign-out and no change of the profile, and brings the profile the
  service holds (`SigningIn`, by `InOrder` and `Calm`), though its form may have been
  sent while the sign-out was on its way; until a sign-out is answered the store has
  no user and no call of a page is out (`SigningOut`); and the store has a user
  exactly if the cookie is good, but between the answer of a sign-in and the store's
  `login`, and while a refresh or a sign-out is on its way (`JarAgrees`).
- `GateMatches` (`GateMatchesStore`) adds `GateAgrees`: the last call of
  `/session-sync` outstanding will leave the gate with the user of the store.
  `InOrder` is needed here too because it is the last one sent that has to decide.

`ShopProofs`: `ShopIsTyped` rests on `Fits`, what a call may say given the control
that sent it (an added line has units, so that no line of none is made).

- `OrdersAreAccounted` is by `OneCheckout`: one call of the checkout at a time, while
  the form is shown and nothing is to be paid, so that an order accepted is the
  only one in hand; whatever ends the checkout counts it.
- `FreshIsWhatTheServiceHas` (`FreshIsTrue`) is by `CacheFollows`: of an entry
  without `doubt`, of which every accepted change was answered, the fresh data
  and an answer on its way are the service's; a cart on its way is asked for in
  the name of whom the page takes the visitor for; and an entry being read is not
  fresh, so that the answer that removes a doubt replaces all it covered.

Neither proof uses that a visitor is after one thing at a time (`interest`): that
bound serves TLC only.

`PagesProofs` begins with a lemma for each step of `Loading`: what it does to
`Follows`, that every entry the page was told the last change of shows as fresh,
and is being sent, what the service has. Then it is this invariant for four
pages; what differs is what a page is still to hear of (a push on its way, a call
that was answered and not yet acted on). Its theorems state `OrderPageFollows`,
`BellFollows`, `PreferencesFollow` and `ProductsFollow`, with the types, and
`StarMeans`, which needs of stale entries too that a tab not `behind` shows what the
service has (`Abreast`).

`DesksProofs` has the pages whose calls cross:

- addresses: unless two calls crossed or one broke off, there is one default
  between two calls, and between the statements of one the default is where the
  next statement will look for it (`Kept`);
- import: what is shown is the file picked last (`ShownIsPicked`), and one import
  is at work (`OneAtWork`), which counts what it has created;
- suppliers and banners: a panel, a form or a call made on a list read since the
  last change carries what its row still has (`RulingsKept`, `RatesKept`,
  `UpdatesKept`, `FormKept`). That a list was read since is again a fact about the
  entry, its requests under way included (`Tells`).

Its end composes them: `DeskInv` says that the desk at work keeps its invariant,
and that the others are as they began, with nothing loaded and so nothing shown
as fresh. `DesksAreTrue`, `DesksKeepPromises`, `DesksAreTyped` (`DesksTypeOK`) and
`DesksStandBy` state for `DesksSpec` all that the run `desks` checks.

Only model-checked are `AbandonedCartReleased`, `RequestsSettle` and `CallsEnd`: they
are liveness, under fairness, for which there is no prover here. Every invariant
and every action property of the passing runs is proved.

## 5. Not modelled, and why

- Payment creation with its success and failure webhooks, refund webhooks out of
  order, `process_payout`, disputes, courier delivery, lockout and reset tokens:
  they have hazards of their own and are the next to model (below).
- Discounts and pricing: one locked transaction, and a function of one order.
- Refunds by line of an order (`AdminRefundOrderItemsView`): no page calls it.
- The supplier's inventory page: it uses the paginated answer of
  `GET /inventory/` as an array and sends a stock row's id where the URL wants a
  variant's, so what it does depends on rendering rather than on state.
- The disputes of the storefront: it calls endpoints the service does not have.
- Reviews, users, categories, search, and the rest of suppliers: independent rows
  changed by one request, read back by one page.
- Analytics (read-only), e-mails, backups, audit log, deployment (output only),
  static pages and layout.

## 6. Plan

1. `Payments`: intent, success and failure webhooks duplicated and reordered,
   refund webhooks with an older running total, composed with the refund ledger
   of `Returns`; an abstract ledger (refunded never exceeds paid, each request
   paid once) as its refinement.
2. `Payouts`: process with its takeover, reversal and full refund during a transfer.
3. `Disputes` (escalation against replies) and `Courier` (quote, book, events, fee).
4. `Accounts`: attempts and lockout, reset tokens.
5. `Discounts` (caps under the row lock); `Pricing`: the largest-remainder split as
   a function, against its definition.
