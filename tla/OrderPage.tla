------------------------------- MODULE OrderPage -------------------------------
(***************************************************************************)
(* One order as it is followed: by the buyer on the order page and in the  *)
(* list of orders, by a supplier on their orders page.                     *)
(*                                                                         *)
(* The order page listens for changes of status on a socket: it fetches a  *)
(* ticket, connects, and asks for the order again on every message.        *)
(* Nothing tells the list, or the supplier's page, of a change; nothing    *)
(* reconnects a socket, and nothing reads the order again once it is up.   *)
(***************************************************************************)
EXTENDS Naturals, Functions, Loading

CONSTANTS
  Subs,     \* the sub-orders of the order
  Mine      \* the one of the supplier whose page is open

Status == {"PENDING", "CONFIRMED", "DISPATCHED", "DELIVERED", "CANCELLED"}
ASSUME OrderPageAssumption == Mine \in Subs /\ NoData \notin Status

VARIABLES
  sub,       \* the service: the status of each sub-order
  at,        \* the page open: the buyer's "list" or "order", the supplier's
             \* "rows".  Bound: one of the two sees the order through a page,
             \* the other works elsewhere
  socket,    \* "none", "ticket" (asked for, or connecting), "open"
  pushes,    \* messages on their way to it
  action,    \* the calls of the pages' buttons: "idle", "sent", "done", or
             \* "settling" (answered, waiting for the rows).  Bound: one call
             \* of each, also when the page was left and opened again
  form       \* the dispatch form of the supplier's row is open

pageVars == <<sub, at, socket, pushes, action, form, loadVars>>

(* ['order', ref] and ['orders', page] of the buyer, which are keys of     *)
(* their own, ['supplier', 'suborders', page] of the supplier              *)
OrderKeys == {"order", "list", "rows"}
Buttons == {"cancel", "confirm", "dispatch"}

(* _sync_order_status.  Orders has the writes that race; here a handler is *)
(* one step                                                                *)
OrderStatus(s) ==
  LET live == Range(s) \ {"CANCELLED"}
  IN IF live = {} THEN "CANCELLED"
     ELSE IF live = {"DELIVERED"} THEN "DELIVERED"
     ELSE IF live \subseteq {"DISPATCHED", "DELIVERED"} THEN "DISPATCHED"
     ELSE IF "PENDING" \notin live THEN "CONFIRMED" ELSE "PENDING"

OrderData(k) == IF k = "order" THEN [Subs -> Status] ELSE Status
OrderTruth(k) ==
  CASE k = "order" -> sub [] k = "list" -> OrderStatus(sub) [] k = "rows" -> sub[Mine]

-----------------------------------------------------------------------------
(* Pages and loading                                                       *)

(* the effect of useOrderSocket is undone: what is on its way is lost *)
Deaf == IF pushes > 0 THEN Changed({"order"}) ELSE UNCHANGED untold

(* "View", and back to "My orders" *)
OpenOrder ==
  /\ at # "rows" /\ at' = IF at = "list" THEN "order" ELSE "list"
  /\ socket' = IF at' = "order" THEN "ticket" ELSE "none"
  /\ pushes' = 0 /\ Deaf
  /\ Shows(at')
  /\ UNCHANGED <<sub, action, form>>

(* a new access token: the effect runs again *)
TokenRenewed ==
  /\ at = "order" /\ socket' = "ticket"
  /\ pushes' = 0 /\ Deaf
  /\ UNCHANGED <<sub, at, entry, action, form>>

(* the ticket is there, the consumer has joined the order's group *)
Joined ==
  /\ socket = "ticket" /\ socket' = "open"
  /\ UNCHANGED <<sub, at, pushes, entry, action, form, untold>>

(* no ticket, refused, or disconnected: nothing tries again *)
Disconnected ==
  /\ socket # "none" /\ socket' = "none"
  /\ pushes' = 0 /\ Deaf
  /\ UNCHANGED <<sub, at, entry, action, form>>

(* mutate's onSuccess returned the promise of the refetch *)
Settled(k) == action' = [b \in Buttons |->
  IF k = "rows" /\ action[b] = "settling" THEN "idle" ELSE action[b]]

OrderLoads(k) ==
  /\ \/ Answer(k, OrderTruth(k)) /\ UNCHANGED action
     \/ Ends(k) /\ Settled(k)
     \/ (Age(k) \/ (k = at /\ Focus(k))) /\ UNCHANGED action
  /\ UNCHANGED <<sub, at, socket, pushes, form>>

(* the wrong way: the socket's handler invalidates the list of orders *)
PushToList ==
  /\ pushes > 0 /\ pushes' = pushes - 1
  /\ Invalidate({"list"}, {at})
  /\ UNCHANGED <<sub, at, socket, action, form>>

PushArrives ==
  /\ pushes > 0 /\ pushes' = pushes - 1
  /\ Invalidate({"order"}, {at})
  /\ UNCHANGED <<sub, at, socket, action, form>>

-----------------------------------------------------------------------------
(* The buttons                                                             *)

CANCELLABLE == {"PENDING", "CONFIRMED"}
Offers(b) ==
  CASE b = "cancel" -> at = "order" /\ Has("order") /\ OrderStatus(entry["order"].data) \in CANCELLABLE
    [] b = "confirm" -> at = "rows" /\ entry["rows"].data = "PENDING"
    [] b = "dispatch" -> form

(* each is disabled while its call is under way *)
ClickAction(b) ==
  /\ Offers(b) /\ action[b] = "idle"
  /\ action' = [action EXCEPT ![b] = "sent"]
  /\ UNCHANGED <<sub, at, socket, pushes, entry, form, untold>>

(* the form opens in a confirmed row, and closes on Cancel *)
DispatchForm ==
  /\ at = "rows" /\ (form \/ entry["rows"].data = "CONFIRMED")
  /\ form' = ~form
  /\ UNCHANGED <<sub, at, socket, pushes, entry, action, untold>>

(* on_commit: _push_order_status to whoever has joined; a push that fails  *)
(* is only logged.  told: the entries whose page made the change           *)
Published(told) ==
  \E sent \in BOOLEAN :
    /\ sub' = sub => ~sent
    /\ pushes' = IF sent /\ socket = "open" THEN pushes + 1 ELSE pushes
    /\ Changed(IF sub' = sub THEN {}
               ELSE OrderKeys \ (told \cup (IF sent /\ socket = "open" THEN {"order"} ELSE {})))

Allowed(b, s) ==
  CASE b = "confirm" -> s = "PENDING"
    [] b = "dispatch" -> s \in {"PENDING", "CONFIRMED"}
    [] b = "deliver" -> s = "DISPATCHED"
After(b) == CASE b = "confirm" -> "CONFIRMED" [] b = "dispatch" -> "DISPATCHED" [] b = "deliver" -> "DELIVERED"

(* cancel_order: all of it, unless a part is delivered or all has left *)
Cancels ==
  /\ OrderStatus(sub) \notin {"DELIVERED", "DISPATCHED"}
  /\ "DELIVERED" \notin Range(sub)
  /\ sub' = [s \in Subs |-> "CANCELLED"]

ActionHandled(b) ==
  /\ action[b] = "sent"
  /\ IF b = "cancel" THEN Cancels
     ELSE Allowed(b, sub[Mine]) /\ sub' = [sub EXCEPT ![Mine] = After(b)]
  /\ action' = [action EXCEPT ![b] = "done"]
  /\ Published(IF b = "cancel" THEN {"order", "list"} ELSE {"rows"})
  /\ UNCHANGED <<at, socket, entry, form>>

(* without these pages: the other suppliers, a courier, the buyer *)
Elsewhere ==
  /\ \/ \E s \in Subs, b \in {"confirm", "dispatch", "deliver"} :
          Allowed(b, sub[s]) /\ sub' = [sub EXCEPT ![s] = After(b)]
     \/ at = "rows" /\ Cancels /\ sub' # sub
  /\ Published({})
  /\ UNCHANGED <<at, socket, entry, action, form>>

Refreshes(b) == IF b = "cancel" THEN {"order", "list"} ELSE {"rows"}

(* onSuccess; that of a dispatch closes whatever form is open *)
ActionSucceeded(b) ==
  /\ action[b] = "done"
  /\ action' = [action EXCEPT ![b] = IF b = "confirm" THEN "settling" ELSE "idle"]
  /\ form' = (form /\ b # "dispatch")
  /\ Invalidate(Refreshes(b), {at})
  /\ UNCHANGED <<sub, at, socket, pushes>>

(* refused, or never heard of again *)
ActionFailed(b) ==
  /\ action[b] \in {"sent", "done"}
  /\ action' = [action EXCEPT ![b] = "idle"]
  /\ Changed(IF action[b] = "done" THEN Refreshes(b) ELSE {})
  /\ UNCHANGED <<sub, at, socket, pushes, entry, form>>

-----------------------------------------------------------------------------
PageStart ==
  /\ sub = [s \in Subs |-> "PENDING"]
  /\ at \in {"list", "rows"} /\ socket = "none" /\ pushes = 0
  /\ action = [b \in Buttons |-> "idle"] /\ form = FALSE

PageInit == PageStart /\ LoadingInit(OrderKeys, {at})

PageNext ==
  \/ OpenOrder \/ TokenRenewed \/ Joined \/ Disconnected \/ PushArrives \/ DispatchForm \/ Elsewhere
  \/ \E k \in OrderKeys : OrderLoads(k)
  \/ \E b \in Buttons : ClickAction(b) \/ ActionHandled(b) \/ ActionSucceeded(b) \/ ActionFailed(b)

PageSpec == PageInit /\ [][PageNext]_pageVars

-----------------------------------------------------------------------------
(* Properties                                                              *)

(* Every variable has its type. *)
PageTypeOK ==
  /\ sub \in [Subs -> Status] /\ at \in OrderKeys
  /\ socket \in {"none", "ticket", "open"} /\ pushes \in Nat
  /\ action \in [Buttons -> {"idle", "sent", "done", "settling"}] /\ form \in BOOLEAN
  /\ LoadingTypeOK(OrderKeys, OrderData)

OrderTold(k) ==
  /\ ~untold[k] /\ (k = "order" => pushes = 0)
  /\ \A b \in Buttons : action[b] = "done" => k \notin Refreshes(b)

(* What the order page, the list of orders and the supplier's rows show as  *)
(* fresh is the orders' state, through any interleaving of loads, messages, *)
(* cancellation and navigation.  untold names the excuses.  Of the page: a  *)
(* change while no socket had joined, a message lost, a first load that was *)
(* on its way and is kept, a cancellation's lost reply.  Of the other two   *)
(* also every change made elsewhere, which nothing tells them of.           *)
OrderPageFollows == \A k \in OrderKeys :
  Fresh(k) /\ OrderTold(k) => entry[k].data = OrderTruth(k)
=============================================================================
