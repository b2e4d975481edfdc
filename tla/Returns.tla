-------------------------------- MODULE Returns --------------------------------
(***************************************************************************)
(* The returns of one delivered sub-order, from the buyer's form to the    *)
(* refund: requested, decided by the supplier, refunded by an admin.       *)
(*                                                                         *)
(* A refund is three transactions with two provider calls between them     *)
(* (process_return_refund), so that calls of several admin tabs overlap.   *)
(* Admins also refund a payment directly; both go through one request per  *)
(* amount (initiate_refund).  A unit costs 1.                              *)
(***************************************************************************)
EXTENDS Integers, FiniteSets, Functions, FiniteSetsExt

CONSTANTS
  ReturnIds,
  AskSlots,    \* bound: return requests outstanding together
  Calls,       \* admin tabs, each with one refund at a time
  Units,       \* ordered of the one item
  Shipping,
  Rest,        \* what the payment covers besides this sub-order
  Typed,       \* amounts an admin types; 0 stands for a blank field
  None

Whole == Units + Shipping        \* sub_order.subtotal
Captured == Whole + Rest         \* payment.amount
Amounts == 1 .. Captured

ASSUME ReturnsAssumption ==
  /\ Units \in Nat \ {0} /\ Shipping \in Nat /\ Rest \in Nat
  /\ Typed \subseteq 0 .. Captured
  /\ None \notin ReturnIds /\ IsFiniteSet(ReturnIds)

VARIABLES
  ret,        \* ret[r]: [st, units, amount]; units 0: no lines, all of it
  restocked,  \* restocked[r]: how often its units went back into stock
  deciding,   \* the supplier's decisions outstanding
  shown,      \* the buyer's order page: [can, form]
  asks,       \* the buyer's return requests outstanding
  call,       \* the refund calls
  request,    \* request[a]: the PaymentRefundRequest of amount a
  payment,    \* [refunded, pending]
  moved,      \* the amounts the provider has refunded, once per key
  payout,     \* the supplier's payout: "due", "PAID", "FAILED", "REVERSED"
  charged,    \* charged[r]: the amounts the provider took for return r
  excused     \* why a promise may be broken: [left, split, stuck, overlap]

retVars == <<ret, restocked, deciding, shown, asks, call, request, payment, moved,
             payout, charged, excused>>
buyerVars == <<shown, asks>>
moneyVars == <<request, payment, moved, payout>>

Ret == [st : {"none", "REQUESTED", "APPROVED", "REJECTED", "REFUNDING", "REFUNDED"},
        units : 0 .. Units, amount : 0 .. Captured]
Decision == [r : ReturnIds, to : {"APPROVED", "REJECTED"}, read : BOOLEAN, here : BOOLEAN]
Ask == [units : 0 .. Units, checked : BOOLEAN, here : BOOLEAN]
NoAsk == [checked |-> FALSE]
RefundCall == [r : ReturnIds \cup {None}, at : {"book", "charge", "reverse", "finish"},
               amount : Amounts, owner : BOOLEAN, booked : BOOLEAN]
NoCall == [at |-> "idle"]

-----------------------------------------------------------------------------
(* The buyer                                                               *)

(* the units of all returns that are in none of these states *)
UnitsBut(s, states) == SumFunctionOnSet([r \in ReturnIds |-> s[r].units],
                                        {r \in ReturnIds : s[r].st \notin states})
(* the wrong way: units that have been refunded are returnable again *)
LeftIgnoringRefunded(s) == Units - UnitsBut(s, {"none", "REJECTED", "REFUNDED"})
(* returnable_quantity: a return without lines takes nothing away *)
Left(s) == Units - UnitsBut(s, {"none", "REJECTED"})

(* canReturn, for an order delivered less than 14 days ago *)
CanReturn ==
  /\ Left(ret) > 0
  /\ \A r \in ReturnIds : ret[r].st \notin {"REQUESTED", "APPROVED"}

(* the order page loads *)
ShowOrder ==
  /\ shown.can # CanReturn
  /\ shown' = [shown EXCEPT !.can = CanReturn]
  /\ UNCHANGED <<ret, restocked, deciding, asks, call, moneyVars, charged, excused>>

OpenReturnForm ==
  /\ shown.can /\ ~shown.form
  /\ shown' = [shown EXCEPT !.form = TRUE]
  /\ UNCHANGED <<ret, restocked, deciding, asks, call, moneyVars, charged, excused>>

FreeAsk == CHOOSE t \in AskSlots : asks[t] = NoAsk
Asking == {t \in AskSlots : asks[t] # NoAsk}

(* "Return selected" and, as 0 units, "Return everything".  The form stays  *)
(* open over a load that would no longer offer it, with the units picked    *)
(* before, but is disabled while its request is under way                   *)
AskReturn(n) ==
  /\ shown.form /\ ~\E t \in Asking : asks[t].here
  /\ Asking # AskSlots
  /\ asks' = [asks EXCEPT ![FreeAsk] = [units |-> n, checked |-> FALSE, here |-> TRUE]]
  /\ excused' = [excused EXCEPT !.overlap = @ \/ Asking # {}]
  /\ UNCHANGED <<ret, restocked, deciding, shown, call, moneyVars, charged>>

(* the page is left; a request it sent goes on *)
LeaveOrder ==
  /\ \E t \in Asking : asks[t].here
  /\ asks' = [t \in AskSlots |-> IF t \in Asking THEN [asks[t] EXCEPT !.here = FALSE] ELSE NoAsk]
  /\ shown' = [shown EXCEPT !.form = FALSE]
  /\ UNCHANGED <<ret, restocked, deciding, call, moneyVars, charged, excused>>

(* request_return validates against what is committed, or refuses ...      *)
CheckReturn(t) ==
  /\ t \in Asking /\ ~asks[t].checked
  /\ asks' = [asks EXCEPT ![t] =
                IF asks[t].units <= Left(ret) THEN [@ EXCEPT !.checked = TRUE] ELSE NoAsk]
  /\ UNCHANGED <<ret, restocked, deciding, shown, call, moneyVars, charged, excused>>

(* ... and inserts the rows *)
CreateReturn(t) ==
  /\ t \in Asking /\ asks[t].checked
  /\ \E r \in ReturnIds : ret[r].st = "none"
  /\ ret' = [ret EXCEPT ![CHOOSE r \in ReturnIds : ret[r].st = "none"] =
               [st |-> "REQUESTED", units |-> asks[t].units, amount |-> 0]]
  /\ asks' = [asks EXCEPT ![t] = NoAsk]
  /\ shown' = [shown EXCEPT !.form = @ /\ ~asks[t].here]
  /\ UNCHANGED <<restocked, deciding, call, moneyVars, charged, excused>>

-----------------------------------------------------------------------------
(* The supplier                                                            *)

(* the wrong way: a rejection under way does not disable the row *)
BusyApproving(r) == \E d \in deciding : d.r = r /\ d.here /\ d.to = "APPROVED"
(* isPending: of the row as it is mounted now *)
Busy(r) == \E d \in deciding : d.r = r /\ d.here

(* a form opened while the row showed REQUESTED stays open *)
Decide(r, to) ==
  /\ ret[r].st # "none" /\ ~Busy(r)
  /\ ~\E d \in deciding : d.r = r /\ d.to = to
  /\ deciding' = deciding \cup {[r |-> r, to |-> to, read |-> FALSE, here |-> TRUE]}
  /\ UNCHANGED <<ret, restocked, buyerVars, call, moneyVars, charged, excused>>

(* another tab of the list and back: the row is mounted anew *)
LeaveRow(r) ==
  /\ Busy(r)
  /\ deciding' = {IF d.r = r THEN [d EXCEPT !.here = FALSE] ELSE d : d \in deciding}
  /\ excused' = [excused EXCEPT !.left = @ \cup {r}]
  /\ UNCHANGED <<ret, restocked, buyerVars, call, moneyVars, charged>>

(* the view reads the return; approve_return and reject_return test that   *)
(* object, not the row as it is by then                                    *)
ReadReturn(d) ==
  /\ ~d.read
  /\ deciding' = (deciding \ {d}) \cup
       (IF ret[d.r].st = "REQUESTED" THEN {[d EXCEPT !.read = TRUE]} ELSE {})
  /\ UNCHANGED <<ret, restocked, buyerVars, call, moneyVars, charged, excused>>

SaveDecision(d) ==
  /\ d.read
  /\ ret' = [ret EXCEPT ![d.r].st = d.to]
  /\ deciding' = deciding \ {d}
  /\ UNCHANGED <<restocked, buyerVars, call, moneyVars, charged, excused>>

-----------------------------------------------------------------------------
(* Admins: initiate_refund and process_return_refund                       *)

(* _return_refund_amount: shipping only goes back with everything *)
Due(n) == IF n \in {0, Units} THEN Whole ELSE n

(* payment.status is SUCCEEDED or PARTIAL_REFUND *)
Refundable == payment.refunded < Captured
Balance == Captured - payment.refunded - payment.pending

Callers(r) == {c \in Calls : call[c] # NoCall /\ call[c].r = r}

(* the wrong way: a call that joins brings its own amount *)
ClaimedOwn(r, a) == IF a = 0 THEN Due(ret[r].units) ELSE a
(* phase 1: the amount is settled by the call that claims the return *)
Claimed(r, a) ==
  IF ret[r].st = "REFUNDING" THEN ret[r].amount
  ELSE IF a = 0 THEN Due(ret[r].units) ELSE a

(* "Confirm refund" in a row shown as APPROVED before, or open since       *)
ClaimRefund(c, r, a) ==
  /\ call[c] = NoCall /\ ret[r].st \in {"APPROVED", "REFUNDING"}
  /\ call' = [call EXCEPT ![c] = [r |-> r, at |-> "book", amount |-> Claimed(r, a),
                                  owner |-> ret[r].st = "APPROVED", booked |-> FALSE]]
  /\ ret' = [ret EXCEPT ![r].st = "REFUNDING", ![r].amount = Claimed(r, a)]
  /\ UNCHANGED <<restocked, deciding, buyerVars, moneyVars, charged, excused>>

(* the refund form of the orders page: at most what was left when it was   *)
(* opened; blank is what is left by the time the service reads it          *)
RefundPayment(c, a) ==
  /\ call[c] = NoCall /\ Refundable
  /\ call' = [call EXCEPT ![c] = [r |-> None, at |-> "book", owner |-> FALSE, booked |-> FALSE,
                amount |-> IF a = 0 THEN Captured - payment.refunded ELSE a]]
  /\ UNCHANGED <<ret, restocked, deciding, buyerVars, moneyVars, charged, excused>>

(* the wrong way: the claim is kept when the refund fails *)
FailedKeepsClaim(c, paid) ==
  /\ call' = [call EXCEPT ![c] = NoCall]
  /\ UNCHANGED <<ret, excused>>
(* the refund raised: the call that claimed the return gives the claim up. *)
(* split: money may have gone to the return nevertheless                   *)
Failed(c, paid) ==
  LET r == call[c].r
      owns == r # None /\ call[c].owner /\ ret[r].st = "REFUNDING"
  IN /\ call' = [call EXCEPT ![c] = NoCall]
     /\ ret' = IF owns THEN [ret EXCEPT ![r].st = "APPROVED"] ELSE ret
     /\ excused' = IF owns /\ (paid \/ Callers(r) # {c} \/ charged[r] # {})
                   THEN [excused EXCEPT !.split = @ \cup {r}] ELSE excused

(* where the call goes on once the money is on its way *)
Refunded(c) == call' = [call EXCEPT ![c] =
  IF call[c].r = None THEN NoCall
  ELSE [@ EXCEPT !.at = "reverse", !.owner = FALSE, !.booked = FALSE]]

(* the first transaction of initiate_refund *)
Book(c) ==
  LET a == call[c].amount
  IN /\ call[c].at = "book"
     /\ \/ /\ Refundable /\ request[a] = "COMPLETED"
           /\ Refunded(c)
           /\ UNCHANGED <<ret, request, payment, excused>>
        \/ /\ Refundable /\ request[a] = "PENDING"
           /\ call' = [call EXCEPT ![c].at = "charge"]
           /\ UNCHANGED <<ret, request, payment, excused>>
        \/ /\ Refundable /\ request[a] \in {"none", "FAILED"} /\ a <= Balance
           /\ request' = [request EXCEPT ![a] = "PENDING"]
           /\ payment' = [payment EXCEPT !.pending = @ + a]
           /\ call' = [call EXCEPT ![c].at = "charge", ![c].booked = TRUE]
           /\ UNCHANGED <<ret, excused>>
        \/ /\ ~Refundable \/ (request[a] \in {"none", "FAILED"} /\ a > Balance)
           /\ Failed(c, FALSE)
           /\ UNCHANGED <<request, payment>>
     /\ UNCHANGED <<restocked, deciding, buyerVars, moved, payout, charged>>

(* what the provider does: a key it has refunded is not refunded again *)
Took(c) ==
  LET a == call[c].amount
  IN /\ a \in moved \/ SumSet(moved) + a <= Captured
     /\ moved' = moved \cup {a}
     /\ charged' = IF call[c].r = None THEN charged
                   ELSE [charged EXCEPT ![call[c].r] = @ \cup {a}]

Charge(c) ==
  /\ call[c].at = "charge"
  /\ Took(c) /\ Refunded(c)
  /\ request' = [request EXCEPT ![call[c].amount] = "COMPLETED"]
  /\ UNCHANGED <<ret, restocked, deciding, buyerVars, payment, payout, excused>>

(* the wrong way: what is pending is taken to cover the amount *)
ReleasedBelow(pending, a) == pending - a
Released(pending, a) == IF pending > a THEN pending - a ELSE 0

(* It raised.  The call that booked the request lets go of it if the        *)
(* provider refused, or its answer was lost, but not if the intent could    *)
(* not be read before (outside the try) or the outcome not be saved after:  *)
(* then the request stays PENDING and its amount booked                     *)
ChargeFails(c, paid) ==
  /\ call[c].at = "charge"
  /\ IF paid THEN Took(c) ELSE UNCHANGED <<moved, charged>>
  /\ Failed(c, paid)
  /\ \/ UNCHANGED <<request, payment>>
     \/ /\ call[c].booked
        /\ request' = [request EXCEPT ![call[c].amount] = "FAILED"]
        /\ payment' = [payment EXCEPT !.pending = Released(@, call[c].amount)]
  /\ UNCHANGED <<restocked, deciding, buyerVars, payout>>

(* handle_refund: the provider reports its running total *)
RefundReported ==
  LET total == SumSet(moved)
      delta == total - payment.refunded
  IN /\ delta > 0
     /\ payment' = [refunded |-> total, pending |-> Released(payment.pending, delta)]
     /\ payout' = IF total >= Captured /\ payout = "due" THEN "FAILED" ELSE payout
     /\ UNCHANGED <<ret, restocked, deciding, buyerVars, call, request, moved, charged, excused>>

(* reverse_payout_for_sub_order: one not paid yet never will be *)
Reverse(c) ==
  /\ call[c].at = "reverse"
  /\ payout' = IF payout = "due" THEN "FAILED" ELSE IF payout = "PAID" THEN "REVERSED" ELSE payout
  /\ call' = [call EXCEPT ![c].at = "finish"]
  /\ UNCHANGED <<ret, restocked, deciding, buyerVars, request, payment, moved, charged, excused>>

(* the reversal raised, or the process died: nothing gives the claim up *)
Stopped(c) ==
  /\ call[c].at = "reverse" => payout = "PAID"
  /\ call' = [call EXCEPT ![c] = NoCall]
  /\ excused' = IF call[c].r = None THEN excused
                ELSE [excused EXCEPT !.stuck = @ \cup {call[c].r}]
  /\ UNCHANGED <<ret, restocked, deciding, buyerVars, moneyVars, charged>>

(* the wrong way: the return is not read again before it is restocked *)
FinishUnread(c) ==
  LET r == call[c].r
  IN /\ call[c].at = "finish"
     /\ restocked' = [restocked EXCEPT ![r] = @ + 1]
     /\ ret' = [ret EXCEPT ![r].st = "REFUNDED"]
     /\ call' = [call EXCEPT ![c] = NoCall]
     /\ UNCHANGED <<deciding, buyerVars, moneyVars, charged, excused>>

(* phase 3, under the row's lock *)
Finish(c) ==
  LET r == call[c].r
  IN /\ call[c].at = "finish"
     /\ \/ ret[r].st = "REFUNDED" /\ UNCHANGED <<ret, restocked>>
        \/ /\ ret[r].st # "REFUNDED"
           /\ restocked' = [restocked EXCEPT ![r] = @ + 1]
           /\ ret' = [ret EXCEPT ![r].st = "REFUNDED"]
     /\ call' = [call EXCEPT ![c] = NoCall]
     /\ UNCHANGED <<deciding, buyerVars, moneyVars, charged, excused>>

-----------------------------------------------------------------------------
(* some returns have been asked for, or approved, before *)
ReturnsInit ==
  /\ ret \in [ReturnIds -> {x \in Ret :
       /\ x.st \in {"none", "REQUESTED", "APPROVED"} /\ x.amount = 0
       /\ x.st = "none" => x.units = 0}]
  /\ Left(ret) >= 0
  /\ restocked = [r \in ReturnIds |-> 0]
  /\ deciding = {}
  /\ shown = [can |-> TRUE, form |-> FALSE] /\ asks = [t \in AskSlots |-> NoAsk]
  /\ call = [c \in Calls |-> NoCall]
  /\ request = [a \in Amounts |-> "none"]
  /\ payment = [refunded |-> 0, pending |-> 0] /\ moved = {}
  /\ payout \in {"due", "PAID"}
  /\ charged = [r \in ReturnIds |-> {}]
  /\ excused = [left |-> {}, split |-> {}, stuck |-> {}, overlap |-> FALSE]

BuyerNext ==
  \/ ShowOrder \/ OpenReturnForm \/ LeaveOrder
  \/ \E n \in 0 .. Units : AskReturn(n)
  \/ \E t \in AskSlots : CheckReturn(t) \/ CreateReturn(t)

SupplierNext ==
  \/ \E r \in ReturnIds : LeaveRow(r) \/ \E to \in {"APPROVED", "REJECTED"} : Decide(r, to)
  \/ \E d \in deciding : ReadReturn(d) \/ SaveDecision(d)

AdminNext == \E c \in Calls :
  \/ \E a \in Typed : RefundPayment(c, a) \/ \E r \in ReturnIds : ClaimRefund(c, r, a)
  \/ /\ call[c] # NoCall
     /\ \/ Book(c) \/ Charge(c) \/ (\E paid \in BOOLEAN : ChargeFails(c, paid))
        \/ Reverse(c) \/ Stopped(c) \/ Finish(c)

ReturnsNext == BuyerNext \/ SupplierNext \/ AdminNext \/ RefundReported

ReturnsSpec == ReturnsInit /\ [][ReturnsNext]_retVars

-----------------------------------------------------------------------------
(* Properties                                                              *)

(* Every variable has its type. *)
ReturnsTypeOK ==
  /\ ret \in [ReturnIds -> Ret] /\ restocked \in [ReturnIds -> Nat]
  /\ deciding \subseteq Decision
  /\ shown \in [can : BOOLEAN, form : BOOLEAN] /\ asks \in [AskSlots -> Ask \cup {NoAsk}]
  /\ call \in [Calls -> RefundCall \cup {NoCall}]
  /\ request \in [Amounts -> {"none", "PENDING", "FAILED", "COMPLETED"}]
  /\ payment \in [refunded : 0 .. Captured, pending : Nat] /\ moved \subseteq Amounts
  /\ payout \in {"due", "PAID", "FAILED", "REVERSED"}
  /\ charged \in [ReturnIds -> SUBSET Amounts]
  /\ excused \in [left : SUBSET ReturnIds, split : SUBSET ReturnIds,
                  stuck : SUBSET ReturnIds, overlap : BOOLEAN]

(* A return is decided once: rejected, approved and refunded ones never     *)
(* become the other, although the decision is saved over a row that was not *)
(* locked - as long as the row is not left with a decision under way.       *)
DecidedOnce == [][\A r \in ReturnIds \ excused'.left :
  /\ ret[r].st = "REJECTED" => ret'[r].st = "REJECTED"
  /\ ret[r].st = "REFUNDED" => ret'[r].st = "REFUNDED"
  /\ ret[r].st \in {"APPROVED", "REFUNDING"} => ret'[r].st \notin {"REQUESTED", "REJECTED"}]_retVars

(* The units of a return go back into stock once, when it is refunded,      *)
(* however many calls refund it.                                            *)
RestockedOnce == \A r \in ReturnIds \ excused.left :
  restocked[r] = IF ret[r].st = "REFUNDED" THEN 1 ELSE 0

(* One value is refunded for a return, however many calls refund it with    *)
(* whatever amounts - unless the call that claimed it failed when money may *)
(* already have gone: then the next one settles a new amount.               *)
ChargedOnce == \A r \in ReturnIds \ (excused.split \cup excused.left) :
  Cardinality(charged[r]) <= 1

(* Units come back at most once over all returns that name units, unless    *)
(* two requests were validated at once, or a return decided twice.          *)
(* (Returns of everything name none.)                                       *)
ReturnedWithinOrdered ==
  excused.overlap \/ excused.left # {} \/ UnitsBut(ret, {"none", "REJECTED"}) <= Units

(* A return stays claimed only while a call works on it, or after one died  *)
(* or failed to reverse the payout.                                         *)
ClaimHeld == \A r \in ReturnIds \ excused.stuck :
  ret[r].st = "REFUNDING" => Callers(r) # {}

(* A refunded return was paid: its amount went to the buyer, and no other   *)
(* return counts on the same payment. *)
RefundPaid ==
  LET refunded == {r \in ReturnIds : ret[r].st = "REFUNDED"}
  IN MapThenSumSet(LAMBDA r : ret[r].amount, refunded) <= SumSet(moved)
=============================================================================
