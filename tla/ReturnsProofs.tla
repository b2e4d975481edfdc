----------------------------- MODULE ReturnsProofs -----------------------------
(***************************************************************************)
(* What holds of the returns for any number of returns, requests, units    *)
(* and refund calls: units go back into stock once, a decision stands, a   *)
(* claimed return has a call that works on it, one value is refunded, no   *)
(* more units come back than were ordered and no more money than was       *)
(* captured.                                                               *)
(*                                                                         *)
(* The invariant ties the actors together: a decision that has read a      *)
(* return still finds it requested, because the row lets only one decision *)
(* out (One), a call that refunds a return can only be there once it was   *)
(* approved (Called), and the one that holds the claim ends it (Held).     *)
(***************************************************************************)
EXTENDS Returns, Sums, TLAPS

States == {"none", "REQUESTED", "APPROVED", "REJECTED", "REFUNDING", "REFUNDED"}
Record == [st : States, units : Nat, amount : Nat]
Excuses == [left : SUBSET ReturnIds, split : SUBSET ReturnIds,
            stuck : SUBSET ReturnIds, overlap : BOOLEAN]
Fields == {"r", "at", "amount", "owner", "booked"}

(* a call is a record; of its amount nothing is needed *)
Refund(x) ==
  /\ x = [f \in Fields |-> x[f]]
  /\ x.r \in ReturnIds \cup {None}
  /\ x.at \in {"book", "charge", "reverse", "finish"} /\ x.owner \in BOOLEAN
  /\ x.at \in {"reverse", "finish"} => x.r # None

Types ==
  /\ ret \in [ReturnIds -> Record] /\ restocked \in [ReturnIds -> Nat]
  /\ deciding \subseteq Decision
  /\ asks \in [AskSlots -> Ask \cup {NoAsk}]
  /\ call = [c \in Calls |-> call[c]] /\ \A c \in Calls : call[c] = NoCall \/ Refund(call[c])
  /\ excused \in Excuses

(* the decisions of a row that was not left: one, seen by the row, and of   *)
(* a return nobody has decided since                                        *)
One == \A d \in deciding : d.r \notin excused.left =>
  /\ d.here /\ (d.read => ret[d.r].st = "REQUESTED")
  /\ \A e \in deciding : e.r = d.r => e = d

(* only returns that were approved are refunded *)
Called == \A c \in Calls : call[c] # NoCall /\ call[c].r \in ReturnIds \ excused.left =>
  ret[call[c].r].st \in {"APPROVED", "REFUNDING", "REFUNDED"}

(* who will end the claim: the call that holds it, or one past the charge *)
Works(c, r) ==
  call[c] # NoCall /\ call[c].r = r /\ (call[c].owner \/ call[c].at \in {"reverse", "finish"})
Held == \A r \in ReturnIds \ excused.stuck :
  ret[r].st = "REFUNDING" => \E c \in Calls : Works(c, r)

Inv == Types /\ One /\ Called /\ Held /\ RestockedOnce

LEMMA InitInv == ReturnsInit => Inv
<1> SUFFICES ASSUME ReturnsInit PROVE Inv
  OBVIOUS
<1> USE ReturnsAssumption
<1>1. Types
  BY DEF ReturnsInit, Types, Record, States, Ret, Excuses, Captured, Whole, NoCall
<1>2. One /\ Called /\ Held /\ RestockedOnce
  BY DEF ReturnsInit, One, Called, Held, RestockedOnce, Ret
<1>. QED BY <1>1, <1>2 DEF Inv

-----------------------------------------------------------------------------
(* The buyer's page and the money do not disturb the invariant             *)

LEMMA QuietStep ==
  ASSUME Inv, UNCHANGED <<ret, restocked, deciding, call>>,
         asks' \in [AskSlots -> Ask \cup {NoAsk}],
         excused' \in Excuses, excused'.left = excused.left, excused'.stuck = excused.stuck
  PROVE  Inv'
<1>1. Types'
  BY DEF Inv, Types
<1>2. One' /\ Called' /\ Held' /\ RestockedOnce'
  BY DEF Inv, One, Called, Held, Works, RestockedOnce
<1>. QED BY <1>1, <1>2 DEF Inv

LEMMA BuyerStep ==
  ASSUME Inv,
         \/ ShowOrder \/ OpenReturnForm \/ LeaveOrder
         \/ (\E n \in 0 .. Units : AskReturn(n)) \/ (\E t \in AskSlots : CheckReturn(t))
  PROVE  Inv'
<1>1. UNCHANGED <<ret, restocked, deciding, call>>
  BY DEF ShowOrder, OpenReturnForm, LeaveOrder, AskReturn, CheckReturn
<1>2. asks' \in [AskSlots -> Ask \cup {NoAsk}]
  <2> USE DEF Inv, Types
  <2>1. CASE ShowOrder \/ OpenReturnForm
    BY <2>1 DEF ShowOrder, OpenReturnForm
  <2>2. ASSUME NEW n \in 0 .. Units, AskReturn(n)
        PROVE  asks' \in [AskSlots -> Ask \cup {NoAsk}]
    <3>1. [units |-> n, checked |-> FALSE, here |-> TRUE] \in Ask
      BY DEF Ask
    <3>. QED BY <2>2, <3>1 DEF AskReturn
  <2>3. CASE LeaveOrder
    <3>1. \A x \in AskSlots : x \in Asking => [asks[x] EXCEPT !.here = FALSE] \in Ask
      BY DEF Asking, Ask
    <3>. QED BY <2>3, <3>1 DEF LeaveOrder
  <2>4. ASSUME NEW t \in AskSlots, CheckReturn(t)
        PROVE  asks' \in [AskSlots -> Ask \cup {NoAsk}]
    <3>1. t \in Asking => [asks[t] EXCEPT !.checked = TRUE] \in Ask
      BY DEF Asking, Ask
    <3>. QED BY <2>4, <3>1 DEF CheckReturn
  <2>. QED BY <2>1, <2>2, <2>3, <2>4
<1>3. excused' \in Excuses /\ excused'.left = excused.left /\ excused'.stuck = excused.stuck
  <2>1. excused' = excused \/ excused' = [excused EXCEPT !.overlap = @ \/ Asking # {}]
    BY DEF ShowOrder, OpenReturnForm, LeaveOrder, AskReturn, CheckReturn
  <2>2. (excused.overlap \/ Asking # {}) \in BOOLEAN
    OBVIOUS
  <2>. QED BY <2>1, <2>2 DEF Inv, Types, Excuses
<1>. QED BY <1>1, <1>2, <1>3, QuietStep

(* the new return was no return, so nobody had decided or refunded it *)
LEMMA CreateStep ==
  ASSUME Inv, NEW t \in AskSlots, CreateReturn(t)
  PROVE  Inv'
<1> DEFINE r == CHOOSE r \in ReturnIds : ret[r].st = "none"
           x == [st |-> "REQUESTED", units |-> asks[t].units, amount |-> 0]
<1>1. r \in ReturnIds /\ ret[r].st = "none"
  BY DEF CreateReturn
<1>2. ret' = [ret EXCEPT ![r] = x] /\ asks' = [asks EXCEPT ![t] = NoAsk]
      /\ UNCHANGED <<restocked, deciding, call, excused>>
  BY DEF CreateReturn
<1>3. x \in Record
  <2>1. asks[t] \in Ask
    BY DEF CreateReturn, Asking, Inv, Types
  <2>. QED BY <2>1, ReturnsAssumption DEF Ask, Record, States
<1> HIDE DEF r
<1>4. Types'
  BY <1>1, <1>2, <1>3 DEF Inv, Types
<1>5. /\ \A q \in ReturnIds : q # r => ret'[q] = ret[q]
      /\ ret'[r].st = "REQUESTED"
  BY <1>1, <1>2 DEF Inv, Types
<1>6. One'
  BY <1>1, <1>2, <1>5 DEF Inv, Types, One, Decision
<1>7. Called'
  BY <1>1, <1>2, <1>5 DEF Inv, Called
<1>8. Held'
  BY <1>1, <1>2, <1>5 DEF Inv, Held, Works
<1>9. RestockedOnce'
  BY <1>1, <1>2, <1>5 DEF Inv, RestockedOnce
<1>. QED BY <1>4, <1>6, <1>7, <1>8, <1>9 DEF Inv

-----------------------------------------------------------------------------
(* The supplier: only a decision that has read the return writes it        *)

LEMMA DecideStep ==
  ASSUME Inv, NEW r \in ReturnIds, NEW to \in {"APPROVED", "REJECTED"}, Decide(r, to)
  PROVE  Inv'
<1> DEFINE x == [r |-> r, to |-> to, read |-> FALSE, here |-> TRUE]
<1>1. /\ deciding' = deciding \cup {x} /\ ~Busy(r)
      /\ UNCHANGED <<ret, restocked, asks, call, excused>>
  BY DEF Decide, buyerVars
<1>2. x \in Decision /\ x.r = r /\ x.here /\ ~x.read
  BY DEF Decision
<1> HIDE DEF x
<1>3. Types'
  BY <1>1, <1>2 DEF Inv, Types
<1>4. One'
  <2>1. r \notin excused.left => \A d \in deciding : d.r # r
    BY <1>1 DEF Inv, One, Busy
  <2>. QED BY <1>1, <1>2, <2>1 DEF Inv, One
<1>5. Called' /\ Held' /\ RestockedOnce'
  BY <1>1 DEF Inv, Called, Held, Works, RestockedOnce
<1>. QED BY <1>3, <1>4, <1>5 DEF Inv

LEMMA LeaveStep ==
  ASSUME Inv, NEW r \in ReturnIds, LeaveRow(r)
  PROVE  Inv'
<1> DEFINE gone(d) == IF d.r = r THEN [d EXCEPT !.here = FALSE] ELSE d
<1>1. /\ deciding' = {gone(d) : d \in deciding}
      /\ excused' = [excused EXCEPT !.left = @ \cup {r}]
      /\ UNCHANGED <<ret, restocked, asks, call>>
  BY DEF LeaveRow, buyerVars
<1>2. \A d \in deciding : gone(d) \in Decision /\ gone(d).r = d.r /\ (d.r # r => gone(d) = d)
  BY DEF Inv, Types, Decision
<1>3. excused' \in Excuses /\ excused'.left = excused.left \cup {r} /\ excused'.stuck = excused.stuck
  BY <1>1 DEF Inv, Types, Excuses
<1> HIDE DEF gone
<1>4. Types'
  BY <1>1, <1>2, <1>3 DEF Inv, Types
<1>5. One'
  BY <1>1, <1>2, <1>3 DEF Inv, One
<1>6. Called' /\ Held' /\ RestockedOnce'
  BY <1>1, <1>3 DEF Inv, Called, Held, Works, RestockedOnce
<1>. QED BY <1>4, <1>5, <1>6 DEF Inv

LEMMA ReadStep ==
  ASSUME Inv, NEW d \in deciding, ReadReturn(d)
  PROVE  Inv'
<1> DEFINE x == [d EXCEPT !.read = TRUE]
<1>1. /\ deciding' = (deciding \ {d}) \cup (IF ret[d.r].st = "REQUESTED" THEN {x} ELSE {})
      /\ UNCHANGED <<ret, restocked, asks, call, excused>>
  BY DEF ReadReturn, buyerVars
<1>2. x \in Decision /\ x.r = d.r /\ x.here = d.here
  BY DEF Inv, Types, Decision
<1> HIDE DEF x
<1>3. Types'
  BY <1>1, <1>2 DEF Inv, Types
<1>4. One'
  BY <1>1, <1>2 DEF Inv, One
<1>5. Called' /\ Held' /\ RestockedOnce'
  BY <1>1 DEF Inv, Called, Held, Works, RestockedOnce
<1>. QED BY <1>3, <1>4, <1>5 DEF Inv

LEMMA SaveStep ==
  ASSUME Inv, NEW d \in deciding, SaveDecision(d)
  PROVE  Inv'
<1>1. /\ d.r \in ReturnIds /\ d.to \in {"APPROVED", "REJECTED"} /\ d.read
      /\ d.r \notin excused.left => ret[d.r].st = "REQUESTED"
  BY DEF SaveDecision, Inv, Types, Decision, One
<1>2. /\ ret' = [ret EXCEPT ![d.r].st = d.to] /\ deciding' = deciding \ {d}
      /\ UNCHANGED <<restocked, asks, call, excused>>
  BY DEF SaveDecision, buyerVars
<1>3. /\ ret' \in [ReturnIds -> Record] /\ ret'[d.r].st = d.to
      /\ \A q \in ReturnIds : q # d.r => ret'[q] = ret[q]
  BY <1>1, <1>2 DEF Inv, Types, Record, States
<1>4. Types'
  BY <1>2, <1>3 DEF Inv, Types
<1>5. One'
  BY <1>1, <1>2, <1>3 DEF Inv, One, Types, Decision
<1>6. Called'
  BY <1>1, <1>2, <1>3 DEF Inv, Called
<1>7. Held'
  BY <1>1, <1>2, <1>3 DEF Inv, Held, Works
<1>8. RestockedOnce'
  BY <1>1, <1>2, <1>3 DEF Inv, RestockedOnce
<1>. QED BY <1>4, <1>5, <1>6, <1>7, <1>8 DEF Inv

-----------------------------------------------------------------------------
(* The refund calls                                                        *)

(* a call starts or goes on *)
LEMMA CallStep ==
  ASSUME Inv, NEW c \in Calls, NEW x, Refund(x), call' = [call EXCEPT ![c] = x],
         x.r \in ReturnIds \ excused.left =>
           ret[x.r].st \in {"APPROVED", "REFUNDING", "REFUNDED"},
         \A r \in ReturnIds : Works(c, r) => x.r = r /\ (x.owner \/ x.at \in {"reverse", "finish"}),
         UNCHANGED <<ret, restocked, deciding, asks, excused>>
  PROVE  Inv'
<1>1. /\ x # NoCall /\ call'[c] = x /\ \A d \in Calls : d # c => call'[d] = call[d]
      /\ call' = [d \in Calls |-> call'[d]]
  <2>1. x # NoCall
    BY DEF Refund, NoCall
  <2>. QED BY <2>1 DEF Inv, Types
<1>2. Types'
  BY <1>1 DEF Inv, Types, Refund
<1>3. One' /\ RestockedOnce'
  BY DEF Inv, One, RestockedOnce
<1>4. Called'
  BY <1>1 DEF Inv, Called
<1>5. Held'
  <2> SUFFICES ASSUME NEW r \in ReturnIds \ excused.stuck, ret[r].st = "REFUNDING"
               PROVE  \E d \in Calls : Works(d, r)'
    BY DEF Held
  <2>1. PICK d \in Calls : Works(d, r)
    BY DEF Inv, Held
  <2>. QED BY <1>1, <2>1 DEF Works
<1>. QED BY <1>2, <1>3, <1>4, <1>5 DEF Inv

(* "Confirm refund": the first call of an approved return holds the claim *)
LEMMA ClaimStep ==
  ASSUME Inv, NEW c \in Calls, NEW r \in ReturnIds, NEW a \in Typed, ClaimRefund(c, r, a)
  PROVE  Inv'
<1> DEFINE x == [r |-> r, at |-> "book", amount |-> Claimed(r, a),
                 owner |-> ret[r].st = "APPROVED", booked |-> FALSE]
<1>1. /\ call[c] = NoCall /\ ret[r].st \in {"APPROVED", "REFUNDING"}
      /\ call' = [call EXCEPT ![c] = x]
      /\ ret' = [ret EXCEPT ![r].st = "REFUNDING", ![r].amount = Claimed(r, a)]
      /\ UNCHANGED <<restocked, deciding, asks, excused>>
  BY DEF ClaimRefund, buyerVars
<1>2. Claimed(r, a) \in Nat
  BY ReturnsAssumption DEF Claimed, Due, Whole, Captured, Inv, Types, Record
<1>3. /\ ret' \in [ReturnIds -> Record] /\ ret'[r].st = "REFUNDING"
      /\ \A q \in ReturnIds : q # r => ret'[q] = ret[q]
  BY <1>1, <1>2 DEF Inv, Types, Record, States
<1>4. Refund(x) /\ x.r = r /\ x.at = "book" /\ x.owner = (ret[r].st = "APPROVED") /\ x # NoCall
  BY DEF Refund, Fields, NoCall
<1> HIDE DEF x
<1>5. /\ call'[c] = x /\ \A d \in Calls : d # c => call'[d] = call[d]
      /\ call' = [d \in Calls |-> call'[d]]
  BY <1>1 DEF Inv, Types
<1>6. Types'
  BY <1>1, <1>3, <1>4, <1>5 DEF Inv, Types, Refund
<1>7. One'
  BY <1>1, <1>3 DEF Inv, One, Types, Decision
<1>8. Called'
  BY <1>1, <1>3, <1>4, <1>5 DEF Inv, Called
<1>9. Held'
  <2> SUFFICES ASSUME NEW q \in ReturnIds \ excused.stuck, ret'[q].st = "REFUNDING"
               PROVE  \E d \in Calls : Works(d, q)'
    BY <1>1 DEF Held
  <2>1. CASE q = r /\ ret[r].st = "APPROVED"
    BY <1>4, <1>5, <2>1 DEF Works
  <2>2. CASE ~(q = r /\ ret[r].st = "APPROVED")
    <3>1. PICK d \in Calls : Works(d, q)
      BY <1>1, <1>3, <2>2 DEF Inv, Held
    <3>. QED BY <1>1, <1>5, <3>1 DEF Works
  <2>. QED BY <2>1, <2>2
<1>10. RestockedOnce'
  BY <1>1, <1>3 DEF Inv, RestockedOnce
<1>. QED BY <1>6, <1>7, <1>8, <1>9, <1>10 DEF Inv

(* the claim goes with the call that held it; a call that had joined leaves *)
(* the one that holds it                                                    *)
LEMMA FailedStep ==
  ASSUME Inv, NEW c \in Calls, NEW paid \in BOOLEAN, call[c] # NoCall,
         call[c].at \in {"book", "charge"}, Failed(c, paid),
         UNCHANGED <<restocked, deciding, asks>>
  PROVE  Inv'
<1> DEFINE r == call[c].r
           owns == r # None /\ call[c].owner /\ ret[r].st = "REFUNDING"
<1>1. /\ call' = [call EXCEPT ![c] = NoCall]
      /\ ret' = IF owns THEN [ret EXCEPT ![r].st = "APPROVED"] ELSE ret
      /\ excused' = excused \/ (owns /\ excused' = [excused EXCEPT !.split = @ \cup {r}])
  BY DEF Failed
<1>2. owns => r \in ReturnIds
  BY DEF Inv, Types, Refund
<1>3. excused' \in Excuses /\ excused'.left = excused.left /\ excused'.stuck = excused.stuck
  BY <1>1, <1>2 DEF Inv, Types, Excuses
<1>4. /\ ret' \in [ReturnIds -> Record]
      /\ \A q \in ReturnIds : ret'[q].st = IF owns /\ q = r THEN "APPROVED" ELSE ret[q].st
  BY <1>1, <1>2 DEF Inv, Types, Record, States
<1>5. /\ call'[c] = NoCall /\ \A d \in Calls : d # c => call'[d] = call[d]
      /\ call' = [d \in Calls |-> call'[d]]
  BY <1>1 DEF Inv, Types
<1>6. Types'
  BY <1>3, <1>4, <1>5 DEF Inv, Types, Refund
<1>7. One'
  BY <1>3, <1>4 DEF Inv, One, Types, Decision
<1>8. Called'
  BY <1>3, <1>4, <1>5 DEF Inv, Called
<1>9. Held'
  <2> SUFFICES ASSUME NEW q \in ReturnIds \ excused.stuck, ret'[q].st = "REFUNDING"
               PROVE  \E d \in Calls : Works(d, q)'
    BY <1>3 DEF Held
  <2>1. PICK d \in Calls : Works(d, q)
    BY <1>4 DEF Inv, Held
  <2>2. ~owns \/ q # r
    BY <1>4
  <2>3. d # c
    BY <1>4, <2>1, <2>2, ReturnsAssumption DEF Works
  <2>. QED BY <1>5, <2>1, <2>3 DEF Works
<1>10. RestockedOnce'
  BY <1>3, <1>4 DEF Inv, RestockedOnce
<1>. QED BY <1>6, <1>7, <1>8, <1>9, <1>10 DEF Inv

(* a refund of the payment alone ends with the charge; a call that dies     *)
(* leaves its return stuck                                                  *)
LEMMA EndStep ==
  ASSUME Inv, NEW c \in Calls, call[c] # NoCall, call' = [call EXCEPT ![c] = NoCall],
         \/ call[c].r = None /\ excused' = excused
         \/ call[c].r # None /\ excused' = [excused EXCEPT !.stuck = @ \cup {call[c].r}],
         UNCHANGED <<ret, restocked, deciding, asks>>
  PROVE  Inv'
<1>1. Refund(call[c])
  BY DEF Inv, Types
<1>2. /\ excused' \in Excuses /\ excused'.left = excused.left
      /\ excused.stuck \subseteq excused'.stuck
      /\ call[c].r # None => call[c].r \in excused'.stuck
  BY <1>1 DEF Inv, Types, Excuses, Refund
<1>3. /\ call'[c] = NoCall /\ \A d \in Calls : d # c => call'[d] = call[d]
      /\ call' = [d \in Calls |-> call'[d]]
  BY DEF Inv, Types
<1>4. Types'
  BY <1>2, <1>3 DEF Inv, Types, Refund
<1>5. One' /\ Called' /\ RestockedOnce'
  BY <1>2, <1>3 DEF Inv, One, Called, RestockedOnce
<1>6. Held'
  <2> SUFFICES ASSUME NEW q \in ReturnIds \ excused'.stuck, ret[q].st = "REFUNDING"
               PROVE  \E d \in Calls : Works(d, q)'
    BY DEF Held
  <2>1. PICK d \in Calls : Works(d, q)
    BY <1>2 DEF Inv, Held
  <2>2. d # c
    BY <1>2, <2>1, ReturnsAssumption DEF Works
  <2>. QED BY <1>3, <2>1, <2>2 DEF Works
<1>. QED BY <1>4, <1>5, <1>6 DEF Inv

(* once the money is on its way a refund of a return goes on to the payout, *)
(* and any other is over                                                    *)
LEMMA RefundedStep ==
  ASSUME Inv, NEW c \in Calls, call[c] # NoCall, Refunded(c),
         UNCHANGED <<ret, restocked, deciding, asks, excused>>
  PROVE  Inv'
<1>1. Refund(call[c])
  BY DEF Inv, Types
<1>2. CASE call[c].r = None
  BY <1>2, EndStep DEF Refunded
<1>3. CASE call[c].r # None
  <2> DEFINE x == [call[c] EXCEPT !.at = "reverse", !.owner = FALSE, !.booked = FALSE]
  <2>1. call' = [call EXCEPT ![c] = x]
    BY <1>3 DEF Refunded, Inv, Types
  <2>2. Refund(x) /\ x.r = call[c].r /\ x.at = "reverse"
    BY <1>1, <1>3 DEF Refund, Fields
  <2>3. x.r \in ReturnIds \ excused.left => ret[x.r].st \in {"APPROVED", "REFUNDING", "REFUNDED"}
    BY <2>2 DEF Inv, Called
  <2>4. \A r \in ReturnIds : Works(c, r) => x.r = r /\ (x.owner \/ x.at \in {"reverse", "finish"})
    BY <2>2 DEF Works
  <2> HIDE DEF x
  <2>. QED BY <2>1, <2>2, <2>3, <2>4, CallStep
<1>. QED BY <1>2, <1>3

LEMMA RefundPaymentStep ==
  ASSUME Inv, NEW c \in Calls, NEW a \in Typed, RefundPayment(c, a)
  PROVE  Inv'
<1> DEFINE x == [r |-> None, at |-> "book", owner |-> FALSE, booked |-> FALSE,
                 amount |-> IF a = 0 THEN Captured - payment.refunded ELSE a]
<1>1. /\ call[c] = NoCall /\ call' = [call EXCEPT ![c] = x]
      /\ UNCHANGED <<ret, restocked, deciding, asks, excused>>
  BY DEF RefundPayment, buyerVars
<1>2. Refund(x) /\ x.r = None
  BY DEF Refund, Fields
<1>3. \A r \in ReturnIds : ~Works(c, r)
  BY <1>1 DEF Works
<1> HIDE DEF x
<1>. QED BY <1>1, <1>2, <1>3, ReturnsAssumption, CallStep

LEMMA BookStep ==
  ASSUME Inv, NEW c \in Calls, call[c] # NoCall, Book(c)
  PROVE  Inv'
<1>1. call[c].at = "book" /\ UNCHANGED <<restocked, deciding, asks>>
  BY DEF Book, buyerVars
<1>2. CASE Refunded(c) /\ UNCHANGED <<ret, excused>>
  BY <1>1, <1>2, RefundedStep
<1>3. ASSUME NEW x, Refund(x), x.r = call[c].r, x.owner = call[c].owner,
             call' = [call EXCEPT ![c] = x], UNCHANGED <<ret, excused>>
      PROVE  Inv'
  <2>1. x.r \in ReturnIds \ excused.left => ret[x.r].st \in {"APPROVED", "REFUNDING", "REFUNDED"}
    BY <1>3 DEF Inv, Called
  <2>2. \A r \in ReturnIds : Works(c, r) => x.r = r /\ (x.owner \/ x.at \in {"reverse", "finish"})
    BY <1>1, <1>3 DEF Works
  <2>. QED BY <1>1, <1>3, <2>1, <2>2, CallStep
<1>4. CASE Failed(c, FALSE)
  BY <1>1, <1>4, FailedStep
<1>5. Refund(call[c])
  BY DEF Inv, Types
<1>6. CASE call' = [call EXCEPT ![c].at = "charge"] /\ UNCHANGED <<ret, excused>>
  <2> DEFINE x == [call[c] EXCEPT !.at = "charge"]
  <2>1. Refund(x) /\ x.r = call[c].r /\ x.owner = call[c].owner
    BY <1>5 DEF Refund, Fields
  <2>2. call' = [call EXCEPT ![c] = x]
    BY <1>6
  <2> HIDE DEF x
  <2>. QED BY <1>3, <1>6, <2>1, <2>2
<1>7. CASE /\ call' = [call EXCEPT ![c].at = "charge", ![c].booked = TRUE]
           /\ UNCHANGED <<ret, excused>>
  <2> DEFINE x == [call[c] EXCEPT !.at = "charge", !.booked = TRUE]
  <2>1. Refund(x) /\ x.r = call[c].r /\ x.owner = call[c].owner
    BY <1>5 DEF Refund, Fields
  <2>2. call' = [call EXCEPT ![c] = x]
    BY <1>7 DEF Inv, Types
  <2> HIDE DEF x
  <2>. QED BY <1>3, <1>7, <2>1, <2>2
<1>. QED BY <1>2, <1>4, <1>6, <1>7 DEF Book

LEMMA ChargeStep ==
  ASSUME Inv, NEW c \in Calls, call[c] # NoCall,
         Charge(c) \/ \E paid \in BOOLEAN : ChargeFails(c, paid)
  PROVE  Inv'
<1>1. CASE Charge(c)
  BY <1>1, RefundedStep DEF Charge, buyerVars
<1>2. ASSUME NEW paid \in BOOLEAN, ChargeFails(c, paid)
      PROVE  Inv'
  BY <1>2, FailedStep DEF ChargeFails, buyerVars
<1>. QED BY <1>1, <1>2

LEMMA ReverseStep ==
  ASSUME Inv, NEW c \in Calls, call[c] # NoCall, Reverse(c)
  PROVE  Inv'
<1> DEFINE x == [call[c] EXCEPT !.at = "finish"]
<1>1. /\ call[c].at = "reverse" /\ call' = [call EXCEPT ![c] = x]
      /\ UNCHANGED <<ret, restocked, deciding, asks, excused>>
  BY DEF Reverse, buyerVars, Inv, Types
<1>2. Refund(call[c])
  BY DEF Inv, Types
<1>3. Refund(x) /\ x.r = call[c].r /\ x.at = "finish"
  BY <1>1, <1>2 DEF Refund, Fields
<1>4. x.r \in ReturnIds \ excused.left => ret[x.r].st \in {"APPROVED", "REFUNDING", "REFUNDED"}
  BY <1>3 DEF Inv, Called
<1>5. \A r \in ReturnIds : Works(c, r) => x.r = r /\ (x.owner \/ x.at \in {"reverse", "finish"})
  BY <1>3 DEF Works
<1> HIDE DEF x
<1>. QED BY <1>1, <1>3, <1>4, <1>5, CallStep

(* the return is read again under its lock: only the first call to get here *)
(* restocks it                                                              *)
LEMMA FinishStep ==
  ASSUME Inv, NEW c \in Calls, call[c] # NoCall, Finish(c)
  PROVE  Inv'
<1> DEFINE r == call[c].r
<1>1. /\ call[c].at = "finish" /\ call' = [call EXCEPT ![c] = NoCall]
      /\ UNCHANGED <<deciding, asks, excused>>
      /\ \/ ret[r].st = "REFUNDED" /\ UNCHANGED <<ret, restocked>>
         \/ /\ ret[r].st # "REFUNDED"
            /\ restocked' = [restocked EXCEPT ![r] = @ + 1]
            /\ ret' = [ret EXCEPT ![r].st = "REFUNDED"]
  BY DEF Finish, buyerVars
<1>2. r \in ReturnIds
  BY <1>1 DEF Inv, Types, Refund
<1>3. r \notin excused.left => ret[r].st \in {"APPROVED", "REFUNDING", "REFUNDED"}
  BY <1>2 DEF Inv, Called
<1>4. \A q \in ReturnIds : Works(c, q) => q = r
  BY DEF Works
<1>5. /\ call'[c] = NoCall /\ \A d \in Calls : d # c => call'[d] = call[d]
      /\ call' = [d \in Calls |-> call'[d]]
  BY <1>1 DEF Inv, Types
<1> HIDE DEF r
<1>6. /\ ret' \in [ReturnIds -> Record] /\ restocked' \in [ReturnIds -> Nat]
      /\ ret'[r].st = "REFUNDED" /\ \A q \in ReturnIds : q # r => ret'[q] = ret[q]
      /\ restocked'[r] = IF ret[r].st = "REFUNDED" THEN restocked[r] ELSE restocked[r] + 1
      /\ \A q \in ReturnIds : q # r => restocked'[q] = restocked[q]
  <2>1. ret \in [ReturnIds -> Record] /\ restocked \in [ReturnIds -> Nat]
    BY DEF Inv, Types
  <2>. QED BY <1>1, <1>2, <2>1 DEF Record, States
<1>7. Types'
  BY <1>1, <1>5, <1>6 DEF Inv, Types, Refund
<1>8. One'
  BY <1>1, <1>3, <1>6 DEF Inv, One, Types, Decision
<1>9. Called'
  BY <1>1, <1>5, <1>6 DEF Inv, Called
<1>10. Held'
  <2> SUFFICES ASSUME NEW q \in ReturnIds \ excused.stuck, ret'[q].st = "REFUNDING"
               PROVE  \E d \in Calls : Works(d, q)'
    BY <1>1 DEF Held
  <2>1. q # r /\ ret[q].st = "REFUNDING"
    BY <1>6
  <2>2. PICK d \in Calls : Works(d, q)
    BY <2>1 DEF Inv, Held
  <2>. QED BY <1>4, <1>5, <2>1, <2>2 DEF Works
<1>11. RestockedOnce'
  BY <1>1, <1>2, <1>6 DEF Inv, RestockedOnce
<1>. QED BY <1>7, <1>8, <1>9, <1>10, <1>11 DEF Inv

-----------------------------------------------------------------------------
(* Every step keeps the invariant                                          *)

LEMMA StepInv == Inv /\ [ReturnsNext]_retVars => Inv'
<1> SUFFICES ASSUME Inv, [ReturnsNext]_retVars PROVE Inv'
  OBVIOUS
<1>1. CASE BuyerNext
  BY <1>1, BuyerStep, CreateStep DEF BuyerNext
<1>2. CASE SupplierNext
  BY <1>2, LeaveStep, DecideStep, ReadStep, SaveStep DEF SupplierNext
<1>3. CASE AdminNext
  <2>1. PICK c \in Calls :
          \/ \E a \in Typed : RefundPayment(c, a) \/ \E r \in ReturnIds : ClaimRefund(c, r, a)
          \/ /\ call[c] # NoCall
             /\ \/ Book(c) \/ Charge(c) \/ (\E paid \in BOOLEAN : ChargeFails(c, paid))
                \/ Reverse(c) \/ Stopped(c) \/ Finish(c)
    BY <1>3 DEF AdminNext
  <2>2. CASE call[c] # NoCall /\ Stopped(c)
    BY <2>2, EndStep DEF Stopped, buyerVars
  <2>. QED BY <2>1, <2>2, RefundPaymentStep, ClaimStep, BookStep, ChargeStep, ReverseStep, FinishStep
<1>4. CASE RefundReported
  BY <1>4, QuietStep DEF RefundReported, buyerVars, Inv, Types
<1>5. CASE UNCHANGED retVars
  BY <1>5, QuietStep DEF retVars, Inv, Types
<1>. QED BY <1>1, <1>2, <1>3, <1>4, <1>5 DEF ReturnsNext

(* The invariant holds in every reachable state: one decision per row       *)
(* (supplier/returns), calls only on returns that were approved, and a      *)
(* claim that some call of process_return_refund will end.                  *)
THEOREM Invariant == ReturnsSpec => []Inv
<1>1. Inv /\ [ReturnsNext]_retVars => Inv'
  BY StepInv
<1>. QED BY InitInv, <1>1, PTL DEF ReturnsSpec

(* The units of a return go back into stock once, when it is refunded,      *)
(* whatever the number of calls of process_return_refund that refund it.    *)
THEOREM Restocked == ReturnsSpec => []RestockedOnce
<1>1. Inv => RestockedOnce
  BY DEF Inv
<1>. QED BY Invariant, <1>1, PTL

(* A claimed return has a call that works on it, unless one died or failed  *)
(* to reverse the payout.                                                   *)
THEOREM Claim == ReturnsSpec => []ClaimHeld
<1>1. Inv => ClaimHeld
  BY DEF Inv, Held, ClaimHeld, Works, Callers
<1>. QED BY Invariant, <1>1, PTL

(* what DecidedOnce allows to happen to one return *)
Stands(r) ==
  /\ ret[r].st = "REJECTED" => ret'[r].st = "REJECTED"
  /\ ret[r].st = "REFUNDED" => ret'[r].st = "REFUNDED"
  /\ ret[r].st \in {"APPROVED", "REFUNDING"} => ret'[r].st \notin {"REQUESTED", "REJECTED"}

LEMMA DecisionStands ==
  ASSUME Inv, [ReturnsNext]_retVars, NEW r \in ReturnIds \ excused'.left
  PROVE  Stands(r)
<1>1. ret \in [ReturnIds -> Record]
  BY DEF Inv, Types
<1>2. CASE ret' = ret
  BY <1>2 DEF Stands
<1>3. ASSUME NEW t \in AskSlots, CreateReturn(t)
      PROVE  Stands(r)
  <2> DEFINE q == CHOOSE q \in ReturnIds : ret[q].st = "none"
  <2>1. q \in ReturnIds /\ ret[q].st = "none"
    BY <1>3 DEF CreateReturn
  <2>2. \E x : ret' = [ret EXCEPT ![q] = x]
    BY <1>3 DEF CreateReturn
  <2> HIDE DEF q
  <2>. QED BY <1>1, <2>1, <2>2 DEF Stands
<1>4. ASSUME NEW d \in deciding, SaveDecision(d)
      PROVE  Stands(r)
  <2>1. d.r \in ReturnIds /\ (d.r = r => ret[r].st = "REQUESTED")
    BY <1>4 DEF SaveDecision, Inv, Types, Decision, One
  <2>. QED BY <1>1, <1>4, <2>1 DEF SaveDecision, Stands, Record
<1>5. ASSUME NEW c \in Calls, NEW q \in ReturnIds, NEW a \in Typed, ClaimRefund(c, q, a)
      PROVE  Stands(r)
  BY <1>1, <1>5 DEF ClaimRefund, Stands, Record
<1>6. ASSUME NEW c \in Calls, NEW paid \in BOOLEAN, Failed(c, paid)
      PROVE  Stands(r)
  BY <1>1, <1>6 DEF Failed, Stands, Record
<1>7. ASSUME NEW c \in Calls, call[c] # NoCall, Finish(c)
      PROVE  Stands(r)
  <2>1. call[c].r \in ReturnIds
    BY <1>7 DEF Finish, Inv, Types, Refund
  <2>2. call[c].r = r => ret[r].st \in {"APPROVED", "REFUNDING", "REFUNDED"}
    BY <1>7 DEF Finish, Inv, Called
  <2>. QED BY <1>1, <1>7, <2>1, <2>2 DEF Finish, Stands, Record
<1>8. CASE BuyerNext
  BY <1>2, <1>3, <1>8 DEF BuyerNext, ShowOrder, OpenReturnForm, LeaveOrder, AskReturn, CheckReturn
<1>9. CASE SupplierNext
  BY <1>2, <1>4, <1>9 DEF SupplierNext, LeaveRow, Decide, ReadReturn
<1>10. CASE AdminNext
  BY <1>2, <1>5, <1>6, <1>7, <1>10
    DEF AdminNext, RefundPayment, Book, Charge, ChargeFails, Reverse, Stopped
<1>. QED BY <1>2, <1>8, <1>9, <1>10 DEF ReturnsNext, RefundReported, retVars

(* A decision stands: what approve_return, reject_return or the refund made *)
(* of a return is not undone by a decision that read it before.             *)
THEOREM DecisionHolds == ReturnsSpec => DecidedOnce
<1>1. Inv /\ [ReturnsNext]_retVars => [\A r \in ReturnIds \ excused'.left :
        /\ ret[r].st = "REJECTED" => ret'[r].st = "REJECTED"
        /\ ret[r].st = "REFUNDED" => ret'[r].st = "REFUNDED"
        /\ ret[r].st \in {"APPROVED", "REFUNDING"} => ret'[r].st \notin {"REQUESTED", "REJECTED"}]_retVars
  BY DecisionStands DEF Stands
<1>. QED BY Invariant, <1>1, PTL DEF ReturnsSpec, DecidedOnce

-----------------------------------------------------------------------------
(* One value is refunded for a return.  Until it is claimed nothing was     *)
(* taken and nobody works on it; then everybody works with the amount the   *)
(* first call settled.                                                      *)

Agreed(r) ==
  /\ ret[r].st \in {"none", "REQUESTED", "APPROVED", "REJECTED"} =>
       charged[r] = {} /\ Callers(r) = {}
  /\ charged[r] \subseteq {ret[r].amount}
  /\ \A c \in Callers(r) : call[c].amount = ret[r].amount

Agreements ==
  /\ charged = [r \in ReturnIds |-> charged[r]]
  /\ \A r \in ReturnIds \ (excused.split \cup excused.left) : Agreed(r)

(* of the calls that refund r, c at most goes on or ends *)
WorksOn(c, r) ==
  /\ \A d \in Calls : d # c => call'[d] = call[d]
  /\ c \in Callers(r)' => c \in Callers(r) /\ call'[c].amount = call[c].amount

LEMMA GoesOn ==
  ASSUME NEW c \in Calls, NEW r \in ReturnIds, Agreed(r), WorksOn(c, r),
         ret'[r].amount = ret[r].amount,
         ret'[r].st = ret[r].st \/ ret'[r].st = "REFUNDED",
         \/ charged'[r] = charged[r]
         \/ c \in Callers(r) /\ charged'[r] = charged[r] \cup {call[c].amount}
  PROVE  Agreed(r)'
<1>1. \A d \in Callers(r)' : d \in Callers(r) /\ call'[d].amount = call[d].amount
  BY DEF WorksOn, Callers
<1>2. ret'[r].st \in {"none", "REQUESTED", "APPROVED", "REJECTED"} =>
        charged'[r] = {} /\ Callers(r)' = {}
  BY <1>1 DEF Agreed
<1>3. charged'[r] \subseteq {ret'[r].amount}
  BY DEF Agreed
<1>4. \A d \in Callers(r)' : call'[d].amount = ret'[r].amount
  BY <1>1 DEF Agreed
<1>. QED BY <1>2, <1>3, <1>4 DEF Agreed

(* where the call of a refund stands is not what it asks for *)
LEMMA CallGoes ==
  ASSUME Inv, NEW c \in Calls, call[c] # NoCall, NEW r \in ReturnIds,
         \/ Refunded(c)
         \/ call' = [call EXCEPT ![c] = NoCall]
         \/ call' = [call EXCEPT ![c].at = "finish"]
         \/ call' = [call EXCEPT ![c].at = "charge"]
         \/ call' = [call EXCEPT ![c].at = "charge", ![c].booked = TRUE]
  PROVE  WorksOn(c, r)
<1>1. Refund(call[c]) /\ call = [d \in Calls |-> call[d]]
  BY DEF Inv, Types
<1>2. ASSUME NEW x, call' = [call EXCEPT ![c] = x],
             x = NoCall \/ (x.r = call[c].r /\ x.amount = call[c].amount)
      PROVE  WorksOn(c, r)
  BY <1>1, <1>2 DEF WorksOn, Callers
<1>3. /\ [call[c] EXCEPT !.at = "finish"].r = call[c].r
      /\ [call[c] EXCEPT !.at = "finish"].amount = call[c].amount
      /\ [call[c] EXCEPT !.at = "charge"].r = call[c].r
      /\ [call[c] EXCEPT !.at = "charge"].amount = call[c].amount
  BY <1>1 DEF Refund, Fields
<1>4. /\ [call[c] EXCEPT !.at = "charge", !.booked = TRUE].r = call[c].r
      /\ [call[c] EXCEPT !.at = "charge", !.booked = TRUE].amount = call[c].amount
  BY <1>1 DEF Refund, Fields
<1>5. /\ [call[c] EXCEPT !.at = "reverse", !.owner = FALSE, !.booked = FALSE].r = call[c].r
      /\ [call[c] EXCEPT !.at = "reverse", !.owner = FALSE, !.booked = FALSE].amount = call[c].amount
  BY <1>1 DEF Refund, Fields
<1>6. CASE call' = [call EXCEPT ![c] = NoCall]
  BY <1>2, <1>6
<1>7. CASE call' = [call EXCEPT ![c].at = "finish"]
  BY <1>2, <1>3, <1>7
<1>8. CASE call' = [call EXCEPT ![c].at = "charge"]
  BY <1>2, <1>3, <1>8
<1>9. CASE call' = [call EXCEPT ![c].at = "charge", ![c].booked = TRUE]
  <2> DEFINE x == [call[c] EXCEPT !.at = "charge", !.booked = TRUE]
  <2>1. call' = [call EXCEPT ![c] = x]
    BY <1>1, <1>9
  <2> HIDE DEF x
  <2>. QED BY <1>2, <1>4, <2>1 DEF x
<1>10. CASE Refunded(c) /\ call[c].r # None
  <2> DEFINE x == [call[c] EXCEPT !.at = "reverse", !.owner = FALSE, !.booked = FALSE]
  <2>1. call' = [call EXCEPT ![c] = x]
    BY <1>1, <1>10 DEF Refunded
  <2>2. x.r = call[c].r /\ x.amount = call[c].amount
    BY <1>5
  <2> HIDE DEF x
  <2>. QED BY <1>2, <2>1, <2>2
<1>11. CASE Refunded(c) /\ call[c].r = None
  BY <1>6, <1>11 DEF Refunded
<1>. QED BY <1>6, <1>7, <1>8, <1>9, <1>10, <1>11

(* a return is claimed by the first call to refund it, and joined after *)
LEMMA ClaimAgrees ==
  ASSUME Inv, NEW c \in Calls, NEW q \in ReturnIds, NEW a \in Typed, ClaimRefund(c, q, a),
         NEW r \in ReturnIds, Agreed(r)
  PROVE  Agreed(r)'
<1> DEFINE x == [r |-> q, at |-> "book", amount |-> Claimed(q, a),
                 owner |-> ret[q].st = "APPROVED", booked |-> FALSE]
<1>1. /\ call[c] = NoCall /\ ret[q].st \in {"APPROVED", "REFUNDING"}
      /\ call' = [call EXCEPT ![c] = x]
      /\ ret' = [ret EXCEPT ![q].st = "REFUNDING", ![q].amount = Claimed(q, a)]
      /\ charged' = charged
  BY DEF ClaimRefund
<1>2. x.r = q /\ x.amount = Claimed(q, a)
  OBVIOUS
<1> HIDE DEF x
<1>3. /\ ret'[q].st = "REFUNDING" /\ ret'[q].amount = Claimed(q, a)
      /\ r # q => ret'[r] = ret[r]
  BY <1>1 DEF Inv, Types, Record
<1>4. call'[c] = x /\ \A d \in Calls : d # c => call'[d] = call[d]
  BY <1>1 DEF Inv, Types
<1>5. \A d \in Callers(r)' : (d \in Callers(r) /\ call'[d] = call[d]) \/ (d = c /\ q = r)
  BY <1>2, <1>4 DEF Callers
<1>6. CASE q = r
  <2>1. ret[r].st = "REFUNDING" => Claimed(r, a) = ret[r].amount
    BY DEF Claimed
  <2>2. ret[r].st = "APPROVED" => charged[r] = {} /\ Callers(r) = {}
    BY DEF Agreed
  <2>3. \A d \in Callers(r)' : call'[d].amount = Claimed(r, a)
    BY <1>1, <1>2, <1>4, <1>5, <1>6, <2>1, <2>2 DEF Agreed
  <2>. QED BY <1>1, <1>3, <1>6, <2>1, <2>2, <2>3 DEF Agreed
<1>7. CASE q # r
  <2>1. /\ Callers(r)' \subseteq Callers(r)
        /\ \A d \in Callers(r)' : call'[d] = call[d]
    BY <1>5, <1>7
  <2>. QED BY <1>1, <1>3, <1>7, <2>1 DEF Agreed
<1>. QED BY <1>6, <1>7

(* the claim is only given up quietly by the last call, with nothing taken *)
LEMMA FailedAgrees ==
  ASSUME Inv, NEW c \in Calls, call[c] # NoCall, NEW paid \in BOOLEAN, Failed(c, paid),
         NEW r \in ReturnIds \ excused'.split, Agreed(r),
         \/ charged'[r] = charged[r]
         \/ paid /\ c \in Callers(r) /\ charged'[r] = charged[r] \cup {call[c].amount}
  PROVE  Agreed(r)'
<1>1. call' = [call EXCEPT ![c] = NoCall]
  BY DEF Failed
<1>2. WorksOn(c, r)
  BY <1>1, CallGoes
<1>3. CASE ret'[r] = ret[r]
  BY <1>2, <1>3, GoesOn
<1>4. CASE ret'[r] # ret[r]
  <2>1. /\ call[c].r = r /\ ret' = [ret EXCEPT ![r].st = "APPROVED"]
        /\ ~(paid \/ Callers(r) # {c} \/ charged[r] # {})
    BY <1>4 DEF Failed, Inv, Types, Excuses
  <2>2. charged'[r] = {} /\ Callers(r)' = {}
    BY <1>1, <1>2, <2>1 DEF WorksOn, Callers, Inv, Types
  <2>. QED BY <2>2 DEF Agreed
<1>. QED BY <1>3, <1>4

LEMMA TookAgrees ==
  ASSUME Inv, Agreements, NEW c \in Calls, call[c] # NoCall, Took(c), NEW r \in ReturnIds
  PROVE  \/ charged'[r] = charged[r]
         \/ c \in Callers(r) /\ charged'[r] = charged[r] \cup {call[c].amount}
  BY DEF Took, Callers, Agreements

(* Every step keeps the agreement *)
LEMMA StepSettled == Inv /\ Agreements /\ [ReturnsNext]_retVars => Agreements'
<1> SUFFICES ASSUME Inv, Agreements, [ReturnsNext]_retVars PROVE Agreements'
  OBVIOUS
<1>1. charged' = [q \in ReturnIds |-> charged'[q]]
  <2>1. CASE charged' = charged
    BY <2>1 DEF Agreements
  <2>2. ASSUME NEW c \in Calls, Took(c)
        PROVE  charged' = [q \in ReturnIds |-> charged'[q]]
    BY <2>2 DEF Took, Agreements
  <2>3. CASE BuyerNext
    BY <2>1, <2>3 DEF BuyerNext, ShowOrder, OpenReturnForm, LeaveOrder, AskReturn, CheckReturn,
                      CreateReturn
  <2>4. CASE SupplierNext
    BY <2>1, <2>4 DEF SupplierNext, LeaveRow, Decide, ReadReturn, SaveDecision
  <2>5. CASE AdminNext
    BY <2>1, <2>2, <2>5 DEF AdminNext, RefundPayment, ClaimRefund, Book, Charge, ChargeFails,
                            Reverse, Stopped, Finish
  <2>. QED BY <2>1, <2>3, <2>4, <2>5 DEF ReturnsNext, RefundReported, retVars
<1>2. SUFFICES ASSUME NEW r \in ReturnIds \ (excused'.split \cup excused'.left)
               PROVE  Agreed(r)'
  BY <1>1 DEF Agreements
<1>3. ret \in [ReturnIds -> Record] /\ excused \in Excuses
  BY DEF Inv, Types
<1>4. r \notin excused.split \cup excused.left
  <2>1. CASE excused' = excused
    BY <2>1
  <2>2. ASSUME NEW q \in ReturnIds, LeaveRow(q)
        PROVE  r \notin excused.split \cup excused.left
    BY <1>2, <1>3, <2>2 DEF LeaveRow, Excuses
  <2>3. ASSUME NEW c \in Calls, NEW paid \in BOOLEAN, Failed(c, paid)
        PROVE  r \notin excused.split \cup excused.left
    BY <1>2, <1>3, <2>3 DEF Failed, Excuses
  <2>4. ASSUME NEW c \in Calls, Stopped(c)
        PROVE  r \notin excused.split \cup excused.left
    BY <1>2, <1>3, <2>4 DEF Stopped, Excuses
  <2>5. CASE BuyerNext
    BY <1>3, <2>5 DEF BuyerNext, ShowOrder, OpenReturnForm, LeaveOrder, AskReturn, CheckReturn,
                      CreateReturn, Excuses
  <2>6. CASE SupplierNext
    BY <2>1, <2>2, <2>6 DEF SupplierNext, Decide, ReadReturn, SaveDecision
  <2>7. CASE AdminNext
    BY <2>1, <2>3, <2>4, <2>7 DEF AdminNext, RefundPayment, ClaimRefund, Book, Charge,
                                  ChargeFails, Reverse, Finish
  <2>. QED BY <2>1, <2>5, <2>6, <2>7 DEF ReturnsNext, RefundReported, retVars
<1>5. Agreed(r)
  BY <1>4 DEF Agreements
<1>6. CASE UNCHANGED <<ret, call, charged>>
  BY <1>5, <1>6 DEF Agreed, Callers
<1>7. CASE BuyerNext
  <2>1. ASSUME NEW t \in AskSlots, CreateReturn(t)
        PROVE  Agreed(r)'
    <3> DEFINE q == CHOOSE q \in ReturnIds : ret[q].st = "none"
    <3>1. q \in ReturnIds /\ ret[q].st = "none" /\ UNCHANGED <<call, charged>>
      BY <2>1 DEF CreateReturn
    <3>2. \E x : ret' = [ret EXCEPT ![q] = x]
      BY <2>1 DEF CreateReturn
    <3> HIDE DEF q
    <3>3. CASE q = r
      BY <1>5, <3>1, <3>3 DEF Agreed, Callers
    <3>4. CASE q # r
      <4>1. ret'[r] = ret[r]
        BY <1>3, <3>1, <3>2, <3>4
      <4>. QED BY <1>5, <3>1, <4>1 DEF Agreed, Callers
    <3>. QED BY <3>3, <3>4
  <2>. QED BY <1>6, <1>7, <2>1
         DEF BuyerNext, ShowOrder, OpenReturnForm, LeaveOrder, AskReturn, CheckReturn
<1>8. CASE SupplierNext
  <2>1. ASSUME NEW d \in deciding, SaveDecision(d)
        PROVE  Agreed(r)'
    <3>1. d.r \in ReturnIds /\ (d.r = r => ret[r].st = "REQUESTED")
      BY <1>4, <2>1 DEF SaveDecision, Inv, Types, Decision, One
    <3>2. ret'[r].amount = ret[r].amount /\ (d.r # r => ret'[r] = ret[r])
      BY <1>3, <2>1, <3>1 DEF SaveDecision, Record
    <3>3. UNCHANGED <<call, charged>>
      BY <2>1 DEF SaveDecision
    <3>. QED BY <1>5, <3>1, <3>2, <3>3 DEF Agreed, Callers
  <2>. QED BY <1>6, <1>8, <2>1 DEF SupplierNext, LeaveRow, Decide, ReadReturn
<1>9. CASE AdminNext
  <2>1. ASSUME NEW c \in Calls, NEW a \in Typed, RefundPayment(c, a)
        PROVE  Agreed(r)'
    <3>1. /\ UNCHANGED <<ret, charged>> /\ call[c] = NoCall
          /\ call'[c].r = None /\ \A d \in Calls : d # c => call'[d] = call[d]
      BY <2>1 DEF RefundPayment, Inv, Types
    <3>2. WorksOn(c, r)
      BY <3>1, ReturnsAssumption DEF WorksOn, Callers
    <3>. QED BY <1>5, <3>1, <3>2, GoesOn
  <2>2. ASSUME NEW c \in Calls, NEW q \in ReturnIds, NEW a \in Typed, ClaimRefund(c, q, a)
        PROVE  Agreed(r)'
    BY <1>5, <2>2, ClaimAgrees
  <2>3. ASSUME NEW c \in Calls, call[c] # NoCall, Book(c)
        PROVE  Agreed(r)'
    <3>1. charged' = charged
      BY <2>3 DEF Book
    <3>2. CASE Failed(c, FALSE)
      BY <1>2, <1>5, <2>3, <3>1, <3>2, FailedAgrees
    <3>3. CASE ~Failed(c, FALSE)
      <4>1. UNCHANGED ret
        BY <2>3, <3>3 DEF Book
      <4>2. WorksOn(c, r)
        BY <2>3, <3>3, CallGoes DEF Book
      <4>. QED BY <1>5, <3>1, <4>1, <4>2, GoesOn
    <3>. QED BY <3>2, <3>3
  <2>4. ASSUME NEW c \in Calls, call[c] # NoCall, Charge(c)
        PROVE  Agreed(r)'
    <3>1. WorksOn(c, r)
      BY <2>4, CallGoes DEF Charge
    <3>2. \/ charged'[r] = charged[r]
          \/ c \in Callers(r) /\ charged'[r] = charged[r] \cup {call[c].amount}
      BY <2>4, TookAgrees DEF Charge
    <3>. QED BY <1>5, <2>4, <3>1, <3>2, GoesOn DEF Charge
  <2>5. ASSUME NEW c \in Calls, call[c] # NoCall, NEW paid \in BOOLEAN, ChargeFails(c, paid)
        PROVE  Agreed(r)'
    <3>1. \/ charged'[r] = charged[r]
          \/ paid /\ c \in Callers(r) /\ charged'[r] = charged[r] \cup {call[c].amount}
      BY <2>5, TookAgrees DEF ChargeFails
    <3>. QED BY <1>2, <1>5, <2>5, <3>1, FailedAgrees DEF ChargeFails
  <2>6. ASSUME NEW c \in Calls, call[c] # NoCall, Reverse(c) \/ Stopped(c)
        PROVE  Agreed(r)'
    <3>1. WorksOn(c, r)
      BY <2>6, CallGoes DEF Reverse, Stopped
    <3>. QED BY <1>5, <2>6, <3>1, GoesOn DEF Reverse, Stopped
  <2>7. ASSUME NEW c \in Calls, call[c] # NoCall, Finish(c)
        PROVE  Agreed(r)'
    <3>1. WorksOn(c, r)
      BY <2>7, CallGoes DEF Finish
    <3>2. /\ ret'[r].amount = ret[r].amount
          /\ ret'[r].st = ret[r].st \/ ret'[r].st = "REFUNDED"
          /\ charged' = charged
      BY <1>3, <2>7 DEF Finish, Record
    <3>. QED BY <1>5, <3>1, <3>2, GoesOn
  <2>. QED BY <1>9, <2>1, <2>2, <2>3, <2>4, <2>5, <2>6, <2>7 DEF AdminNext
<1>. QED BY <1>6, <1>7, <1>8, <1>9 DEF ReturnsNext, RefundReported, retVars

LEMMA AgreementsBegin == ReturnsInit => Agreements
BY ReturnsAssumption DEF ReturnsInit, Agreements, Agreed, Callers

LEMMA ReturnsShow == Inv /\ Agreements => RestockedOnce /\ ClaimHeld /\ ChargedOnce
<1>1. Inv => RestockedOnce /\ ClaimHeld
  BY DEF Inv, Held, ClaimHeld, Works, Callers
<1>2. Agreements => ChargedOnce
  <2> SUFFICES ASSUME Agreements, NEW r \in ReturnIds \ (excused.split \cup excused.left)
               PROVE  Cardinality(charged[r]) <= 1
    BY DEF ChargedOnce
  <2>1. charged[r] = {} \/ charged[r] = {ret[r].amount}
    BY DEF Agreements, Agreed
  <2>2. CASE charged[r] = {}
    <3>1. Cardinality(charged[r]) = 0
      BY <2>2, FS_EmptySet
    <3>. QED BY <3>1
  <2>3. CASE charged[r] = {ret[r].amount}
    <3>1. Cardinality(charged[r]) = 1
      BY <2>3, FS_Singleton
    <3>. QED BY <3>1
  <2>. QED BY <2>1, <2>2, <2>3
<1>. QED BY <1>1, <1>2

(* One value is refunded for a return, with however many calls and whatever *)
(* amounts its admins ask for (phase 1 of process_return_refund).           *)
THEOREM Charged == ReturnsSpec => []ChargedOnce
<1>1. Inv /\ Agreements /\ [ReturnsNext]_retVars => Agreements'
  BY StepSettled
<1>. QED BY <1>1, AgreementsBegin, ReturnsShow, Invariant, PTL DEF ReturnsSpec

-----------------------------------------------------------------------------
(* The units that the buyer asks to return                                 *)

(* what each return takes of the units, and all of them *)
Share == [r \in ReturnIds |-> IF ret[r].st \in {"none", "REJECTED"} THEN 0 ELSE ret[r].units]
Taken == SumFunctionOnSet(Share, ReturnIds)

(* with one request outstanding, what it was validated against is still left *)
Within ==
  excused.overlap \/ excused.left # {}
  \/ /\ \A t, u \in Asking : t = u
     /\ Taken <= Units
     /\ \A t \in Asking : asks[t].checked => Taken + asks[t].units <= Units

LEMMA TakenIs ==
  ASSUME ret \in [ReturnIds -> Record]
  PROVE  /\ Share \in [ReturnIds -> Nat] /\ Ints(Share, ReturnIds) /\ Taken \in Nat
         /\ UnitsBut(ret, {"none", "REJECTED"}) = Taken
<1> DEFINE standing == {r \in ReturnIds : ret[r].st \notin {"none", "REJECTED"}}
           f == [r \in ReturnIds |-> ret[r].units]
<1>1. Share \in [ReturnIds -> Nat] /\ Ints(Share, ReturnIds)
  BY DEF Share, Record, Ints
<1>2. Taken \in Nat
  BY <1>1, SumGrows, ReturnsAssumption DEF Taken
<1>3. UnitsBut(ret, {"none", "REJECTED"}) = SumFunctionOnSet(f, standing)
  BY DEF UnitsBut
<1>4. /\ standing \in SUBSET ReturnIds /\ \A r \in standing : f[r] \in Nat
      /\ \A r \in ReturnIds : Share[r] = IF r \in standing THEN f[r] ELSE 0
  BY DEF Share, Record
<1> HIDE DEF standing, f
<1>5. SumFunctionOnSet(f, standing) = SumFunctionOnSet(Share, ReturnIds)
  BY <1>4, SumWhere, ReturnsAssumption
<1>. QED BY <1>1, <1>2, <1>3, <1>5 DEF Taken

(* a step that changes one return changes the sum by what this one takes *)
LEMMA TakenMoves ==
  ASSUME NEW q \in ReturnIds, ret \in [ReturnIds -> Record], ret' \in [ReturnIds -> Record],
         \A r \in ReturnIds : r # q => ret'[r] = ret[r]
  PROVE  Taken \in Nat /\ Taken' \in Nat /\ Taken' = Taken - Share[q] + Share'[q]
<1>1. /\ Share \in [ReturnIds -> Nat] /\ Ints(Share, ReturnIds) /\ Taken \in Nat
  BY TakenIs
<1>2. Share' \in [ReturnIds -> Nat] /\ Ints(Share', ReturnIds)
  BY DEF Share, Record, Ints
<1>3. \A r \in ReturnIds \ {q} : Share'[r] = Share[r]
  BY DEF Share
<1>4. Taken' = SumFunctionOnSet(Share', ReturnIds)
  BY DEF Taken
<1>5. SumFunctionOnSet(Share', ReturnIds) = SumFunctionOnSet(Share, ReturnIds) - Share[q] + Share'[q]
  BY <1>1, <1>2, <1>3, SumChange, ReturnsAssumption
<1>6. SumFunctionOnSet(Share', ReturnIds) \in Nat
  BY <1>2, SumGrows, ReturnsAssumption
<1>. QED BY <1>1, <1>4, <1>5, <1>6 DEF Taken

(* the requests rest, or some are gone: what is taken must not grow *)
LEMMA WithinStays ==
  ASSUME Within, ret \in [ReturnIds -> Record], Taken' \in Nat, Taken' <= Taken,
         UNCHANGED asks, Asking \subseteq AskSlots, asks \in [AskSlots -> Ask \cup {NoAsk}],
         excused.overlap => excused'.overlap, excused.left \subseteq excused'.left
  PROVE  Within'
<1>1. Asking' = Asking
  BY DEF Asking
<1>2. CASE excused'.overlap \/ excused'.left # {}
  BY <1>2 DEF Within
<1>3. CASE ~excused'.overlap /\ excused'.left = {}
  <2>1. /\ \A t, u \in Asking : t = u
        /\ Taken <= Units
        /\ \A t \in Asking : asks[t].checked => Taken + asks[t].units <= Units
    BY <1>3 DEF Within
  <2>2. Taken \in Nat /\ Units \in Nat /\ \A t \in Asking : asks[t].units \in Nat
    BY TakenIs, ReturnsAssumption DEF Asking, Ask
  <2>3. Taken' <= Units /\ \A t \in Asking : asks[t].checked => Taken' + asks[t].units <= Units
    BY <2>1, <2>2
  <2>. QED BY <1>1, <2>1, <2>3 DEF Within
<1>. QED BY <1>2, <1>3

LEMMA WithinAsks ==
  ASSUME Inv, Within,
         \/ (\E n \in 0 .. Units : AskReturn(n)) \/ LeaveOrder \/ (\E t \in AskSlots : CheckReturn(t))
  PROVE  Within'
<1>1. Taken' = Taken /\ excused'.left = excused.left /\ (excused.overlap => excused'.overlap)
  <2>1. Share' = Share
    BY DEF AskReturn, LeaveOrder, CheckReturn, Share
  <2>2. excused' = excused \/ excused' = [excused EXCEPT !.overlap = @ \/ Asking # {}]
    BY DEF AskReturn, LeaveOrder, CheckReturn
  <2>3. excused'.left = excused.left /\ (excused.overlap => excused'.overlap)
    BY <2>2 DEF Inv, Types, Excuses
  <2>. QED BY <2>1, <2>3 DEF Taken
<1>2. CASE excused'.overlap \/ excused'.left # {}
  BY <1>2 DEF Within
<1>3. CASE ~excused'.overlap /\ excused'.left = {}
  <2>1. /\ \A t, u \in Asking : t = u
        /\ Taken <= Units
        /\ \A t \in Asking : asks[t].checked => Taken + asks[t].units <= Units
    BY <1>1, <1>3 DEF Within
  <2>2. \A t \in AskSlots : asks[t] = NoAsk \/ (asks[t] \in Ask /\ asks[t].units \in Nat)
    BY DEF Inv, Types, Ask
  <2> DEFINE Onward == /\ \A t, u \in Asking' : t = u
                      /\ \A t \in Asking' : asks'[t].checked => Taken + asks'[t].units <= Units
  <2>3. ASSUME NEW n \in 0 .. Units, AskReturn(n)
        PROVE  Onward
    <3> DEFINE x == [units |-> n, checked |-> FALSE, here |-> TRUE]
    <3>1. Asking = {}
      BY <1>3, <2>3 DEF AskReturn, Inv, Types, Excuses
    <3>2. asks' = [asks EXCEPT ![FreeAsk] = x]
      BY <2>3 DEF AskReturn
    <3>3. \A t \in AskSlots : asks'[t] = asks[t] \/ (t = FreeAsk /\ asks'[t] = x)
      BY <3>2 DEF Inv, Types
    <3>4. \A t \in Asking' : t = FreeAsk /\ ~asks'[t].checked
      BY <3>1, <3>3 DEF Asking
    <3>. QED BY <3>4
  <2>4. ASSUME LeaveOrder
        PROVE  Onward
    <3>1. \A t \in AskSlots : asks'[t] = IF t \in Asking THEN [asks[t] EXCEPT !.here = FALSE] ELSE NoAsk
      BY <2>4 DEF LeaveOrder
    <3>2. \A t \in Asking' : t \in Asking
      BY <3>1 DEF Asking
    <3>3. \A t \in Asking : (asks'[t].checked <=> asks[t].checked) /\ asks'[t].units = asks[t].units
      BY <2>2, <3>1 DEF Asking, Ask
    <3>. QED BY <2>1, <3>2, <3>3
  <2>5. ASSUME NEW t \in AskSlots, CheckReturn(t)
        PROVE  Onward
    <3>1. asks[t] \in Ask /\ asks[t].units \in Nat /\ t \in Asking
      BY <2>2, <2>5 DEF CheckReturn, Asking
    <3>2. Left(ret) = Units - Taken /\ Taken \in Nat
      BY TakenIs DEF Left, Inv, Types
    <3>3. /\ \A u \in AskSlots : u # t => asks'[u] = asks[u]
          /\ asks'[t] = IF asks[t].units <= Left(ret) THEN [asks[t] EXCEPT !.checked = TRUE] ELSE NoAsk
      BY <2>5 DEF CheckReturn, Inv, Types
    <3>4. \A u \in Asking' : u \in Asking
      BY <3>1, <3>3 DEF Asking
    <3>5. t \in Asking' => asks'[t].units = asks[t].units /\ asks[t].units <= Units - Taken
      BY <3>1, <3>2, <3>3 DEF Asking, Ask
    <3>6. t \in Asking' => Taken + asks'[t].units <= Units
      BY <3>1, <3>2, <3>5, ReturnsAssumption
    <3>. QED BY <2>1, <3>1, <3>3, <3>4, <3>6
  <2> HIDE DEF Onward
  <2>6. Onward
    BY <2>3, <2>4, <2>5
  <2>. QED BY <1>1, <2>1, <2>6 DEF Within, Onward
<1>. QED BY <1>2, <1>3

LEMMA WithinCreate ==
  ASSUME Inv, Within, NEW t \in AskSlots, CreateReturn(t)
  PROVE  Within'
<1> DEFINE r == CHOOSE r \in ReturnIds : ret[r].st = "none"
           x == [st |-> "REQUESTED", units |-> asks[t].units, amount |-> 0]
<1>1. r \in ReturnIds /\ ret[r].st = "none"
  BY DEF CreateReturn
<1>2. ret' = [ret EXCEPT ![r] = x] /\ asks' = [asks EXCEPT ![t] = NoAsk] /\ UNCHANGED excused
  BY DEF CreateReturn
<1>3. t \in Asking /\ asks[t].checked /\ asks[t].units \in Nat
  BY DEF CreateReturn, Asking, Inv, Types, Ask
<1> HIDE DEF r
<1>4. /\ ret \in [ReturnIds -> Record] /\ ret' \in [ReturnIds -> Record]
      /\ \A q \in ReturnIds : q # r => ret'[q] = ret[q]
      /\ ret'[r] = x
  BY <1>1, <1>2, <1>3 DEF Inv, Types, Record, States
<1>5. Share[r] = 0 /\ Share'[r] = asks[t].units
  BY <1>1, <1>4 DEF Share
<1>6. Taken \in Nat /\ Taken' \in Nat /\ Taken' = Taken - Share[r] + Share'[r]
  BY <1>1, <1>4, TakenMoves
<1>7. Taken' = Taken + asks[t].units
  BY <1>3, <1>5, <1>6
<1>8. CASE excused.overlap \/ excused.left # {}
  BY <1>2, <1>8 DEF Within
<1>9. CASE ~excused.overlap /\ excused.left = {}
  <2>1. Asking = {t} /\ Taken' <= Units
    BY <1>3, <1>7, <1>9 DEF Within
  <2>2. Asking' = {}
    BY <1>2, <2>1 DEF Asking, Inv, Types
  <2>. QED BY <2>1, <2>2 DEF Within
<1>. QED BY <1>8, <1>9

(* only a rejected return could take more than before, and none that is     *)
(* decided once is rejected and decided again                               *)
LEMMA WithinMoves ==
  ASSUME Inv, Within, UNCHANGED <<asks, excused>>, NEW q \in ReturnIds,
         ret' \in [ReturnIds -> Record], \A r \in ReturnIds : r # q => ret'[r] = ret[r],
         ret'[q].units = ret[q].units,
         excused.left = {} => ret[q].st \notin {"none", "REJECTED"}
  PROVE  Within'
<1>1. CASE excused.left # {}
  BY <1>1 DEF Within
<1>2. CASE excused.left = {}
  <2>1. ret \in [ReturnIds -> Record] /\ asks \in [AskSlots -> Ask \cup {NoAsk}]
    BY DEF Inv, Types
  <2>2. Taken \in Nat /\ Taken' \in Nat /\ Taken' = Taken - Share[q] + Share'[q]
    BY <2>1, TakenMoves
  <2>3. Share[q] = ret[q].units /\ Share'[q] \in {0, ret[q].units} /\ ret[q].units \in Nat
    BY <1>2, <2>1 DEF Share, Record
  <2>4. Taken' <= Taken
    BY <2>2, <2>3
  <2>5. Asking \subseteq AskSlots
    BY DEF Asking
  <2>. QED BY <2>1, <2>2, <2>4, <2>5, WithinStays
<1>. QED BY <1>1, <1>2

(* Every step keeps it *)
LEMMA StepWithin == Inv /\ Within /\ [ReturnsNext]_retVars => Within'
<1> SUFFICES ASSUME Inv, Within, [ReturnsNext]_retVars PROVE Within'
  OBVIOUS
<1>1. ret \in [ReturnIds -> Record] /\ asks \in [AskSlots -> Ask \cup {NoAsk}] /\ excused \in Excuses
  BY DEF Inv, Types
<1>2. ASSUME UNCHANGED <<ret, asks>>, excused'.overlap = excused.overlap,
             excused.left \subseteq excused'.left
      PROVE  Within'
  <2>1. Share' = Share
    BY <1>2 DEF Share
  <2>2. Taken' = Taken /\ Taken \in Nat
    BY <1>1, <2>1, TakenIs DEF Taken
  <2>3. Asking \subseteq AskSlots
    BY DEF Asking
  <2>. QED BY <1>1, <1>2, <2>2, <2>3, WithinStays
<1>3. CASE BuyerNext
  <2>1. CASE ShowOrder \/ OpenReturnForm
    BY <1>2, <2>1 DEF ShowOrder, OpenReturnForm
  <2>. QED BY <1>3, <2>1, WithinAsks, WithinCreate DEF BuyerNext
<1>4. CASE SupplierNext
  <2>1. ASSUME NEW r \in ReturnIds, LeaveRow(r)
        PROVE  Within'
    BY <1>1, <1>2, <2>1 DEF LeaveRow, Excuses, buyerVars
  <2>2. ASSUME NEW r \in ReturnIds, NEW to \in {"APPROVED", "REJECTED"}, Decide(r, to)
        PROVE  Within'
    BY <1>2, <2>2 DEF Decide, buyerVars
  <2>3. ASSUME NEW d \in deciding, ReadReturn(d)
        PROVE  Within'
    BY <1>2, <2>3 DEF ReadReturn, buyerVars
  <2>4. ASSUME NEW d \in deciding, SaveDecision(d)
        PROVE  Within'
    <3>1. /\ d.r \in ReturnIds /\ d.to \in States
          /\ excused.left = {} => ret[d.r].st = "REQUESTED"
      BY <2>4 DEF SaveDecision, Inv, Types, Decision, One, States
    <3>2. /\ ret' \in [ReturnIds -> Record] /\ ret'[d.r].units = ret[d.r].units
          /\ \A r \in ReturnIds : r # d.r => ret'[r] = ret[r]
          /\ UNCHANGED <<asks, excused>>
      BY <1>1, <2>4, <3>1 DEF SaveDecision, Record, buyerVars
    <3>. QED BY <3>1, <3>2, WithinMoves
  <2>. QED BY <1>4, <2>1, <2>2, <2>3, <2>4 DEF SupplierNext
<1>5. CASE AdminNext
  <2>1. PICK c \in Calls :
          \/ \E a \in Typed : RefundPayment(c, a) \/ \E r \in ReturnIds : ClaimRefund(c, r, a)
          \/ /\ call[c] # NoCall
             /\ \/ Book(c) \/ Charge(c) \/ (\E paid \in BOOLEAN : ChargeFails(c, paid))
                \/ Reverse(c) \/ Stopped(c) \/ Finish(c)
    BY <1>5 DEF AdminNext
  <2>2. UNCHANGED asks
    BY <2>1 DEF RefundPayment, ClaimRefund, Book, Charge, ChargeFails, Reverse, Stopped, Finish, buyerVars
  <2>3. call[c] # NoCall => call[c].r \in ReturnIds \cup {None}
    BY DEF Inv, Types, Refund
  <2>4. ASSUME NEW paid \in BOOLEAN, call[c] # NoCall, Failed(c, paid)
        PROVE  Within'
    <3> DEFINE r == call[c].r
               owns == r # None /\ call[c].owner /\ ret[r].st = "REFUNDING"
    <3>1. excused'.overlap = excused.overlap /\ excused'.left = excused.left
      BY <1>1, <2>4 DEF Failed, Excuses
    <3>2. CASE ~owns
      BY <1>2, <2>2, <2>4, <3>1, <3>2 DEF Failed
    <3>3. CASE owns
      <4>1. r \in ReturnIds
        BY <2>3, <2>4, <3>3
      <4>2. ret' = [ret EXCEPT ![r].st = "APPROVED"]
        BY <2>4, <3>3 DEF Failed
      <4> HIDE DEF r
      <4>3. /\ ret' \in [ReturnIds -> Record]
            /\ \A q \in ReturnIds : q # r => ret'[q] = ret[q]
            /\ ret[r].st = "REFUNDING" /\ ret'[r].st = "APPROVED" /\ ret'[r].units = ret[r].units
        BY <1>1, <3>3, <4>1, <4>2 DEF Record, States
      <4>4. Taken \in Nat /\ Taken' \in Nat /\ Taken' = Taken - Share[r] + Share'[r]
        BY <1>1, <4>1, <4>3, TakenMoves
      <4>5. Share'[r] = Share[r] /\ Share[r] \in Nat
        BY <1>1, <4>1, <4>3 DEF Share, Record
      <4>6. Taken' <= Taken
        BY <4>4, <4>5
      <4>7. Asking \subseteq AskSlots
        BY DEF Asking
      <4>. QED BY <1>1, <2>2, <3>1, <4>4, <4>6, <4>7, WithinStays
    <3>. QED BY <3>2, <3>3
  <2>5. ASSUME NEW a \in Typed, RefundPayment(c, a)
        PROVE  Within'
    BY <1>2, <2>5 DEF RefundPayment, buyerVars
  <2>6. ASSUME NEW a \in Typed, NEW r \in ReturnIds, ClaimRefund(c, r, a)
        PROVE  Within'
    <3>1. Claimed(r, a) \in Nat
      BY <1>1, ReturnsAssumption DEF Claimed, Due, Whole, Captured, Record
    <3>2. /\ ret' \in [ReturnIds -> Record] /\ ret'[r].units = ret[r].units
          /\ \A q \in ReturnIds : q # r => ret'[q] = ret[q]
          /\ ret[r].st \notin {"none", "REJECTED"}
          /\ UNCHANGED <<asks, excused>>
      BY <1>1, <2>6, <3>1 DEF ClaimRefund, Record, States, buyerVars
    <3>. QED BY <3>2, WithinMoves DEF States
  <2>7. ASSUME call[c] # NoCall, Book(c) \/ Charge(c) \/ (\E paid \in BOOLEAN : ChargeFails(c, paid))
        PROVE  Within'
    <3>1. CASE \E paid \in BOOLEAN : Failed(c, paid)
      BY <2>4, <2>7, <3>1
    <3>2. CASE ~\E paid \in BOOLEAN : Failed(c, paid)
      BY <1>2, <2>2, <2>7, <3>2 DEF Book, Charge, ChargeFails
    <3>. QED BY <3>1, <3>2
  <2>8. ASSUME call[c] # NoCall, Reverse(c) \/ Stopped(c)
        PROVE  Within'
    BY <1>1, <1>2, <2>2, <2>8 DEF Reverse, Stopped, Excuses
  <2>9. ASSUME call[c] # NoCall, Finish(c)
        PROVE  Within'
    <3> DEFINE r == call[c].r
    <3>1. r \in ReturnIds
      BY <2>9 DEF Finish, Inv, Types, Refund
    <3>2. excused.left = {} => ret[r].st \notin {"none", "REJECTED"}
      BY <2>9, <3>1 DEF Inv, Called
    <3>3. ret' = ret \/ ret' = [ret EXCEPT ![r].st = "REFUNDED"]
      BY <2>9 DEF Finish
    <3> HIDE DEF r
    <3>4. /\ ret' \in [ReturnIds -> Record] /\ ret'[r].units = ret[r].units
          /\ \A q \in ReturnIds : q # r => ret'[q] = ret[q]
      BY <1>1, <3>1, <3>3 DEF Record, States
    <3>5. UNCHANGED <<asks, excused>>
      BY <2>9 DEF Finish, buyerVars
    <3>. QED BY <3>1, <3>2, <3>4, <3>5, WithinMoves DEF States
  <2>. QED BY <2>1, <2>5, <2>6, <2>7, <2>8, <2>9
<1>6. CASE RefundReported
  BY <1>2, <1>6 DEF RefundReported, buyerVars
<1>7. CASE UNCHANGED retVars
  BY <1>2, <1>7 DEF retVars
<1>. QED BY <1>3, <1>4, <1>5, <1>6, <1>7 DEF ReturnsNext

LEMMA WithinBegins == ReturnsInit => Within
<1> SUFFICES ASSUME ReturnsInit PROVE Within
  OBVIOUS
<1>1. ret \in [ReturnIds -> Record]
  BY InitInv DEF Inv, Types
<1>2. Left(ret) = Units - Taken /\ Taken \in Nat
  BY <1>1, TakenIs DEF Left
<1>3. Taken <= Units
  BY <1>2, ReturnsAssumption DEF ReturnsInit
<1>4. Asking = {}
  BY DEF ReturnsInit, Asking
<1>. QED BY <1>3, <1>4 DEF Within

LEMMA WithinShows == Inv /\ Within => ReturnedWithinOrdered
BY TakenIs DEF Inv, Types, Within, ReturnedWithinOrdered

(* Units of the sub-order come back at most once, whatever the buyer asks   *)
(* for (returned_quantity counts what no return was rejected for), unless   *)
(* two requests were validated at once or a row was left with its decision. *)
THEOREM ReturnedWithin == ReturnsSpec => []ReturnedWithinOrdered
<1>1. Inv /\ Within /\ [ReturnsNext]_retVars => Within'
  BY StepWithin
<1>. QED BY <1>1, WithinBegins, WithinShows, Invariant, PTL DEF ReturnsSpec

-----------------------------------------------------------------------------
(* The amounts: what the provider refunds never exceeds what it captured   *)

Money ==
  /\ ret \in [ReturnIds -> Ret]
  /\ \A r \in ReturnIds : ret[r].st = "REFUNDING" => ret[r].amount \in Amounts
  /\ call \in [Calls -> RefundCall \cup {NoCall}]
  /\ request \in [Amounts -> {"none", "PENDING", "FAILED", "COMPLETED"}]
  /\ payment \in [refunded : 0 .. Captured, pending : Nat]
  /\ moved \subseteq Amounts /\ SumSet(moved) <= Captured
  /\ payout \in {"due", "PAID", "FAILED", "REVERSED"}
  /\ charged \in [ReturnIds -> SUBSET Amounts]
  /\ shown \in [can : BOOLEAN, form : BOOLEAN]

LEMMA AmountsAre ==
  /\ Captured \in Nat /\ Whole \in Nat /\ 1 <= Whole /\ Whole <= Captured /\ Units <= Whole
  /\ Amounts \subseteq Nat /\ IsFiniteSet(Amounts)
  /\ \A n \in 0 .. Units : Due(n) \in Amounts
  /\ \A a \in Typed : a = 0 \/ a \in Amounts
<1> USE ReturnsAssumption
<1>1. /\ Captured \in Nat /\ Whole \in Nat /\ 1 <= Whole /\ Whole <= Captured /\ Units <= Whole
      /\ Units \in Nat
  BY DEF Captured, Whole
<1>2. Amounts = 1 .. Captured /\ Amounts \subseteq Nat
  BY <1>1 DEF Amounts
<1>3. IsFiniteSet(Amounts)
  BY <1>1, <1>2, FS_Interval
<1> HIDE DEF Captured, Whole
<1>4. \A n \in 0 .. Units : Due(n) \in Amounts
  BY <1>1, <1>2 DEF Due
<1>5. \A a \in Typed : a = 0 \/ a \in Amounts
  BY <1>1, <1>2
<1>. QED BY <1>1, <1>2, <1>3, <1>4, <1>5

LEMMA MovedSum ==
  ASSUME Money, NEW a \in Amounts
  PROVE  /\ SumSet(moved) \in Nat
         /\ a \notin moved => SumSet(moved \cup {a}) = SumSet(moved) + a
<1>1. IsFiniteSet(moved) /\ moved \subseteq Nat /\ a \in Nat
  BY AmountsAre, FS_Subset DEF Money
<1>. QED BY <1>1, SetSumAdd

LEMMA ClaimedAmount ==
  ASSUME Money, NEW r \in ReturnIds, NEW a \in Typed
  PROVE  Claimed(r, a) \in Amounts
<1>1. ret[r].units \in 0 .. Units
  BY DEF Money, Ret
<1>. QED BY <1>1, AmountsAre DEF Claimed, Money

LEMMA CallTyped ==
  ASSUME Money, NEW c \in Calls, call[c] # NoCall
  PROVE  call[c] \in RefundCall /\ call[c].amount \in Amounts
BY DEF Money, RefundCall

LEMMA RetsTyped ==
  ASSUME Inv, Money, [ReturnsNext]_retVars
  PROVE  /\ ret' \in [ReturnIds -> Ret]
         /\ \A r \in ReturnIds : ret'[r].st = "REFUNDING" => ret'[r].amount \in Amounts
<1> DEFINE Goal == /\ ret' \in [ReturnIds -> Ret]
                   /\ \A r \in ReturnIds : ret'[r].st = "REFUNDING" => ret'[r].amount \in Amounts
<1> SUFFICES Goal
  OBVIOUS
<1>1. ASSUME UNCHANGED ret PROVE Goal
  BY <1>1 DEF Money
<1>2. ASSUME NEW r \in ReturnIds, NEW st \in States \ {"REFUNDING"},
             ret' = [ret EXCEPT ![r].st = st]
      PROVE  Goal
  BY <1>2 DEF Money, Ret, States
<1>3. ASSUME NEW t \in AskSlots, CreateReturn(t)
      PROVE  Goal
  <2> DEFINE r == CHOOSE r \in ReturnIds : ret[r].st = "none"
             x == [st |-> "REQUESTED", units |-> asks[t].units, amount |-> 0]
  <2>1. r \in ReturnIds /\ ret' = [ret EXCEPT ![r] = x]
    BY <1>3 DEF CreateReturn
  <2>2. x \in Ret /\ x.st # "REFUNDING"
    BY <1>3, AmountsAre DEF CreateReturn, Asking, Inv, Types, Ask, Ret
  <2> HIDE DEF r, x
  <2>. QED BY <2>1, <2>2 DEF Money
<1>4. ASSUME NEW d \in deciding, SaveDecision(d)
      PROVE  Goal
  <2>1. d.r \in ReturnIds /\ d.to \in States \ {"REFUNDING"} /\ ret' = [ret EXCEPT ![d.r].st = d.to]
    BY <1>4 DEF SaveDecision, Inv, Types, Decision, States
  <2> HIDE DEF Goal
  <2>. QED BY <2>1, <1>2
<1>5. ASSUME NEW c \in Calls, NEW r \in ReturnIds, NEW a \in Typed, ClaimRefund(c, r, a)
      PROVE  Goal
  <2>1. Claimed(r, a) \in Amounts /\ Claimed(r, a) \in 0 .. Captured
    BY ClaimedAmount, AmountsAre DEF Amounts
  <2>2. ret' = [ret EXCEPT ![r].st = "REFUNDING", ![r].amount = Claimed(r, a)]
    BY <1>5 DEF ClaimRefund
  <2>3. [ret[r] EXCEPT !.st = "REFUNDING", !.amount = Claimed(r, a)] \in Ret
    BY <2>1 DEF Money, Ret
  <2>4. /\ ret' \in [ReturnIds -> Ret] /\ ret'[r].amount = Claimed(r, a)
        /\ \A q \in ReturnIds : q # r => ret'[q] = ret[q]
    BY <2>1, <2>2, <2>3 DEF Money, Ret
  <2>. QED BY <2>1, <2>4 DEF Money
<1>6. ASSUME NEW c \in Calls, call[c] # NoCall, NEW paid \in BOOLEAN, Failed(c, paid)
      PROVE  Goal
  <2>1. call[c].r \in ReturnIds \cup {None}
    BY <1>6, CallTyped DEF RefundCall
  <2>2. ret' = ret \/ (call[c].r \in ReturnIds /\ ret' = [ret EXCEPT ![call[c].r].st = "APPROVED"])
    BY <1>6, <2>1 DEF Failed
  <2> HIDE DEF Goal
  <2>. QED BY <1>1, <1>2, <2>2 DEF States
<1>7. ASSUME NEW c \in Calls, call[c] # NoCall, Finish(c)
      PROVE  Goal
  <2>1. call[c].r \in ReturnIds
    BY <1>7 DEF Finish, Inv, Types, Refund
  <2>2. ret' = ret \/ ret' = [ret EXCEPT ![call[c].r].st = "REFUNDED"]
    BY <1>7 DEF Finish
  <2> HIDE DEF Goal
  <2>. QED BY <1>1, <1>2, <2>1, <2>2 DEF States
<1> HIDE DEF Goal
<1>8. CASE BuyerNext
  BY <1>1, <1>3, <1>8 DEF BuyerNext, ShowOrder, OpenReturnForm, LeaveOrder, AskReturn, CheckReturn
<1>9. CASE SupplierNext
  BY <1>1, <1>4, <1>9 DEF SupplierNext, LeaveRow, Decide, ReadReturn
<1>10. CASE AdminNext
  <2>1. PICK c \in Calls :
          \/ \E a \in Typed : RefundPayment(c, a) \/ \E r \in ReturnIds : ClaimRefund(c, r, a)
          \/ /\ call[c] # NoCall
             /\ \/ Book(c) \/ Charge(c) \/ (\E paid \in BOOLEAN : ChargeFails(c, paid))
                \/ Reverse(c) \/ Stopped(c) \/ Finish(c)
    BY <1>10 DEF AdminNext
  <2>2. CASE call[c] # NoCall /\ \E paid \in BOOLEAN : Failed(c, paid)
    BY <1>6, <2>2
  <2>3. CASE \E a \in Typed : RefundPayment(c, a) \/ \E r \in ReturnIds : ClaimRefund(c, r, a)
    BY <1>1, <1>5, <2>3 DEF RefundPayment
  <2>4. CASE call[c] # NoCall /\ Finish(c)
    BY <1>7, <2>4
  <2>5. CASE call[c] # NoCall /\ (Charge(c) \/ Reverse(c) \/ Stopped(c))
    BY <1>1, <2>5 DEF Charge, Reverse, Stopped
  <2>6. CASE call[c] # NoCall /\ Book(c) /\ ~Failed(c, FALSE)
    BY <1>1, <2>6 DEF Book
  <2>7. ASSUME NEW paid \in BOOLEAN, ChargeFails(c, paid) PROVE Failed(c, paid)
    BY <2>7 DEF ChargeFails
  <2>. QED BY <2>1, <2>2, <2>3, <2>4, <2>5, <2>6, <2>7
<1>. QED BY <1>1, <1>8, <1>9, <1>10 DEF ReturnsNext, RefundReported, retVars

LEMMA CallsTyped ==
  ASSUME Money, [ReturnsNext]_retVars
  PROVE  call' \in [Calls -> RefundCall \cup {NoCall}]
<1> DEFINE Goal == call' \in [Calls -> RefundCall \cup {NoCall}]
<1> SUFFICES Goal
  OBVIOUS
<1>1. ASSUME UNCHANGED call PROVE Goal
  BY <1>1 DEF Money
<1>2. ASSUME NEW c \in Calls, NEW x \in RefundCall \cup {NoCall}, call' = [call EXCEPT ![c] = x]
      PROVE  Goal
  BY <1>2 DEF Money
<1>3. ASSUME NEW c \in Calls, NEW a \in Typed, RefundPayment(c, a)
      PROVE  Goal
  <2> DEFINE n == IF a = 0 THEN Captured - payment.refunded ELSE a
             x == [r |-> None, at |-> "book", owner |-> FALSE, booked |-> FALSE, amount |-> n]
  <2>1. n \in Amounts
    <3>1. payment.refunded \in 0 .. Captured /\ payment.refunded < Captured
      BY <1>3 DEF RefundPayment, Refundable, Money
    <3>2. Captured - payment.refunded \in 1 .. Captured
      BY <3>1, AmountsAre
    <3>. QED BY <3>2, AmountsAre DEF Amounts
  <2> HIDE DEF n
  <2>2. x \in RefundCall
    BY <2>1 DEF RefundCall
  <2>3. call' = [call EXCEPT ![c] = x]
    BY <1>3 DEF RefundPayment, n
  <2> HIDE DEF x, Goal
  <2>. QED BY <1>2, <2>2, <2>3
<1>4. ASSUME NEW c \in Calls, NEW r \in ReturnIds, NEW a \in Typed, ClaimRefund(c, r, a)
      PROVE  Goal
  <2> DEFINE x == [r |-> r, at |-> "book", amount |-> Claimed(r, a),
                   owner |-> ret[r].st = "APPROVED", booked |-> FALSE]
  <2>1. x \in RefundCall
    BY ClaimedAmount DEF RefundCall
  <2>2. call' = [call EXCEPT ![c] = x]
    BY <1>4 DEF ClaimRefund
  <2> HIDE DEF x, Goal
  <2>. QED BY <1>2, <2>1, <2>2
<1>5. ASSUME NEW c \in Calls, call[c] # NoCall, Refunded(c)
      PROVE  Goal
  <2> DEFINE x == [call[c] EXCEPT !.at = "reverse", !.owner = FALSE, !.booked = FALSE]
  <2>1. x \in RefundCall
    BY <1>5, CallTyped DEF RefundCall
  <2>2. call' = [call EXCEPT ![c] = NoCall] \/ call' = [call EXCEPT ![c] = x]
    BY <1>5 DEF Refunded, Money
  <2> HIDE DEF x, Goal
  <2>. QED BY <1>2, <2>1, <2>2
<1>6. ASSUME NEW c \in Calls, call[c] # NoCall,
             \/ call' = [call EXCEPT ![c].at = "charge"]
             \/ call' = [call EXCEPT ![c].at = "charge", ![c].booked = TRUE]
             \/ call' = [call EXCEPT ![c].at = "finish"]
             \/ call' = [call EXCEPT ![c] = NoCall]
      PROVE  Goal
  <2>1. call[c] \in RefundCall
    BY <1>6, CallTyped
  <2>2. /\ [call[c] EXCEPT !.at = "charge"] \in RefundCall
        /\ [call[c] EXCEPT !.at = "charge", !.booked = TRUE] \in RefundCall
        /\ [call[c] EXCEPT !.at = "finish"] \in RefundCall
    BY <2>1 DEF RefundCall
  <2>3. call' = [call EXCEPT ![c].at = "charge", ![c].booked = TRUE]
          => call' = [call EXCEPT ![c] = [call[c] EXCEPT !.at = "charge", !.booked = TRUE]]
    BY DEF Money
  <2>. QED BY <1>6, <2>2, <2>3 DEF Money
<1> HIDE DEF Goal
<1>7. CASE BuyerNext
  BY <1>1, <1>7 DEF BuyerNext, ShowOrder, OpenReturnForm, LeaveOrder, AskReturn, CheckReturn, CreateReturn
<1>8. CASE SupplierNext
  BY <1>1, <1>8 DEF SupplierNext, LeaveRow, Decide, ReadReturn, SaveDecision
<1>9. CASE AdminNext
  <2>1. PICK c \in Calls :
          \/ \E a \in Typed : RefundPayment(c, a) \/ \E r \in ReturnIds : ClaimRefund(c, r, a)
          \/ /\ call[c] # NoCall
             /\ \/ Book(c) \/ Charge(c) \/ (\E paid \in BOOLEAN : ChargeFails(c, paid))
                \/ Reverse(c) \/ Stopped(c) \/ Finish(c)
    BY <1>9 DEF AdminNext
  <2>2. CASE \E a \in Typed : RefundPayment(c, a) \/ \E r \in ReturnIds : ClaimRefund(c, r, a)
    BY <1>3, <1>4, <2>2
  <2>3. CASE call[c] # NoCall /\ Book(c)
    BY <1>5, <1>6, <2>3 DEF Book, Failed
  <2>4. CASE call[c] # NoCall /\ Charge(c)
    BY <1>5, <2>4 DEF Charge
  <2>5. ASSUME NEW paid \in BOOLEAN, call[c] # NoCall, ChargeFails(c, paid) PROVE Goal
    BY <1>6, <2>5 DEF ChargeFails, Failed
  <2>6. CASE call[c] # NoCall /\ (Reverse(c) \/ Stopped(c) \/ Finish(c))
    BY <1>6, <2>6 DEF Reverse, Stopped, Finish
  <2>. QED BY <2>1, <2>2, <2>3, <2>4, <2>5, <2>6
<1>. QED BY <1>1, <1>7, <1>8, <1>9 DEF ReturnsNext, RefundReported, retVars

(* a key it has refunded is not refunded again, and another only as far as  *)
(* what was captured goes                                                   *)
LEMMA TookTyped ==
  ASSUME Money, NEW c \in Calls, call[c] # NoCall, Took(c)
  PROVE  /\ moved' \subseteq Amounts /\ SumSet(moved') <= Captured
         /\ charged' \in [ReturnIds -> SUBSET Amounts]
<1> DEFINE a == call[c].amount
<1>1. a \in Amounts /\ moved' = moved \cup {a} /\ (a \in moved \/ SumSet(moved) + a <= Captured)
  BY CallTyped DEF Took
<1>2. charged' \in [ReturnIds -> SUBSET Amounts]
  BY <1>1 DEF Took, Money
<1> HIDE DEF a
<1>3. moved' \subseteq Amounts
  BY <1>1 DEF Money
<1>4. SumSet(moved') <= Captured
  <2>1. CASE a \in moved
    <3>1. moved' = moved
      BY <1>1, <2>1
    <3>. QED BY <3>1 DEF Money
  <2>2. CASE a \notin moved
    <3>1. SumSet(moved \cup {a}) = SumSet(moved) + a
      BY <1>1, <2>2, MovedSum
    <3>. QED BY <1>1, <2>2, <3>1
  <2>. QED BY <2>1, <2>2
<1>. QED BY <1>2, <1>3, <1>4

LEMMA MoneyTyped ==
  ASSUME Money, [ReturnsNext]_retVars
  PROVE  /\ request' \in [Amounts -> {"none", "PENDING", "FAILED", "COMPLETED"}]
         /\ payment' \in [refunded : 0 .. Captured, pending : Nat]
         /\ moved' \subseteq Amounts /\ SumSet(moved') <= Captured
         /\ payout' \in {"due", "PAID", "FAILED", "REVERSED"}
         /\ charged' \in [ReturnIds -> SUBSET Amounts]
<1> DEFINE Requests == request' \in [Amounts -> {"none", "PENDING", "FAILED", "COMPLETED"}]
           Payments == payment' \in [refunded : 0 .. Captured, pending : Nat]
           Moves == /\ moved' \subseteq Amounts /\ SumSet(moved') <= Captured
                    /\ charged' \in [ReturnIds -> SUBSET Amounts]
           Payouts == payout' \in {"due", "PAID", "FAILED", "REVERSED"}
           Goal == Requests /\ Payments /\ Moves /\ Payouts
<1> SUFFICES Goal
  OBVIOUS
<1>1. ASSUME UNCHANGED moneyVars, UNCHANGED charged PROVE Goal
  BY <1>1 DEF Money, moneyVars
<1>2. /\ UNCHANGED request => Requests
      /\ UNCHANGED payment => Payments
      /\ UNCHANGED <<moved, charged>> => Moves
      /\ UNCHANGED payout => Payouts
  BY DEF Money
<1>3. ASSUME NEW c \in Calls, call[c] # NoCall, Book(c) PROVE Goal
  <2>1. call[c].amount \in Amounts /\ call[c].amount \in Nat
    BY <1>3, CallTyped, AmountsAre
  <2>2. Requests
    BY <1>3, <2>1 DEF Book, Money
  <2>3. Payments
    <3>1. payment.pending + call[c].amount \in Nat
      BY <2>1 DEF Money
    <3>2. payment' = payment \/ payment' = [payment EXCEPT !.pending = @ + call[c].amount]
      BY <1>3 DEF Book
    <3>. QED BY <3>1, <3>2 DEF Money
  <2>. QED BY <1>2, <1>3, <2>2, <2>3 DEF Book
<1>4. ASSUME NEW c \in Calls, call[c] # NoCall, Charge(c) PROVE Goal
  <2>1. Requests
    BY <1>4, CallTyped DEF Charge, Money
  <2>2. Moves
    BY <1>4, TookTyped DEF Charge
  <2>. QED BY <1>2, <1>4, <2>1, <2>2 DEF Charge
<1>5. ASSUME NEW c \in Calls, call[c] # NoCall, NEW paid \in BOOLEAN, ChargeFails(c, paid) PROVE Goal
  <2>1. call[c].amount \in Amounts /\ call[c].amount \in Nat
    BY <1>5, CallTyped, AmountsAre
  <2>2. Requests
    BY <1>5, <2>1 DEF ChargeFails, Money
  <2>3. Payments
    BY <1>5, <2>1 DEF ChargeFails, Money, Released
  <2>4. Moves
    BY <1>2, <1>5, TookTyped DEF ChargeFails
  <2>. QED BY <1>2, <1>5, <2>2, <2>3, <2>4 DEF ChargeFails
<1>6. ASSUME RefundReported PROVE Goal
  <2> DEFINE total == SumSet(moved)
  <2>1. total \in 0 .. Captured
    <3>1. 1 \in Amounts
      BY AmountsAre DEF Amounts
    <3>2. SumSet(moved) \in Nat
      BY <3>1, MovedSum
    <3>. QED BY <3>2, AmountsAre DEF Money
  <2>2. payment' = [refunded |-> total, pending |-> Released(payment.pending, total - payment.refunded)]
        /\ total - payment.refunded > 0
    BY <1>6 DEF RefundReported
  <2> HIDE DEF total
  <2>3. payment.pending \in Nat /\ payment.refunded \in 0 .. Captured
    BY DEF Money
  <2>4. Released(payment.pending, total - payment.refunded) \in Nat
    BY <2>1, <2>2, <2>3, AmountsAre DEF Released
  <2>5. Payments
    BY <2>1, <2>2, <2>4
  <2>6. Payouts
    BY <1>6 DEF RefundReported, Money
  <2>. QED BY <1>2, <1>6, <2>5, <2>6 DEF RefundReported
<1>7. ASSUME NEW c \in Calls, Reverse(c) PROVE Goal
  <2>1. Payouts
    BY <1>7 DEF Reverse, Money
  <2>. QED BY <1>2, <1>7, <2>1 DEF Reverse
<1> HIDE DEF Goal
<1>8. CASE BuyerNext
  BY <1>1, <1>8 DEF BuyerNext, ShowOrder, OpenReturnForm, LeaveOrder, AskReturn, CheckReturn, CreateReturn
<1>9. CASE SupplierNext
  BY <1>1, <1>9 DEF SupplierNext, LeaveRow, Decide, ReadReturn, SaveDecision
<1>10. CASE AdminNext
  BY <1>1, <1>3, <1>4, <1>5, <1>7, <1>10 DEF AdminNext, RefundPayment, ClaimRefund, Stopped, Finish
<1>. QED BY <1>1, <1>6, <1>8, <1>9, <1>10 DEF ReturnsNext, retVars, moneyVars

LEMMA ShownTyped ==
  ASSUME Inv, Money, [ReturnsNext]_retVars
  PROVE  shown' \in [can : BOOLEAN, form : BOOLEAN]
<1>1. CanReturn \in BOOLEAN
  BY DEF CanReturn
<1>2. CASE BuyerNext
  <2>1. ASSUME NEW t \in AskSlots, CreateReturn(t)
        PROVE  shown' \in [can : BOOLEAN, form : BOOLEAN]
    <3>1. (shown.form /\ ~asks[t].here) \in BOOLEAN
      OBVIOUS
    <3>. QED BY <2>1, <3>1 DEF CreateReturn, Money
  <2>. QED BY <1>1, <1>2, <2>1
         DEF BuyerNext, ShowOrder, OpenReturnForm, LeaveOrder, AskReturn, CheckReturn, Money
<1>3. CASE UNCHANGED shown
  BY <1>3 DEF Money
<1>4. CASE SupplierNext
  BY <1>3, <1>4 DEF SupplierNext, LeaveRow, Decide, ReadReturn, SaveDecision, buyerVars
<1>5. CASE AdminNext
  BY <1>3, <1>5 DEF AdminNext, RefundPayment, ClaimRefund, Book, Charge, ChargeFails, Reverse,
                    Stopped, Finish, buyerVars
<1>. QED BY <1>2, <1>3, <1>4, <1>5 DEF ReturnsNext, RefundReported, retVars, buyerVars

LEMMA StepMoney == Inv /\ Money /\ [ReturnsNext]_retVars => Money'
<1> SUFFICES ASSUME Inv, Money, [ReturnsNext]_retVars PROVE Money'
  OBVIOUS
<1>1. /\ ret' \in [ReturnIds -> Ret]
      /\ \A r \in ReturnIds : ret'[r].st = "REFUNDING" => ret'[r].amount \in Amounts
  BY RetsTyped
<1>2. call' \in [Calls -> RefundCall \cup {NoCall}]
  BY CallsTyped
<1>3. /\ request' \in [Amounts -> {"none", "PENDING", "FAILED", "COMPLETED"}]
      /\ payment' \in [refunded : 0 .. Captured, pending : Nat]
      /\ moved' \subseteq Amounts /\ SumSet(moved') <= Captured
      /\ payout' \in {"due", "PAID", "FAILED", "REVERSED"}
      /\ charged' \in [ReturnIds -> SUBSET Amounts]
  BY MoneyTyped
<1>4. shown' \in [can : BOOLEAN, form : BOOLEAN]
  BY ShownTyped
<1>. QED BY <1>1, <1>2, <1>3, <1>4 DEF Money

LEMMA MoneyBegins == ReturnsInit => Money
<1> SUFFICES ASSUME ReturnsInit PROVE Money
  OBVIOUS
<1>1. SumSet({}) = 0
  BY SetSumAdd, FS_EmptySet
<1>2. ret \in [ReturnIds -> Ret] /\ \A r \in ReturnIds : ret[r].st # "REFUNDING"
  BY DEF ReturnsInit
<1>3. Captured \in Nat
  BY AmountsAre
<1>. QED BY <1>1, <1>2, <1>3 DEF ReturnsInit, Money

LEMMA ReturnsTyped == Inv /\ Money => ReturnsTypeOK
BY DEF Inv, Types, Money, ReturnsTypeOK, Excuses

(* The types of the returns and of the money: of what was captured, never   *)
(* more is refunded, by whichever calls (initiate_refund, handle_refund).   *)
THEOREM ReturnsAreTyped == ReturnsSpec => []ReturnsTypeOK
<1>1. Inv /\ Money /\ [ReturnsNext]_retVars => Money'
  BY StepMoney
<1>. QED BY <1>1, MoneyBegins, ReturnsTyped, Invariant, PTL DEF ReturnsSpec

-----------------------------------------------------------------------------
(* All of it together                                                      *)

ReturnInv == Inv /\ Agreements /\ Within /\ Money

LEMMA ReturnBegins == ReturnsInit => ReturnInv
BY InitInv, AgreementsBegin, WithinBegins, MoneyBegins DEF ReturnInv

LEMMA ReturnSteps == ReturnInv /\ [ReturnsNext]_retVars => ReturnInv'
BY StepInv, StepSettled, StepWithin, StepMoney DEF ReturnInv

LEMMA ReturnShows ==
  ReturnInv => /\ ReturnsTypeOK /\ RestockedOnce /\ ClaimHeld /\ ChargedOnce
               /\ ReturnedWithinOrdered
BY ReturnsShow, WithinShows, ReturnsTyped DEF ReturnInv
================================================================================
