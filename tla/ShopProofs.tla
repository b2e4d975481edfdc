------------------------------- MODULE ShopProofs -------------------------------
(***************************************************************************)
(* Proofs about Shop, for any number of variants, rows, orders and calls   *)
(* outstanding together: every variable has its type; an order not paid is *)
(* accounted for; what is shown as fresh is what the service has.          *)
(*                                                                         *)
(* The steps are taken in groups (NextIs): the page changes or the visitor *)
(* becomes or ceases to be known (Elsewhere), a request of an entry goes   *)
(* on (Loading), a control sends a call (Sends), a call is accepted or     *)
(* ends.                                                                   *)
(***************************************************************************)
EXTENDS Shop, TLAPS

-----------------------------------------------------------------------------
(* Of one entry of the query cache                                         *)

(* an entry that is being read is stale, or has nothing to show *)
Asked(e) == e.fetch # "idle" => e.stale \/ e.data = NoData

(* what it shows as fresh, and an answer that will make it so, is value *)
Current(e, value) ==
  /\ e.fetch = "read" => e.got = value
  /\ e.data # NoData /\ ~e.stale => e.data = value

LEMMA EmptyEntry ==
  ASSUME NEW d PROVE Empty \in Entry(d) /\ Asked(Empty) /\ \A v : Current(Empty, v)
BY DEF Empty, Entry, Asked, Current

LEMMA ObservedEntry ==
  ASSUME NEW d, NEW e \in Entry(d), NEW v
  PROVE  /\ Observed(e) \in Entry(d) /\ (Asked(e) => Asked(Observed(e)))
         /\ Current(e, v) => Current(Observed(e), v)
         /\ Observed(e).fetch = "sent" <=> e.fetch = "sent" \/ Observed(e) # e
         /\ Observed(e).data = e.data
BY DEF Observed, Current, Entry, Asked

LEMMA ReadEntry ==
  ASSUME NEW d, NEW e \in Entry(d), NEW v \in d, e.fetch = "sent"
  PROVE  /\ ReadAs(e, v) \in Entry(d) /\ ReadAs(e, v).fetch = "read"
         /\ Asked(e) => Asked(ReadAs(e, v)) /\ Current(ReadAs(e, v), v)
BY DEF ReadAs, Current, Entry, Asked

LEMMA LoadedEntry ==
  ASSUME NEW d, NEW e \in Entry(d), NEW v, e.fetch = "read"
  PROVE  /\ Loaded(e) \in Entry(d) /\ Asked(Loaded(e)) /\ Loaded(e).fetch = "idle"
         /\ Current(e, v) => Current(Loaded(e), v)
BY DEF Loaded, Current, Entry, Asked

LEMMA FailedEntry ==
  ASSUME NEW d, NEW e \in Entry(d), NEW v
  PROVE  /\ LoadFailed(e) \in Entry(d) /\ Asked(LoadFailed(e)) /\ LoadFailed(e).fetch = "idle"
         /\ Current(e, v) => Current(LoadFailed(e), v)
BY DEF LoadFailed, Current, Entry, Asked

LEMMA AgedEntry ==
  ASSUME NEW d, NEW e \in Entry(d), NEW v
  PROVE  /\ Aged(e) \in Entry(d) /\ Asked(Aged(e)) /\ Aged(e).fetch = e.fetch
         /\ Current(e, v) => Current(Aged(e), v)
BY DEF Aged, Current, Entry, Asked

(* a change is answered: nothing it shows is fresh, nothing on its way is   *)
(* older than the change, unless a request is kept                          *)
LEMMA InvalidatedEntry ==
  ASSUME NEW d, NEW e \in Entry(d), NEW v, NEW seen \in BOOLEAN
  PROVE  /\ Invalidated(e, seen) \in Entry(d) /\ Asked(Invalidated(e, seen))
         /\ ~KeepsOld(e, seen) => Current(Invalidated(e, seen), v)
         /\ Restarts(e, seen) => Invalidated(e, seen).fetch = "sent"
         /\ ~Restarts(e, seen) => Invalidated(e, seen).fetch = e.fetch
         /\ KeepsOld(e, seen) \in BOOLEAN
BY DEF Invalidated, KeepsOld, Restarts, Current, Entry, Asked

-----------------------------------------------------------------------------
(* Types                                                                   *)

ServiceTypes ==
  /\ lines \in [Owners -> Lines] /\ saved \in Saved /\ rows \in 0 .. MaxRows
  /\ orders \in [unpaid : Nat, paid : Nat] /\ orders.unpaid + orders.paid <= MaxOrders

(* what a call says suits the control that sent it, and its operation *)
Fits(c) ==
  /\ c \in Call
  /\ c.op \in {"add", "set"} => c.qty # 0
  /\ c.by = "submit" => c.op \in {"place", "intent"}
  /\ c.op = "place" => c.by \in {"submit", "gone"}
  /\ c.st = "settling" => c.by # "submit"
CallTypes ==
  /\ DOMAIN calls = Slots /\ calls = [s \in Slots |-> calls[s]]
  /\ \A s \in Slots : calls[s] # NoCall => Fits(calls[s])

PageTypes ==
  /\ page \in AllPages /\ readFor \in Owners
  /\ cache = [k \in Keys |-> cache[k]] /\ \A k \in Keys : cache[k] \in Entry(Data(k))

VisitTypes ==
  /\ session \in BOOLEAN /\ known \in BOOLEAN
  /\ doubt \in [Keys -> BOOLEAN] /\ local \in [Variants -> 0 .. MaxQty]
  /\ form \in {"form", "pay", "paid"} /\ reopened \in Nat /\ interest \in Interests

Types == ServiceTypes /\ CallTypes /\ PageTypes /\ VisitTypes

LEMMA InitTypes == ShopInit => Types
<1> SUFFICES ASSUME ShopInit PROVE Types
  OBVIOUS
<1>1. ServiceTypes
  <2>1. PICK had \in SUBSET Variants :
          /\ had # {} => MaxRows # 0
          /\ rows = IF had = {} THEN 0 ELSE 1
          /\ saved = [v \in Variants |-> IF interest = "wishlist" /\ v \in had THEN 1 ELSE 0]
          /\ lines = [o \in Owners |-> [v \in Variants |->
               IF o = "buyer" /\ interest = "order" /\ v \in had
               THEN [id |-> 1, qty |-> 1] ELSE NoRow]]
    <3>1. PICK had \in IF interest = "cart" \/ MaxRows = 0 THEN {{}} ELSE SUBSET Variants :
            /\ rows = IF had = {} THEN 0 ELSE 1
            /\ saved = [v \in Variants |-> IF interest = "wishlist" /\ v \in had THEN 1 ELSE 0]
            /\ lines = [o \in Owners |-> [v \in Variants |->
                 IF o = "buyer" /\ interest = "order" /\ v \in had
                 THEN [id |-> 1, qty |-> 1] ELSE NoRow]]
      BY DEF ShopInit
    <3>2. had \in SUBSET Variants /\ (had # {} => MaxRows # 0)
      OBVIOUS
    <3>. QED BY <3>1, <3>2
  <2>2. rows \in 0 .. MaxRows /\ (had # {} => 1 \in 1 .. MaxRows)
    BY <2>1, ShopAssumption
  <2>3. saved \in Saved
    <3>1. ASSUME NEW v \in Variants
          PROVE  (IF interest = "wishlist" /\ v \in had THEN 1 ELSE 0) \in 0 .. MaxRows
      BY <2>2, ShopAssumption
    <3>. QED BY <2>1, <3>1 DEF Saved
  <2>4. lines \in [Owners -> Lines]
    <3>1. ASSUME NEW o, NEW v \in Variants
          PROVE  (IF o = "buyer" /\ interest = "order" /\ v \in had
                  THEN [id |-> 1, qty |-> 1] ELSE NoRow) \in Row \cup {NoRow}
      BY <2>2, ShopAssumption DEF Row
    <3>. QED BY <2>1, <3>1 DEF Lines
  <2>. QED BY <2>2, <2>3, <2>4, ShopAssumption DEF ServiceTypes, ShopInit
<1>2. CallTypes
  BY DEF ShopInit, CallTypes
<1>3. PageTypes
  BY EmptyEntry DEF ShopInit, PageTypes, AllPages, Owners
<1>4. VisitTypes
  <2>1. local \in [Variants -> 0 .. MaxQty]
    BY ShopAssumption DEF ShopInit
  <2>. QED BY <2>1 DEF ShopInit, VisitTypes
<1>. QED BY <1>1, <1>2, <1>3, <1>4 DEF Types

LEMMA OwnerIs == \A u \in BOOLEAN : Owner(u) \in Owners
BY DEF Owner, Owners

LEMMA CallIs ==
  ASSUME NEW c, Fits(c)
  PROVE  /\ c # NoCall /\ c.who \in Owners /\ c.qty \in 0 .. MaxQty /\ c.id \in 0 .. MaxRows
         /\ c.vs \subseteq Variants
         /\ c.op \in {"add", "set", "delete", "save", "unsave", "place", "intent", "clear"}
         /\ c.st \in {"sent", "done", "settling"}
         /\ c = [by |-> c.by, op |-> c.op, st |-> c.st, who |-> c.who, vs |-> c.vs,
                 id |-> c.id, qty |-> c.qty]
BY DEF Fits, Call, NoCall

LEMMA RowIs ==
  ASSUME NEW r \in Row \cup {NoRow}
  PROVE  /\ r.id \in 0 .. MaxRows /\ r.qty \in 0 .. MaxQty
         /\ r # NoRow => /\ r \in Row /\ r.id # 0
                         /\ \A q \in 1 .. MaxQty : [r EXCEPT !.qty = q] \in Row
BY ShopAssumption DEF Row, NoRow

LEMMA LinesAre ==
  ASSUME ServiceTypes, NEW o \in Owners
  PROVE  /\ NoLines \in Lines
         /\ \A v \in Variants : lines[o][v] \in Row \cup {NoRow}
         /\ \A m \in Lines : [lines EXCEPT ![o] = m] \in [Owners -> Lines]
         /\ \A v \in Variants, r \in Row \cup {NoRow} :
              [lines EXCEPT ![o][v] = r] \in [Owners -> Lines]
BY DEF ServiceTypes, Lines, NoLines

LEMMA AcceptsService ==
  ASSUME ServiceTypes, NEW c, Fits(c), Accepts(c)
  PROVE  ServiceTypes'
<1> DEFINE o == c.who
<1>1. /\ o \in Owners /\ c.qty \in Nat /\ c.qty <= MaxQty /\ c.vs \subseteq Variants
      /\ c.id \in 0 .. MaxRows
  BY CallIs, ShopAssumption
<1>2. MaxRows \in Nat /\ MaxQty \in Nat /\ rows \in Nat /\ rows <= MaxRows
  BY ShopAssumption DEF ServiceTypes
<1> USE DEF ServiceTypes
<1>3. CASE c.op = "add"
  <2>1. c.qty \in 1 .. MaxQty
    BY <1>1, <1>2, <1>3 DEF Fits
  <2>2. PICK v \in c.vs :
          IF lines[o][v] = NoRow
          THEN /\ rows < MaxRows /\ rows' = rows + 1
               /\ lines' = [lines EXCEPT ![o][v] = [id |-> rows + 1, qty |-> c.qty]]
          ELSE /\ lines[o][v].qty + c.qty <= MaxQty
               /\ lines' = [lines EXCEPT ![o][v].qty = @ + c.qty] /\ UNCHANGED rows
    BY <1>3 DEF Accepts
  <2>3. UNCHANGED <<saved, orders>>
    BY <1>3 DEF Accepts
  <2>4. v \in Variants /\ lines[o][v] \in Row \cup {NoRow}
    BY <1>1, LinesAre
  <2>5. CASE lines[o][v] = NoRow
    <3>1. rows' \in 0 .. MaxRows /\ rows' \in 1 .. MaxRows
      BY <1>2, <2>2, <2>5
    <3>2. [id |-> rows + 1, qty |-> c.qty] \in Row
      BY <2>1, <2>2, <2>5, <3>1 DEF Row
    <3>3. lines' \in [Owners -> Lines]
      BY <1>1, <2>2, <2>4, <2>5, <3>2, LinesAre
    <3>. QED BY <2>3, <3>1, <3>3
  <2>6. CASE lines[o][v] # NoRow
    <3>1. lines[o][v] \in Row /\ lines[o][v].qty + c.qty \in 1 .. MaxQty
      BY <1>2, <2>1, <2>2, <2>4, <2>6, RowIs
    <3>2. [lines[o][v] EXCEPT !.qty = @ + c.qty] \in Row
      BY <2>4, <2>6, <3>1, RowIs
    <3>3. lines' = [lines EXCEPT ![o][v] = [lines[o][v] EXCEPT !.qty = @ + c.qty]]
      BY <2>2, <2>6
    <3>4. lines' \in [Owners -> Lines]
      BY <1>1, <2>4, <3>2, <3>3, LinesAre
    <3>. QED BY <2>2, <2>3, <2>6, <3>4
  <2>. QED BY <2>5, <2>6
<1>4. CASE c.op \in {"set", "delete"}
  <2>1. PICK v \in c.vs :
          /\ c.id # 0 /\ lines[o][v].id = c.id
          /\ lines' = [lines EXCEPT ![o][v] =
                         IF c.op = "delete" THEN NoRow ELSE [@ EXCEPT !.qty = c.qty]]
    BY <1>4 DEF Accepts
  <2>2. UNCHANGED <<saved, rows, orders>>
    BY <1>4 DEF Accepts
  <2>3. v \in Variants /\ lines[o][v] \in Row \cup {NoRow} /\ lines[o][v] # NoRow
    BY <1>1, <2>1, LinesAre DEF NoRow
  <2> DEFINE r == IF c.op = "delete" THEN NoRow ELSE [lines[o][v] EXCEPT !.qty = c.qty]
  <2>4. c.op # "delete" => c.qty \in 1 .. MaxQty
    BY <1>1, <1>2, <1>4 DEF Fits
  <2>5. r \in Row \cup {NoRow}
    BY <2>3, <2>4, RowIs
  <2>6. lines' = [lines EXCEPT ![o][v] = r]
    BY <2>1
  <2> HIDE DEF r
  <2>7. lines' \in [Owners -> Lines]
    BY <1>1, <2>3, <2>5, <2>6, LinesAre
  <2>. QED BY <2>2, <2>7
<1>5. CASE c.op = "save"
  <2>1. PICK v \in c.vs :
          IF saved[v] # 0 THEN UNCHANGED <<saved, rows>>
          ELSE /\ rows < MaxRows /\ rows' = rows + 1
               /\ saved' = [saved EXCEPT ![v] = rows + 1]
    BY <1>5 DEF Accepts
  <2>2. rows' \in 0 .. MaxRows /\ saved' \in Saved
    BY <1>2, <2>1 DEF Saved
  <2>. QED BY <1>5, <2>2 DEF Accepts
<1>6. CASE c.op = "unsave"
  <2>1. saved' \in Saved
    BY <1>2, <1>6 DEF Accepts, Saved
  <2>. QED BY <1>6, <2>1 DEF Accepts
<1>7. CASE c.op = "place"
  <2>1. PICK out \in SUBSET c.vs :
          lines' = [lines EXCEPT ![o] = [v \in Variants |-> IF v \in c.vs \ out THEN NoRow ELSE @[v]]]
    BY <1>7 DEF Accepts
  <2> DEFINE m == [v \in Variants |-> IF v \in c.vs \ out THEN NoRow ELSE lines[o][v]]
  <2>2. m \in Lines
    BY <1>1, LinesAre DEF Lines
  <2>3. lines' = [lines EXCEPT ![o] = m]
    BY <2>1
  <2> HIDE DEF m
  <2>4. lines' \in [Owners -> Lines]
    BY <1>1, <2>2, <2>3, LinesAre
  <2>5. /\ orders' \in [unpaid : Nat, paid : Nat] /\ orders'.unpaid + orders'.paid <= MaxOrders
    BY <1>7, ShopAssumption DEF Accepts
  <2>. QED BY <1>7, <2>4, <2>5 DEF Accepts
<1>8. CASE c.op = "intent"
  BY <1>8 DEF Accepts, service
<1>9. CASE c.op = "clear"
  <2>1. lines' \in [Owners -> Lines]
    BY <1>1, <1>9, LinesAre DEF Accepts
  <2>. QED BY <1>9, <2>1 DEF Accepts
<1>. QED BY <1>3, <1>4, <1>5, <1>6, <1>7, <1>8, <1>9, CallIs

LEMMA CallsSet ==
  ASSUME CallTypes, NEW s \in Slots, NEW c, c = NoCall \/ Fits(c),
         calls' = [calls EXCEPT ![s] = c]
  PROVE  CallTypes'
BY DEF CallTypes

LEMMA LeftIs ==
  ASSUME CallTypes, NEW s \in Slots
  PROVE  /\ calls[s] = NoCall <=> Left[s] = NoCall
         /\ calls[s] # NoCall =>
              /\ Fits(Left[s]) /\ Left[s].op = calls[s].op /\ Left[s].st = calls[s].st
              /\ Left[s].by # "submit"
              /\ Left[s].by = "gone" \/ Left[s] = calls[s]
<1>1. CASE calls[s] = NoCall
  BY <1>1 DEF Left
<1>2. CASE calls[s] # NoCall
  <2>1. Fits(calls[s])
    BY <1>2 DEF CallTypes
  <2>2. CASE calls[s].by = "pay"
    BY <1>2, <2>1, <2>2 DEF Left
  <2>3. CASE calls[s].by # "pay"
    <3>1. Left[s] = [calls[s] EXCEPT !.by = "gone"]
      BY <1>2, <2>3 DEF Left
    <3> DEFINE c == calls[s]
    <3>2. c \in Call
      BY <2>1 DEF Fits
    <3>3. Left[s] = [by |-> "gone", op |-> c.op, st |-> c.st, who |-> c.who, vs |-> c.vs,
                     id |-> c.id, qty |-> c.qty]
      BY <3>1, <3>2 DEF Call
    <3>4. Left[s] \in Call
      BY <3>2, <3>3 DEF Call
    <3>5. Fits(Left[s])
      BY <2>1, <3>3, <3>4 DEF Fits
    <3>. QED BY <1>2, <3>3, <3>5, CallIs
  <2>. QED BY <2>2, <2>3
<1>. QED BY <1>1, <1>2

LEMMA LeftTypes ==
  ASSUME CallTypes, NEW s \in Slots,
         calls' = Left \/ calls' = [Left EXCEPT ![s] = NoCall]
  PROVE  CallTypes'
<1>1. DOMAIN Left = Slots /\ Left = [t \in Slots |-> Left[t]]
  BY DEF Left
<1>2. \A t \in Slots : Left[t] # NoCall => Fits(Left[t])
  BY LeftIs
<1>3. DOMAIN calls' = Slots /\ calls' = [t \in Slots |-> calls'[t]]
  BY <1>1
<1>4. \A t \in Slots : calls'[t] \in {Left[t], NoCall}
  BY <1>1
<1>. QED BY <1>2, <1>3, <1>4 DEF CallTypes

LEMMA FreedIs ==
  ASSUME CallTypes, NEW k, calls' = Freed(k, calls)
  PROVE  /\ CallTypes'
         /\ \A s \in Slots :
              \/ calls'[s] = calls[s]
              \/ calls[s] # NoCall /\ calls[s].st = "settling" /\ calls'[s] = NoCall
<1>1. DOMAIN calls' = Slots /\ calls' = [s \in Slots |-> calls'[s]]
  BY DEF Freed
<1>2. ASSUME NEW s \in Slots
      PROVE  \/ calls'[s] = calls[s]
             \/ calls[s] # NoCall /\ calls[s].st = "settling" /\ calls'[s] = NoCall
  BY DEF Freed
<1>. QED BY <1>1, <1>2 DEF CallTypes

(* a page comes up over entries c *)
LEMMA OpenIs ==
  ASSUME NEW p \in AllPages, NEW u \in BOOLEAN, NEW c, readFor \in Owners,
         \A k \in Keys : c[k] \in Entry(Data(k)), Open(p, u, c)
  PROVE  /\ PageTypes' /\ page' = p
         /\ \A k \in Keys :
              /\ cache'[k] \in {c[k], Observed(c[k])} /\ cache'[k].data = c[k].data
              /\ Asked(c[k]) => Asked(cache'[k])
              /\ \A v : Current(c[k], v) => Current(cache'[k], v)
         /\ cache'["cart"].fetch = "sent" =>
              readFor' = Owner(u) \/ (c["cart"].fetch = "sent" /\ readFor' = readFor)
<1>1. /\ page' = p /\ cache' = [k \in Keys |-> cache'[k]]
      /\ \A k \in Keys : cache'[k] \in {c[k], Observed(c[k])}
  BY DEF Open
<1>2. ASSUME NEW k \in Keys
      PROVE  /\ cache'[k] \in Entry(Data(k)) /\ cache'[k].data = c[k].data
             /\ Asked(c[k]) => Asked(cache'[k])
             /\ \A v : Current(c[k], v) => Current(cache'[k], v)
  BY <1>1, ObservedEntry
<1>3. readFor' \in Owners
  BY OwnerIs DEF Open, Owners
<1>4. cache'["cart"].fetch = "sent" =>
        readFor' = Owner(u) \/ (c["cart"].fetch = "sent" /\ readFor' = readFor)
  BY DEF Open
<1>5. \A k : Data(k)' = Data(k)
  BY DEF Data
<1>. QED BY <1>1, <1>2, <1>3, <1>4, <1>5 DEF PageTypes

(* a control sends a call, and nothing else changes *)
Using(c) == \E s \in Slots : calls[s] = NoCall /\ calls' = [calls EXCEPT ![s] = c]
Sends ==
  /\ \E c : /\ Fits(c) /\ c.st = "sent" /\ c.op # "intent"
            /\ c.by = "submit" => CanSubmit
            /\ Using(c)
  /\ UNCHANGED <<service, session, known, page, cache, readFor, doubt, local, form,
                 reopened, interest>>

LEMMA UseIs == \A c : Use(c) => Using(c)
BY DEF Use, Using, Free

LEMMA SendIs ==
  ASSUME VisitTypes, NEW b \in {"add", "heart", "submit", "none"},
         NEW op \in {"add", "set", "delete", "save", "unsave", "place"},
         NEW vs \in SUBSET Variants, NEW id \in 0 .. MaxRows, NEW qty \in 0 .. MaxQty,
         op \in {"add", "set"} => qty # 0, b = "submit" <=> op = "place",
         b = "submit" => CanSubmit, Send(b, op, vs, id, qty)
  PROVE  Sends
<1> DEFINE c == [by |-> b, op |-> op, st |-> "sent", who |-> Owner(known),
                 vs |-> vs, id |-> id, qty |-> qty]
<1>1. Owner(known) \in Owners
  BY OwnerIs DEF VisitTypes
<1>2. c \in Call
  BY <1>1 DEF Call
<1>3. Fits(c)
  BY <1>2 DEF Fits
<1>4. Using(c) /\ UNCHANGED <<service, session, known, page, cache, readFor, doubt, local, form,
                              reopened, interest>>
  BY UseIs DEF Send
<1>5. c.st = "sent" /\ c.op # "intent" /\ (c.by = "submit" => CanSubmit)
  OBVIOUS
<1> HIDE DEF c
<1>. QED BY <1>3, <1>4, <1>5 DEF Sends

LEMMA ShownIs ==
  ASSUME ServiceTypes, PageTypes, VisitTypes, NEW v \in Variants
  PROVE  /\ DrawerLine(v).id \in 0 .. MaxRows /\ DrawerLine(v).qty \in 0 .. MaxQty
         /\ \A k \in {"wishlist", "saved"} : SavedShown(k)[v] \in 0 .. MaxRows
<1>1. /\ cache["cart"].data \in Lines \cup {NoData}
      /\ \A k \in {"wishlist", "saved"} : cache[k].data \in Saved \cup {NoData}
  BY DEF PageTypes, Entry, Data, Keys
<1>2. NoLines[v] \in Row \cup {NoRow}
  BY DEF NoLines
<1>3. CartShown[v] \in Row \cup {NoRow}
  BY <1>1, <1>2 DEF CartShown, Lines
<1>4. 0 \in 0 .. MaxRows
  BY ShopAssumption
<1>5. DrawerLine(v).id \in 0 .. MaxRows /\ DrawerLine(v).qty \in 0 .. MaxQty
  <2>1. CASE Local /\ cache["cart"].data = NoData
    BY <1>4, <2>1 DEF DrawerLine, VisitTypes
  <2>2. CASE ~(Local /\ cache["cart"].data = NoData)
    BY <1>3, <2>2, RowIs DEF DrawerLine
  <2>. QED BY <2>1, <2>2
<1>6. ASSUME NEW k \in {"wishlist", "saved"} PROVE SavedShown(k)[v] \in 0 .. MaxRows
  BY <1>1, <1>4 DEF SavedShown, Saved
<1>. QED BY <1>5, <1>6

LEMMA ControlsAre ==
  ASSUME Types, Controls
  PROVE  Sends \/ Pay \/ PayElsewhere \/ \E v \in Variants : LocalLine(v)
<1> USE DEF Types
<1>1. MaxQty \in Nat /\ MaxQty # 0 /\ MaxRows \in Nat
  BY ShopAssumption
<1>2. ASSUME NEW v \in Variants, AddToCart(v) \/ CardAdd(v)
      PROVE  Sends
  <2>1. \E b \in {"add", "none"}, q \in 1 .. MaxQty : Send(b, "add", {v}, 0, q)
    BY <1>1, <1>2 DEF AddToCart, CardAdd
  <2>. QED BY <1>1, <2>1, SendIs
<1>3. ASSUME NEW v \in Variants, StepLine(v)
      PROVE  Sends
  <2>1. PICK op \in {"set", "delete"}, q \in 0 .. MaxQty :
          Send("none", op, {v}, DrawerLine(v).id, q) /\ (op = "set" => q # 0)
    BY <1>1, <1>3, ShownIs DEF StepLine
  <2>2. DrawerLine(v).id \in 0 .. MaxRows
    BY ShownIs
  <2>. QED BY <2>1, <2>2, SendIs
<1>4. ASSUME NEW v \in Variants, Heart(v) \/ RemoveSaved(v)
      PROVE  Sends
  <2>1. PICK b \in {"heart", "none"}, op \in {"save", "unsave"}, k \in {"wishlist", "saved"} :
          Send(b, op, {v}, SavedShown(k)[v], 0)
    BY <1>4 DEF Heart, RemoveSaved
  <2>2. SavedShown(k)[v] \in 0 .. MaxRows
    BY ShownIs
  <2>. QED BY <1>1, <2>1, <2>2, SendIs
<1>5. ASSUME Submit
      PROVE  Sends
  BY <1>1, <1>5, SendIs DEF Submit
<1>. QED BY <1>2, <1>3, <1>4, <1>5 DEF Controls

(* a change is answered, or the clearing of the cart ends: nothing of ks is *)
(* fresh any more, and what is on its way is doubted or asked for anew      *)
LEMMA InvalidateIs ==
  ASSUME Types, NEW ks \in SUBSET Keys, NEW s \in Slots, NEW r, r = NoCall \/ Fits(r),
         Invalidate(ks, s, r), page' = page
  PROVE  /\ PageTypes' /\ CallTypes' /\ doubt' \in [Keys -> BOOLEAN]
         /\ \A k \in Keys \ ks : cache'[k] = cache[k] /\ doubt'[k] = doubt[k]
         /\ "cart" \notin ks => readFor' = readFor
         /\ \A k \in ks : /\ Asked(cache'[k]) /\ (~doubt'[k] => ~doubt[k])
                          /\ \A v : ~doubt'[k] => Current(cache'[k], v)
         /\ "cart" \in ks /\ ~doubt'["cart"] /\ cache'["cart"].fetch = "sent" =>
              readFor' = Owner(known)
<1> DEFINE seen(k) == k \in Shows(page, known)
           new(k) == Invalidated(cache[k], seen(k))
<1>1. ASSUME NEW k \in Keys
      PROVE  /\ cache[k] \in Entry(Data(k)) /\ seen(k) \in BOOLEAN /\ doubt[k] \in BOOLEAN
             /\ cache'[k] = IF k \in ks THEN new(k) ELSE cache[k]
             /\ doubt'[k] = (doubt[k] \/ (k \in ks /\ KeepsOld(cache[k], seen(k))))
  BY DEF Types, PageTypes, VisitTypes, Invalidate
<1>2. ASSUME NEW k \in Keys
      PROVE  /\ new(k) \in Entry(Data(k)) /\ Asked(new(k))
             /\ \A v : ~KeepsOld(cache[k], seen(k)) => Current(new(k), v)
             /\ Restarts(cache[k], seen(k)) => new(k).fetch = "sent"
             /\ ~Restarts(cache[k], seen(k)) => new(k).fetch = cache[k].fetch
             /\ KeepsOld(cache[k], seen(k)) \in BOOLEAN
  <2> HIDE DEF seen
  <2>1. cache[k] \in Entry(Data(k)) /\ seen(k) \in BOOLEAN
    BY <1>1
  <2>. QED BY ONLY <2>1, InvalidatedEntry
<1>3. readFor' = IF "cart" \in ks /\ Restarts(cache["cart"], seen("cart"))
                 THEN Owner(known) ELSE readFor
  BY DEF Invalidate
<1>4. cache' = [k \in Keys |-> cache'[k]] /\ doubt' = [k \in Keys |-> doubt'[k]]
  BY DEF Invalidate
<1> HIDE DEF seen, new
<1>5. doubt' \in [Keys -> BOOLEAN]
  BY <1>1, <1>2, <1>4
<1>6. PageTypes'
  <2>1. readFor' \in Owners
    BY <1>3, OwnerIs DEF Types, PageTypes, VisitTypes
  <2>2. \A k \in Keys : cache'[k] \in Entry(Data(k)) /\ Data(k)' = Data(k)
    BY <1>1, <1>2 DEF Data
  <2>. QED BY <1>4, <2>1, <2>2 DEF Types, PageTypes
<1>7. CallTypes'
  BY CallsSet DEF Types, Invalidate
<1>8. \A k \in Keys \ ks : cache'[k] = cache[k] /\ doubt'[k] = doubt[k]
  BY <1>1
<1>9. ASSUME NEW k \in ks
      PROVE  /\ Asked(cache'[k]) /\ (~doubt'[k] => ~doubt[k])
             /\ \A v : ~doubt'[k] => Current(cache'[k], v)
  BY <1>1, <1>2
<1>10. ASSUME "cart" \in ks, ~doubt'["cart"], cache'["cart"].fetch = "sent"
       PROVE  readFor' = Owner(known)
  <2>1. ~KeepsOld(cache["cart"], seen("cart")) /\ cache'["cart"] = new("cart") /\ "cart" \in Keys
    BY <1>1, <1>10 DEF Keys
  <2>2. CASE Restarts(cache["cart"], seen("cart"))
    BY <1>3, <1>10, <2>2
  <2>3. CASE ~Restarts(cache["cart"], seen("cart"))
    BY <1>2, <1>10, <2>1, <2>3 DEF KeepsOld
  <2>. QED BY <2>2, <2>3
<1>. QED BY <1>3, <1>5, <1>6, <1>7, <1>8, <1>9, <1>10

LEMMA ClearedIs ==
  ASSUME Types, NEW s \in Slots, Cleared(s)
  PROVE  /\ PageTypes' /\ CallTypes' /\ doubt' \in [Keys -> BOOLEAN]
         /\ \A k \in Keys \ {"cart"} : /\ cache'[k] \in {cache[k], Observed(cache[k])}
                                       /\ doubt'[k] = doubt[k]
         /\ Asked(cache'["cart"]) /\ (~doubt'["cart"] => ~doubt["cart"])
         /\ \A v : ~doubt'["cart"] => Current(cache'["cart"], v)
         /\ cache'["cart"].fetch = "sent" => readFor' = Owner(known)
<1> DEFINE seen == "cart" \in Shows(page, known)
           c == [cache EXCEPT !["cart"] = Invalidated(@, seen)]
<1>1. /\ cache' = [k \in Keys |-> IF k \in Shows(page', known) THEN Observed(c[k]) ELSE c[k]]
      /\ readFor' = IF cache'["cart"].fetch = "sent" THEN Owner(known) ELSE readFor
      /\ doubt' = [doubt EXCEPT !["cart"] = (@ \/ KeepsOld(cache["cart"], seen))]
      /\ page' \in {"orders", "login"}
  BY DEF Cleared
<1>2. "cart" \in Keys /\ cache = [k \in Keys |-> cache[k]] /\ doubt \in [Keys -> BOOLEAN]
      /\ seen \in BOOLEAN /\ \A k \in Keys : cache[k] \in Entry(Data(k))
  BY DEF Keys, Types, PageTypes, VisitTypes
<1>3. /\ \A k \in Keys \ {"cart"} : c[k] = cache[k]
      /\ c["cart"] = Invalidated(cache["cart"], seen)
  BY <1>2
<1>4. /\ c["cart"] \in Entry(Data("cart")) /\ Asked(c["cart"])
      /\ \A v : ~KeepsOld(cache["cart"], seen) => Current(c["cart"], v)
      /\ KeepsOld(cache["cart"], seen) \in BOOLEAN
  BY <1>2, <1>3, InvalidatedEntry
<1> HIDE DEF c, seen
<1>5. ASSUME NEW k \in Keys
      PROVE  /\ cache'[k] \in {c[k], Observed(c[k])} /\ cache'[k] \in Entry(Data(k))
             /\ Asked(c[k]) => Asked(cache'[k])
             /\ \A v : Current(c[k], v) => Current(cache'[k], v)
  <2>1. c[k] \in Entry(Data(k)) /\ cache'[k] \in {c[k], Observed(c[k])}
    BY <1>1, <1>2, <1>3, <1>4
  <2>. QED BY <2>1, ObservedEntry
<1>6. doubt' \in [Keys -> BOOLEAN] /\ doubt'["cart"] = (doubt["cart"] \/ KeepsOld(cache["cart"], seen))
      /\ \A k \in Keys \ {"cart"} : doubt'[k] = doubt[k]
  BY <1>1, <1>2, <1>4
<1>7. PageTypes'
  <2>1. readFor' \in Owners
    BY <1>1, OwnerIs DEF Types, PageTypes, VisitTypes
  <2>2. \A k \in Keys : Data(k)' = Data(k)
    BY DEF Data
  <2>3. cache' = [k \in Keys |-> cache'[k]] /\ page' \in AllPages
    BY <1>1 DEF AllPages
  <2>. QED BY <1>5, <2>1, <2>2, <2>3 DEF PageTypes
<1>8. CallTypes'
  BY LeftTypes DEF Types, Cleared
<1>9. Asked(cache'["cart"]) /\ \A v : ~doubt'["cart"] => Current(cache'["cart"], v)
  BY <1>2, <1>4, <1>5, <1>6
<1>. QED BY <1>1, <1>3, <1>5, <1>6, <1>7, <1>8, <1>9

(* a page comes up, for a visitor who is now known or is not *)
Comes(p, u, c) == Open(p, u, c) /\ p \in AllPages /\ u \in BOOLEAN /\ known' = u
                  /\ \A k \in Keys : c[k] \in Entry(Data(k))
Elsewhere(p) == Visit(p) \/ TurnedAway \/ Load \/ Initialised \/ SignIn \/ SignOut \/ Focus
                \/ PayElsewhere

LEMMA ElsewhereComes ==
  ASSUME Types, NEW p \in AllPages, Elsewhere(p)
  PROVE  \E q, u : Comes(q, u, cache) \/ Comes(q, u, [k \in Keys |-> Empty])
<1> USE DEF Types, PageTypes, VisitTypes
<1>1. \A k \in Keys : cache[k] \in Entry(Data(k))
  OBVIOUS
<1>2. \A k \in Keys : [j \in Keys |-> Empty][k] \in Entry(Data(k))
  BY EmptyEntry
<1>3. page \in AllPages /\ {"catalogue", "login", "orders"} \subseteq AllPages
  BY DEF AllPages
<1>4. CASE Visit(p) \/ Focus
  BY <1>1, <1>3, <1>4 DEF Visit, Focus, Comes
<1>5. CASE TurnedAway \/ Initialised \/ SignIn \/ SignOut
  <2>1. \E q \in {page, "catalogue", "login"}, u \in BOOLEAN : Open(q, u, cache) /\ known' = u
    BY <1>5 DEF TurnedAway, Initialised, SignIn, SignOut
  <2>. QED BY <1>1, <1>3, <2>1 DEF Comes
<1>6. CASE Load \/ PayElsewhere
  <2>1. \E q \in {page, "orders"} : Open(q, FALSE, [k \in Keys |-> Empty]) /\ known' = FALSE
    BY <1>6 DEF Load, PayElsewhere
  <2>. QED BY <1>2, <1>3, <2>1 DEF Comes
<1>. QED BY <1>4, <1>5, <1>6 DEF Elsewhere

LEMMA MergedIs ==
  ASSUME ServiceTypes, \A v \in Variants : Merged[v].qty <= MaxQty
  PROVE  [lines EXCEPT !["buyer"] = Merged, !["guest"] = NoLines] \in [Owners -> Lines]
<1>1. ASSUME NEW v \in Variants PROVE Merged[v] \in Row \cup {NoRow}
  <2> DEFINE b == lines["buyer"][v]
             g == lines["guest"][v]
  <2>1. b \in Row \cup {NoRow} /\ g \in Row \cup {NoRow}
    BY LinesAre DEF Owners
  <2>2. Merged[v] = IF g = NoRow THEN b ELSE IF b = NoRow THEN g
                    ELSE [b EXCEPT !.qty = @ + g.qty]
    BY DEF Merged
  <2>3. CASE g # NoRow /\ b # NoRow
    <3>1. b \in Row /\ g \in Row
      BY <2>1, <2>3
    <3>2. [b EXCEPT !.qty = @ + g.qty].qty = b.qty + g.qty
      BY <3>1 DEF Row
    <3>3. b.qty + g.qty <= MaxQty
      BY <2>2, <2>3, <3>2
    <3>4. b.qty + g.qty \in 1 .. MaxQty
      BY <3>1, <3>3, ShopAssumption DEF Row
    <3>5. [b EXCEPT !.qty = @ + g.qty] \in Row
      BY <2>1, <2>3, <3>4, RowIs
    <3>. QED BY <2>2, <2>3, <3>5
  <2>. QED BY <2>1, <2>2, <2>3
<1>2. Merged \in Lines /\ NoLines \in Lines
  BY <1>1, LinesAre DEF Merged, Lines, Owners
<1>. QED BY <1>2 DEF ServiceTypes

LEMMA DroppedIs == Dropped \in {0, 1}
BY DEF Dropped

LEMMA ElsewhereTypes ==
  ASSUME Types, NEW p \in AllPages, Elsewhere(p)
  PROVE  Types'
<1>1. PageTypes'
  <2>1. PICK q, u : Comes(q, u, cache) \/ Comes(q, u, [k \in Keys |-> Empty])
    BY ElsewhereComes
  <2>. QED BY <2>1, OpenIs DEF Comes, Types, PageTypes
<1>2. CallTypes'
  <2>1. CASE UNCHANGED calls
    BY <2>1 DEF Types, CallTypes
  <2>2. CASE Visit(p) \/ TurnedAway \/ SignOut
    <3>1. calls' = Left
      BY <2>2 DEF Visit, TurnedAway, SignOut
    <3>2. DOMAIN calls' = Slots /\ calls' = [t \in Slots |-> calls'[t]]
      BY <3>1 DEF Left
    <3>. QED BY <3>1, <3>2, LeftIs DEF Types, CallTypes
  <2>. QED BY <2>1, <2>2 DEF Elsewhere, Load, Initialised, SignIn, Focus, PayElsewhere
<1>3. ServiceTypes'
  <2>1. CASE UNCHANGED service
    BY <2>1 DEF service, Types, ServiceTypes
  <2>2. CASE SignIn
    BY <2>2, MergedIs DEF SignIn, Types, ServiceTypes
  <2>3. CASE PayElsewhere
    <3>1. UNCHANGED <<lines, saved, rows>>
      BY <2>3 DEF PayElsewhere
    <3>2. \/ orders' = orders
          \/ orders.unpaid > 0 /\ orders' = [unpaid |-> orders.unpaid - 1, paid |-> orders.paid + 1]
      BY <2>3 DEF PayElsewhere
    <3>3. orders' \in [unpaid : Nat, paid : Nat] /\ orders'.unpaid + orders'.paid <= MaxOrders
      BY <3>2 DEF Types, ServiceTypes
    <3>. QED BY <3>1, <3>3 DEF Types, ServiceTypes
  <2>. QED BY <2>1, <2>2, <2>3 DEF Elsewhere, Visit, TurnedAway, Load, Initialised, SignOut, Focus
<1>4. VisitTypes'
  <2>1. reopened' \in {reopened, reopened + 1, reopened + Dropped}
    BY DEF Elsewhere, Visit, TurnedAway, Load, Initialised, SignIn, SignOut, Focus, PayElsewhere
  <2>2. reopened' \in Nat
    BY <2>1, DroppedIs DEF Types, VisitTypes
  <2>3. 0 \in 0 .. MaxQty
    BY ShopAssumption
  <2>4. local' \in [Variants -> 0 .. MaxQty]
    <3>1. local' = local \/ local' = [v \in Variants |-> 0]
      BY DEF Elsewhere, Visit, TurnedAway, Load, Initialised, SignIn, SignOut, Focus, PayElsewhere
    <3>. QED BY <2>3, <3>1 DEF Types, VisitTypes
  <2>5. doubt' \in [Keys -> BOOLEAN]
    <3>1. CASE UNCHANGED doubt \/ doubt' = [k \in Keys |-> FALSE]
      BY <3>1 DEF Types, VisitTypes
    <3>2. CASE SomeoneElse
      BY <3>2 DEF SomeoneElse, Types, VisitTypes
    <3>. QED BY <3>1, <3>2 DEF Elsewhere, Visit, TurnedAway, Load, Initialised, SignIn, SignOut,
                               Focus, PayElsewhere
  <2>6. /\ session' \in BOOLEAN /\ known' \in BOOLEAN /\ interest' = interest
        /\ form' \in {form, "form"}
    BY DEF Elsewhere, Visit, TurnedAway, Load, Initialised, SignIn, SignOut, Focus, PayElsewhere,
           Types, VisitTypes
  <2>. QED BY <2>2, <2>4, <2>5, <2>6 DEF Types, VisitTypes
<1>. QED BY <1>1, <1>2, <1>3, <1>4 DEF Types

(* one entry is replaced *)
LEMMA EntrySet ==
  ASSUME PageTypes, NEW k \in Keys, NEW e \in Entry(Data(k)), UNCHANGED page, readFor' \in Owners,
         cache' = [cache EXCEPT ![k] = e]
  PROVE  PageTypes' /\ cache'[k] = e /\ \A j \in Keys \ {k} : cache'[j] = cache[j]
<1>1. /\ cache' = [j \in Keys |-> cache'[j]] /\ cache'[k] = e
      /\ \A j \in Keys \ {k} : cache'[j] = cache[j]
  BY DEF PageTypes
<1>2. \A j : Data(j)' = Data(j)
  BY DEF Data
<1>. QED BY <1>1, <1>2 DEF PageTypes

Loading(k) == Answer(k) \/ Arrive(k) \/ LoadFails(k) \/ Age(k)

LEMMA TruthIs ==
  ASSUME ServiceTypes, NEW k \in Keys, NEW o \in Owners
  PROVE  Truth(k, o) \in Data(k) /\ (k # "cart" => Truth(k, o) = saved)
BY DEF ServiceTypes, Truth, Data

(* what a step of an entry's request does to it *)
LEMMA LoadingIs ==
  ASSUME Types, NEW k \in Keys, Loading(k)
  PROVE  /\ PageTypes' /\ CallTypes'
         /\ \A j \in Keys \ {k} : cache'[j] = cache[j]
         /\ Asked(cache[k]) => Asked(cache'[k])
         /\ Answer(k) => /\ cache'[k].fetch = "read"
                         /\ LET o == IF k = "cart" THEN readFor ELSE "buyer"
                            IN Asked(cache[k]) => Current(cache'[k], Truth(k, o))
         /\ ~Answer(k) => /\ \A v : Current(cache[k], v) => Current(cache'[k], v)
                          /\ cache'[k].fetch = "sent" => cache[k].fetch = "sent" /\ readFor' = readFor
<1>1. cache[k] \in Entry(Data(k)) /\ readFor \in Owners /\ "guest" \in Owners /\ PageTypes
      /\ CallTypes /\ ServiceTypes
  BY DEF Types, PageTypes, Owners
<1>2. UNCHANGED page /\ readFor' \in Owners
  BY <1>1 DEF Loading, Answer, Arrive, LoadFails, Age
<1>3. CallTypes'
  <2>1. CASE UNCHANGED calls
    BY <1>1, <2>1 DEF CallTypes
  <2>2. CASE calls' = Freed(k, calls)
    BY <1>1, <2>2, FreedIs
  <2>. QED BY <2>1, <2>2 DEF Loading, Answer, Arrive, LoadFails, Age
<1>4. CASE Answer(k)
  <2> DEFINE o == IF k = "cart" THEN readFor ELSE "buyer"
             e == ReadAs(cache[k], Truth(k, o))
  <2>1. o \in Owners
    BY <1>1 DEF Owners
  <2>2. cache' = [cache EXCEPT ![k] = e] /\ cache[k].fetch = "sent"
    BY <1>4 DEF Answer
  <2>3. Truth(k, o) \in Data(k)
    BY <1>1, <2>1, TruthIs
  <2> HIDE DEF o
  <2>4. /\ e \in Entry(Data(k)) /\ e.fetch = "read"
        /\ Asked(cache[k]) => Asked(e) /\ Current(e, Truth(k, o))
    BY <1>1, <2>2, <2>3, ReadEntry
  <2> HIDE DEF e
  <2>5. PageTypes' /\ cache'[k] = e /\ \A j \in Keys \ {k} : cache'[j] = cache[j]
    BY <1>1, <1>2, <2>2, <2>4, EntrySet
  <2>. QED BY <1>3, <1>4, <2>4, <2>5 DEF o
<1>5. ASSUME NEW e \in Entry(Data(k)), cache' = [cache EXCEPT ![k] = e], ~Answer(k),
             Asked(cache[k]) => Asked(e), \A v : Current(cache[k], v) => Current(e, v),
             e.fetch = "idle" \/ (e.fetch = cache[k].fetch /\ readFor' = readFor)
      PROVE  /\ PageTypes' /\ CallTypes'
             /\ \A j \in Keys \ {k} : cache'[j] = cache[j]
             /\ Asked(cache[k]) => Asked(cache'[k])
             /\ \A v : Current(cache[k], v) => Current(cache'[k], v)
             /\ cache'[k].fetch = "sent" => cache[k].fetch = "sent" /\ readFor' = readFor
  <2>1. PageTypes' /\ cache'[k] = e /\ \A j \in Keys \ {k} : cache'[j] = cache[j]
    BY <1>1, <1>2, <1>5, EntrySet
  <2>. QED BY <1>3, <1>5, <2>1
<1>6. CASE Arrive(k) /\ ~Answer(k)
  <2>1. cache' = [cache EXCEPT ![k] = Loaded(cache[k])] /\ cache[k].fetch = "read"
    BY <1>6 DEF Arrive
  <2>2. /\ Loaded(cache[k]) \in Entry(Data(k)) /\ Asked(Loaded(cache[k]))
        /\ Loaded(cache[k]).fetch = "idle"
        /\ \A v : Current(cache[k], v) => Current(Loaded(cache[k]), v)
    BY <1>1, <2>1, LoadedEntry
  <2>. QED BY <1>5, <1>6, <2>1, <2>2
<1>7. CASE LoadFails(k) /\ ~Answer(k)
  <2>1. cache' = [cache EXCEPT ![k] = LoadFailed(cache[k])]
    BY <1>7 DEF LoadFails
  <2>2. /\ LoadFailed(cache[k]) \in Entry(Data(k)) /\ Asked(LoadFailed(cache[k]))
        /\ LoadFailed(cache[k]).fetch = "idle"
        /\ \A v : Current(cache[k], v) => Current(LoadFailed(cache[k]), v)
    BY <1>1, <2>1, FailedEntry
  <2>. QED BY <1>5, <1>7, <2>1, <2>2
<1>8. CASE Age(k) /\ ~Answer(k)
  <2>1. cache' = [cache EXCEPT ![k] = Aged(cache[k])] /\ readFor' = readFor
    BY <1>8 DEF Age
  <2>2. /\ Aged(cache[k]) \in Entry(Data(k)) /\ Asked(Aged(cache[k]))
        /\ Aged(cache[k]).fetch = cache[k].fetch
        /\ \A v : Current(cache[k], v) => Current(Aged(cache[k]), v)
    BY <1>1, <2>1, AgedEntry
  <2>. QED BY <1>5, <1>8, <2>1, <2>2
<1>. QED BY <1>4, <1>6, <1>7, <1>8 DEF Loading

LEMMA LoadingTypes ==
  ASSUME Types, NEW k \in Keys, Loading(k)
  PROVE  Types'
<1>1. UNCHANGED <<service, session, known, local, form, reopened, interest>>
      /\ \/ UNCHANGED doubt
         \/ \E b \in BOOLEAN : doubt' = [doubt EXCEPT ![k] = b]
  <2>1. CASE Answer(k)
    <3>1. doubt' = [doubt EXCEPT ![k] = doubt[k] /\ k = "cart" /\
                      (IF k = "cart" THEN readFor ELSE "buyer") # Owner(known)]
      BY <2>1 DEF Answer
    <3>. QED BY <2>1, <3>1 DEF Answer
  <2>. QED BY <2>1 DEF Loading, Arrive, LoadFails, Age
<1>2. doubt' \in [Keys -> BOOLEAN]
  BY <1>1 DEF Types, VisitTypes
<1>. QED BY <1>1, <1>2, LoadingIs DEF Types, VisitTypes, ServiceTypes, service

LEMMA ElsewhereChanges ==
  ASSUME Types, ChangeElsewhere
  PROVE  /\ Types'
         /\ \A k \in Keys : doubt[k] => doubt'[k]
         /\ \A k \in Keys, o \in Owners : ~doubt'[k] => Truth(k, o)' = Truth(k, o)
<1>1. CASE /\ \E v \in Variants : lines' = [lines EXCEPT !["buyer"][v] = NoRow]
           /\ UNCHANGED saved /\ doubt' = [doubt EXCEPT !["cart"] = TRUE]
  <2>1. lines' \in [Owners -> Lines]
    <3>1. "buyer" \in Owners /\ NoRow \in Row \cup {NoRow} /\ ServiceTypes
      BY DEF Owners, Types
    <3>2. \A v \in Variants : [lines EXCEPT !["buyer"][v] = NoRow] \in [Owners -> Lines]
      BY <3>1, LinesAre
    <3>. QED BY <1>1, <3>2
  <2>2. doubt' \in [Keys -> BOOLEAN] /\ \A k \in Keys : (doubt[k] \/ k = "cart") => doubt'[k]
    BY <1>1 DEF Types, VisitTypes, Keys
  <2>3. Types'
    BY <1>1, <2>1, <2>2 DEF ChangeElsewhere, Types, ServiceTypes, CallTypes, PageTypes, VisitTypes, Data
  <2>. QED BY <1>1, <2>2, <2>3 DEF Truth
<1>2. CASE /\ \E v \in Variants : saved' = [saved EXCEPT ![v] = 0]
           /\ UNCHANGED lines /\ doubt' = [k \in Keys |-> (doubt[k] \/ k # "cart")]
  <2>1. saved' \in Saved
    BY <1>2, ShopAssumption DEF Types, ServiceTypes, Saved
  <2>2. doubt' \in [Keys -> BOOLEAN] /\ \A k \in Keys : (doubt[k] \/ k # "cart") => doubt'[k]
    BY <1>2 DEF Types, VisitTypes
  <2>3. Types'
    BY <1>2, <2>1, <2>2 DEF ChangeElsewhere, Types, ServiceTypes, CallTypes, PageTypes, VisitTypes, Data
  <2>. QED BY <1>2, <2>2, <2>3 DEF Truth
<1>. QED BY <1>1, <1>2 DEF ChangeElsewhere

(* what becomes of a call that is accepted or answered *)
LEMMA CallGoesOn ==
  ASSUME NEW c, Fits(c)
  PROVE  /\ Fits([c EXCEPT !.st = "done"])
         /\ c.by = "heart" => Fits([c EXCEPT !.st = "settling"])
         /\ c.op = "place" => Fits([c EXCEPT !.op = "intent", !.st = "sent"])
<1> DEFINE with(op, st) == [by |-> c.by, op |-> op, st |-> st, who |-> c.who, vs |-> c.vs,
                            id |-> c.id, qty |-> c.qty]
<1>1. c \in Call
  BY DEF Fits
<1>2. /\ [c EXCEPT !.st = "done"] = with(c.op, "done")
      /\ [c EXCEPT !.st = "settling"] = with(c.op, "settling")
      /\ [c EXCEPT !.op = "intent", !.st = "sent"] = with("intent", "sent")
  <2>1. [c EXCEPT !.st = "done"] = with(c.op, "done")
    BY <1>1 DEF Call
  <2>2. [c EXCEPT !.st = "settling"] = with(c.op, "settling")
    BY <1>1 DEF Call
  <2>3. ASSUME NEW e \in Call
        PROVE  [e EXCEPT !.st = "sent"] = [by |-> e.by, op |-> e.op, st |-> "sent", who |-> e.who,
                                           vs |-> e.vs, id |-> e.id, qty |-> e.qty]
    BY DEF Call
  <2> DEFINE d == [c EXCEPT !.op = "intent"]
  <2>4. d = with("intent", c.st)
    BY <1>1 DEF Call
  <2>5. d \in Call
    BY <1>1, <2>4 DEF Call
  <2>6. [c EXCEPT !.op = "intent", !.st = "sent"] = [d EXCEPT !.st = "sent"]
    OBVIOUS
  <2> HIDE DEF d
  <2>7. [c EXCEPT !.op = "intent", !.st = "sent"] = with("intent", "sent")
    BY <2>3, <2>4, <2>5, <2>6
  <2>. QED BY <2>1, <2>2, <2>7
<1>3. /\ with(c.op, "done") \in Call /\ with(c.op, "settling") \in Call
      /\ with("intent", "sent") \in Call
  BY <1>1 DEF Call
<1>. QED BY <1>2, <1>3 DEF Fits

LEMMA SendsTypes ==
  ASSUME Types, Sends
  PROVE  Types'
<1>1. PICK c : Fits(c) /\ Using(c)
  BY DEF Sends
<1>2. CallTypes'
  BY <1>1, CallsSet DEF Using, Types
<1>. QED BY <1>2 DEF Sends, service, Types, ServiceTypes, PageTypes, VisitTypes, Data

LEMMA PayTypes ==
  ASSUME Types, Pay
  PROVE  Types' /\ \E s \in Slots : calls[s] = NoCall /\ calls'[s] # NoCall
                     /\ calls'[s].by = "pay" /\ calls'[s].st = "sent"
                     /\ \A t \in Slots \ {s} : calls'[t] = calls[t]
<1> DEFINE c == [by |-> "pay", op |-> "clear", st |-> "sent", who |-> Owner(known),
                 vs |-> {}, id |-> 0, qty |-> 0]
<1>1. Using(c)
  BY UseIs DEF Pay
<1>2. c \in Call
  BY OwnerIs, ShopAssumption DEF Types, VisitTypes, Call
<1>3. Fits(c) /\ c.by = "pay" /\ c.st = "sent"
  BY <1>2 DEF Fits
<1> HIDE DEF c
<1>4. CallTypes'
  BY <1>1, <1>3, CallsSet DEF Using, Types
<1>5. orders' \in [unpaid : Nat, paid : Nat] /\ orders'.unpaid + orders'.paid <= MaxOrders
  BY DEF Pay, Types, ServiceTypes
<1>6. c # NoCall
  BY <1>3, CallIs
<1>7. Types'
  BY <1>4, <1>5 DEF Pay, Types, ServiceTypes, PageTypes, VisitTypes, Data
<1>. QED BY <1>1, <1>3, <1>6, <1>7 DEF Using, Types, CallTypes

LEMMA LocalTypes ==
  ASSUME Types, NEW v \in Variants, LocalLine(v)
  PROVE  Types'
<1>1. PICK q \in 0 .. MaxQty : local' = [local EXCEPT ![v] = q]
  <2>1. local[v] \in 0 .. MaxQty /\ MaxQty \in Nat
    BY ShopAssumption DEF Types, VisitTypes
  <2>. QED BY <2>1 DEF LocalLine
<1>2. local' \in [Variants -> 0 .. MaxQty]
  BY <1>1 DEF Types, VisitTypes
<1>. QED BY <1>2 DEF LocalLine, service, Types, ServiceTypes, CallTypes, PageTypes, VisitTypes, Data

LEMMA HandledTypes ==
  ASSUME Types, NEW s \in Slots, Handled(s)
  PROVE  Types' /\ Fits(calls[s]) /\ Accepts(calls[s])
<1>1. Fits(calls[s]) /\ Accepts(calls[s])
  BY DEF Handled, Types, CallTypes
<1>2. ServiceTypes'
  BY <1>1, AcceptsService DEF Types
<1>3. CallTypes'
  <2>1. calls' = [calls EXCEPT ![s] = [calls[s] EXCEPT !.st = "done"]]
    BY DEF Handled
  <2>. QED BY <1>1, <2>1, CallGoesOn, CallsSet DEF Types
<1>. QED BY <1>1, <1>2, <1>3 DEF Handled, Types, PageTypes, VisitTypes, Data

LEMMA KeyIs == \A op : Key(op) \subseteq Keys
BY DEF Key, Keys

(* an answer invalidates, is one of the two steps of a checkout, or fails *)
LEMMA SucceededIs ==
  ASSUME Types, NEW s \in Slots, Succeeded(s)
  PROVE  /\ calls[s] # NoCall /\ Fits(calls[s]) /\ calls[s].st = "done"
         /\ UNCHANGED <<service, session, known, page, local, reopened, interest>>
         /\ \/ /\ calls[s].op \in {"add", "set", "delete", "save", "unsave"} /\ UNCHANGED form
               /\ \E r : /\ \/ r = NoCall
                            \/ /\ Fits(r) /\ r.st = "settling"
                               /\ r.op = calls[s].op /\ r.by = calls[s].by
                         /\ Invalidate(Key(calls[s].op), s, r)
                         /\ calls' = [calls EXCEPT ![s] = r]
            \/ /\ calls[s].op = "place" /\ UNCHANGED <<cache, readFor, form>>
               /\ \E r : /\ Fits(r) /\ r.op = "intent" /\ r.st = "sent" /\ r.by = calls[s].by
                         /\ calls' = [calls EXCEPT ![s] = r]
               /\ doubt' = [doubt EXCEPT !["cart"] = TRUE]
            \/ /\ calls[s].op = "intent" /\ UNCHANGED <<cache, readFor, doubt>>
               /\ calls' = [calls EXCEPT ![s] = NoCall]
               /\ form' = IF calls[s].by = "submit" THEN "pay" ELSE form
<1> DEFINE c == calls[s]
<1>1. c # NoCall /\ Fits(c) /\ c.st = "done" /\ c \in Call
  BY DEF Succeeded, Types, CallTypes, Fits
<1>2. UNCHANGED <<service, session, known, page, local, reopened, interest>>
  BY DEF Succeeded
<1>3. CASE /\ c.op \in {"add", "set", "delete", "save", "unsave"} /\ UNCHANGED form
           /\ Invalidate(Key(c.op), s, IF c.by = "heart" /\ "wishlist" \in Shows(page, known)
                                       THEN [c EXCEPT !.st = "settling"] ELSE NoCall)
  <2> DEFINE r == IF c.by = "heart" /\ "wishlist" \in Shows(page, known)
                  THEN [c EXCEPT !.st = "settling"] ELSE NoCall
  <2>1. r = NoCall \/ (Fits(r) /\ r.st = "settling" /\ r.op = c.op /\ r.by = c.by)
    <3>1. c.by = "heart" => Fits([c EXCEPT !.st = "settling"])
      BY <1>1, CallGoesOn
    <3>2. LET d == [c EXCEPT !.st = "settling"]
          IN d.st = "settling" /\ d.op = c.op /\ d.by = c.by
      BY <1>1 DEF Call
    <3>. QED BY <3>1, <3>2
  <2>2. Invalidate(Key(c.op), s, r)
    BY <1>3
  <2> HIDE DEF r
  <2>3. calls' = [calls EXCEPT ![s] = r]
    BY <2>2 DEF Invalidate
  <2>. QED BY <1>1, <1>2, <1>3, <2>1, <2>2, <2>3
<1>4. CASE /\ c.op = "place" /\ UNCHANGED <<cache, readFor, form>>
           /\ calls' = [calls EXCEPT ![s] = [c EXCEPT !.op = "intent", !.st = "sent"]]
           /\ doubt' = [doubt EXCEPT !["cart"] = TRUE]
  <2> DEFINE r == [c EXCEPT !.op = "intent", !.st = "sent"]
  <2>1. Fits(r) /\ r.op = "intent" /\ r.st = "sent" /\ r.by = c.by
    BY <1>1, <1>4, CallGoesOn DEF Call
  <2>2. calls' = [calls EXCEPT ![s] = r]
    BY <1>4
  <2> HIDE DEF r
  <2>. QED BY <1>1, <1>2, <1>4, <2>1, <2>2
<1>5. CASE /\ c.op = "intent" /\ UNCHANGED <<cache, readFor, doubt>>
           /\ calls' = [calls EXCEPT ![s] = NoCall]
           /\ form' = IF c.by = "submit" THEN "pay" ELSE form
  BY <1>1, <1>2, <1>5
<1>. QED BY <1>3, <1>4, <1>5 DEF Succeeded

LEMMA SucceededTypes ==
  ASSUME Types, NEW s \in Slots, Succeeded(s)
  PROVE  Types'
<1>1. UNCHANGED <<service, session, known, page, local, reopened, interest>>
  BY SucceededIs
<1>2. ServiceTypes' /\ form' \in {form, "pay"}
  BY <1>1, SucceededIs DEF Types, ServiceTypes, service
<1>3. PageTypes' /\ CallTypes' /\ doubt' \in [Keys -> BOOLEAN]
  <2>1. ASSUME NEW r, r = NoCall \/ Fits(r), Invalidate(Key(calls[s].op), s, r)
        PROVE  PageTypes' /\ CallTypes' /\ doubt' \in [Keys -> BOOLEAN]
    BY <1>1, <2>1, InvalidateIs, KeyIs
  <2>2. ASSUME NEW r, r = NoCall \/ Fits(r), UNCHANGED <<cache, readFor>>,
               doubt' = doubt \/ doubt' = [doubt EXCEPT !["cart"] = TRUE],
               calls' = [calls EXCEPT ![s] = r]
        PROVE  PageTypes' /\ CallTypes' /\ doubt' \in [Keys -> BOOLEAN]
    <3>1. CallTypes'
      BY <2>2, CallsSet DEF Types
    <3>. QED BY <1>1, <2>2, <3>1 DEF Types, PageTypes, VisitTypes, Data
  <2>. QED BY <2>1, <2>2, SucceededIs
<1>. QED BY <1>1, <1>2, <1>3 DEF Types, VisitTypes

LEMMA FailedTypes ==
  ASSUME Types, NEW s \in Slots, Failed(s)
  PROVE  Types'
<1>1. CallTypes'
  BY CallsSet DEF Failed, Types
<1>2. doubt' \in [Keys -> BOOLEAN]
  <2>1. doubt' = [k \in Keys |-> (doubt[k] \/ (calls[s].st = "done" /\ k \in Key(calls[s].op)))]
    BY DEF Failed
  <2>2. \A k \in Keys : doubt[k] \in BOOLEAN
    BY DEF Types, VisitTypes
  <2>. QED BY <2>1, <2>2
<1>3. reopened' \in Nat
  BY DEF Failed, Types, VisitTypes
<1>. QED BY <1>1, <1>2, <1>3 DEF Failed, service, Types, ServiceTypes, PageTypes, VisitTypes, Data

LEMMA ClearEndsTypes ==
  ASSUME Types, NEW s \in Slots, ClearEnds(s)
  PROVE  Types'
<1>1. Cleared(s)
  BY DEF ClearEnds
<1>2. PageTypes' /\ CallTypes' /\ doubt' \in [Keys -> BOOLEAN]
  BY <1>1, ClearedIs
<1>3. local' \in [Variants -> 0 .. MaxQty] /\ reopened' \in Nat
  BY <1>1, DroppedIs, ShopAssumption DEF Cleared, Types, VisitTypes
<1>. QED BY <1>1, <1>2, <1>3 DEF Cleared, service, Types, ServiceTypes, VisitTypes

(* the steps, in the groups the proofs go by *)
LEMMA NextIs ==
  ASSUME Types, ShopNext
  PROVE  \/ \E p \in AllPages : Elsewhere(p)
         \/ \E k \in Keys : Loading(k)
         \/ ChangeElsewhere \/ Sends \/ Pay \/ \E v \in Variants : LocalLine(v)
         \/ \E s \in Slots : Handled(s) \/ Succeeded(s) \/ Failed(s) \/ ClearEnds(s)
<1>1. Pages[interest] \subseteq AllPages
  BY ShopAssumption DEF Types, VisitTypes
<1>2. page \in AllPages
  BY DEF Types, PageTypes
<1>3. CASE Controls
  BY <1>2, <1>3, ControlsAre DEF Elsewhere
<1>4. CASE ~Controls
  BY <1>1, <1>2, <1>4 DEF ShopNext, Elsewhere, Loading, CallEnds
<1>. QED BY <1>3, <1>4

LEMMA NextTypes == Types /\ [ShopNext]_shopVars => Types'
<1> SUFFICES ASSUME Types, [ShopNext]_shopVars PROVE Types'
  OBVIOUS
<1>1. CASE UNCHANGED shopVars
  BY <1>1 DEF shopVars, service, Types, ServiceTypes, CallTypes, PageTypes, VisitTypes, Data
<1>2. CASE ShopNext
  BY <1>2, NextIs, ElsewhereTypes, LoadingTypes, ElsewhereChanges, SendsTypes, PayTypes, LocalTypes,
     HandledTypes, SucceededTypes, FailedTypes, ClearEndsTypes
<1>. QED BY <1>1, <1>2

LEMMA Typed == ShopSpec => []Types
BY InitTypes, NextTypes, PTL DEF ShopSpec

(* Every variable has its type; in particular no line and no row goes past  *)
(* its bound, however calls and merges cross.                               *)
THEOREM ShopIsTyped == ShopSpec => []ShopTypeOK
<1>1. Types => ShopTypeOK
  <2> SUFFICES ASSUME Types PROVE ShopTypeOK
    OBVIOUS
  <2>1. orders \in [unpaid : 0 .. MaxOrders, paid : 0 .. MaxOrders]
    BY ShopAssumption DEF Types, ServiceTypes
  <2>2. calls \in [Slots -> Call \cup {NoCall}]
    BY DEF Types, CallTypes, Fits
  <2>. QED BY <2>1, <2>2 DEF ShopTypeOK, Types, ServiceTypes, PageTypes, VisitTypes
<1>. QED BY <1>1, Typed, PTL

-----------------------------------------------------------------------------
(* Orders of the checkout                                                  *)

(* the calls of the checkout at work, and those that have placed their order *)
Submits == {s \in Slots : calls[s] # NoCall /\ calls[s].by = "submit"}
Placed == {s \in Submits : calls[s].op = "intent" \/ calls[s].st = "done"}

(* one checkout call at a time, sent from the form and not yet paid for;    *)
(* then an order accepted is one more in hand                               *)
OneCheckout ==
  /\ \A s, t \in Submits : s = t
  /\ Submits # {} => form = "form"
  /\ OrdersAccounted

LEMMA DroppedBy ==
  Dropped = IF form = "pay" \/ Placed # {} THEN 1 ELSE 0
BY DEF Dropped, InHand, Placed, Submits

LEMMA InitCheckout == ShopInit => OneCheckout
<1> SUFFICES ASSUME ShopInit PROVE OneCheckout
  OBVIOUS
<1>1. Submits = {} /\ orders.unpaid = 0 /\ reopened = 0
  BY DEF ShopInit, Submits
<1>2. Dropped \in {0, 1}
  BY DroppedIs
<1>. QED BY <1>1, <1>2 DEF OneCheckout, OrdersAccounted

(* the checkout is as it was *)
LEMMA CheckoutStays ==
  ASSUME OneCheckout, UNCHANGED <<form, orders, reopened>>, Submits' = Submits, Placed' = Placed
  PROVE  OneCheckout'
<1>1. Dropped' = Dropped
  BY DroppedBy DEF Dropped, InHand, Placed, Submits
<1>. QED BY <1>1 DEF OneCheckout, OrdersAccounted

LEMMA DroppedThen ==
  Dropped' = IF form' = "pay" \/ Placed' # {} THEN 1 ELSE 0
BY DEF Dropped, InHand, Placed, Submits

(* or is gone, and an order it had is excused *)
LEMMA CheckoutGone ==
  ASSUME Types, Types', Submits' = {}, orders'.unpaid <= reopened'
  PROVE  OneCheckout'
<1>1. orders'.unpaid \in Nat /\ reopened' \in Nat /\ Dropped' \in {0, 1}
  BY DroppedThen DEF Types, ServiceTypes, VisitTypes
<1>. QED BY <1>1 DEF OneCheckout, OrdersAccounted

LEMMA ElsewhereCheckout ==
  ASSUME Types, OneCheckout, NEW p \in AllPages, Elsewhere(p)
  PROVE  OneCheckout'
<1>1. Types' /\ Dropped \in {0, 1}
  BY ElsewhereTypes, DroppedIs
<1>2. /\ orders.unpaid \in Nat /\ reopened \in Nat
      /\ orders.unpaid <= reopened + Dropped
  BY DEF Types, ServiceTypes, VisitTypes, OneCheckout, OrdersAccounted
<1>3. CASE Initialised \/ SignIn \/ Focus
  BY <1>3, CheckoutStays DEF Initialised, SignIn, Focus, service, Submits, Placed
<1>4. CASE Visit(p) \/ TurnedAway \/ Load \/ SignOut
  <2>1. orders' = orders /\ reopened' = reopened + Dropped
    BY <1>4 DEF Visit, TurnedAway, Load, SignOut, service
  <2>2. Submits' = {}
    <3>1. CASE Visit(p) \/ TurnedAway \/ SignOut
      <4>1. calls' = Left
        BY <3>1 DEF Visit, TurnedAway, SignOut
      <4>. QED BY <4>1, LeftIs DEF Submits, Types
    <3>2. CASE Load
      BY <3>2 DEF Load, Quiet, Submits
    <3>. QED BY <1>4, <3>1, <3>2
  <2>. QED BY <1>1, <1>2, <2>1, <2>2, CheckoutGone
<1>5. CASE PayElsewhere
  <2>1. Submits' = {}
    BY <1>5 DEF PayElsewhere, Quiet, Submits
  <2>2. Dropped = 1
    BY <1>5, DroppedBy DEF PayElsewhere
  <2>3. \/ orders'.unpaid = orders.unpaid - 1 /\ reopened' = reopened
        \/ orders'.unpaid = orders.unpaid /\ reopened' = reopened + 1
    BY <1>5 DEF PayElsewhere
  <2>. QED BY <1>1, <1>2, <2>1, <2>2, <2>3, CheckoutGone
<1>. QED BY <1>3, <1>4, <1>5 DEF Elsewhere

LEMMA SendsCheckout ==
  ASSUME Types, OneCheckout, Sends
  PROVE  OneCheckout'
<1>0. PICK c : /\ Fits(c) /\ c.st = "sent" /\ c.op # "intent" /\ (c.by = "submit" => CanSubmit)
               /\ Using(c)
  BY DEF Sends
<1>1. PICK s \in Slots : calls[s] = NoCall /\ calls' = [calls EXCEPT ![s] = c]
  BY <1>0 DEF Using
<1>2. /\ calls'[s] = c /\ c # NoCall
      /\ \A t \in Slots \ {s} : calls'[t] = calls[t]
  BY <1>0, <1>1, CallIs DEF Types, CallTypes
<1>3. UNCHANGED <<form, orders, reopened>>
  BY DEF Sends, service
<1>4. CASE c.by # "submit"
  <2>1. Submits' = Submits /\ Placed' = Placed
    BY <1>1, <1>2, <1>4 DEF Submits, Placed
  <2>. QED BY <1>3, <2>1, CheckoutStays
<1>5. CASE c.by = "submit"
  <2>1. Submits = {} /\ form = "form"
    BY <1>0, <1>5 DEF CanSubmit, Busy, Submits
  <2>2. Submits' = {s}
    BY <1>2, <1>5, <2>1 DEF Submits
  <2>3. Dropped = 0
    BY <2>1, DroppedBy DEF Placed
  <2>4. Dropped' \in {0, 1}
    BY DroppedThen
  <2>. QED BY <1>3, <2>1, <2>2, <2>3, <2>4 DEF OneCheckout, OrdersAccounted, Types, ServiceTypes, VisitTypes
<1>. QED BY <1>4, <1>5

LEMMA PayCheckout ==
  ASSUME Types, OneCheckout, Pay
  PROVE  OneCheckout'
<1>1. PICK s \in Slots : /\ calls'[s] # NoCall /\ calls'[s].by = "pay"
                         /\ \A t \in Slots \ {s} : calls'[t] = calls[t]
  BY PayTypes
<1>2. Submits = {} /\ Dropped = 1
  BY DroppedBy DEF Pay, OneCheckout
<1>3. Submits' = {}
  BY <1>1, <1>2 DEF Submits
<1>4. orders'.unpaid = orders.unpaid - 1 /\ reopened' = reopened
  BY DEF Pay
<1>. QED BY <1>2, <1>3, <1>4, PayTypes, CheckoutGone
     DEF OneCheckout, OrdersAccounted, Types, ServiceTypes, VisitTypes

LEMMA CallIsThen ==
  ASSUME Types, NEW s \in Slots, NEW c, calls' = [calls EXCEPT ![s] = c]
  PROVE  calls'[s] = c /\ \A t \in Slots \ {s} : calls'[t] = calls[t]
BY DEF Types, CallTypes

LEMMA HandledCheckout ==
  ASSUME Types, OneCheckout, NEW s \in Slots, Handled(s)
  PROVE  OneCheckout'
<1> DEFINE c == calls[s]
           d == [c EXCEPT !.st = "done"]
<1>1. Fits(c) /\ Accepts(c) /\ c # NoCall /\ c.st = "sent" /\ Types'
  BY HandledTypes DEF Handled
<1>2. calls'[s] = d /\ \A t \in Slots \ {s} : calls'[t] = calls[t]
  BY CallIsThen DEF Handled
<1>3. d # NoCall /\ d.by = c.by /\ d.op = c.op /\ d.st = "done"
  <2>1. Fits(d)
    BY <1>1, CallGoesOn
  <2>. QED BY <1>1, <2>1, CallIs DEF Fits, Call
<1>4. form' = form /\ reopened' = reopened + (IF c.op = "place" /\ c.by = "gone" THEN 1 ELSE 0)
  BY DEF Handled
<1> HIDE DEF c, d
<1>5. Submits' = Submits
  BY <1>1, <1>2, <1>3 DEF Submits, c
<1>6. /\ orders.unpaid \in Nat /\ reopened \in Nat
      /\ orders.unpaid <= reopened + Dropped
  BY DEF Types, ServiceTypes, VisitTypes, OneCheckout, OrdersAccounted
<1>7. CASE c.op # "place"
  <2>1. orders' = orders /\ reopened' = reopened
    <3>1. orders' = orders
      BY <1>1, <1>7 DEF Accepts, service
    <3>. QED BY <1>4, <1>6, <1>7, <3>1
  <2>2. c.by = "submit" => c.op = "intent"
    BY <1>1, <1>7 DEF Fits
  <2>3. Placed' = Placed
    BY <1>1, <1>2, <1>3, <1>5, <2>2 DEF Placed, Submits, c
  <2>. QED BY <1>4, <1>5, <2>1, <2>3, CheckoutStays
<1>8. CASE c.op = "place"
  <2>1. orders'.unpaid = orders.unpaid + 1
    BY <1>1, <1>8 DEF Accepts, Types, ServiceTypes
  <2>2. c.by \in {"submit", "gone"}
    BY <1>1, <1>8 DEF Fits
  <2>3. CASE c.by = "gone"
    <3>1. reopened' = reopened + 1
      BY <1>4, <1>8, <2>3
    <3>2. Placed' = Placed
      BY <1>2, <1>3, <1>5, <2>3 DEF Placed, Submits
    <3>3. Dropped' = Dropped
      BY <1>4, <3>2, DroppedBy, DroppedThen
    <3>. QED BY <1>4, <1>5, <1>6, <2>1, <3>1, <3>3, DroppedIs DEF OneCheckout, OrdersAccounted
  <2>4. CASE c.by = "submit"
    <3>1. s \in Submits /\ s \notin Placed
      BY <1>1, <1>8, <2>4 DEF Submits, Placed, c
    <3>2. Submits = {s} /\ form = "form"
      BY <3>1 DEF OneCheckout
    <3>3. Placed = {} /\ s \in Placed'
      BY <1>2, <1>3, <1>5, <3>1, <3>2 DEF Placed
    <3>4. Dropped = 0 /\ Dropped' = 1
      BY <3>2, <3>3, DroppedBy, DroppedThen
    <3>5. reopened' = reopened
      BY <1>4, <1>6, <2>4
    <3>. QED BY <1>4, <1>5, <1>6, <2>1, <3>4, <3>5 DEF OneCheckout, OrdersAccounted
  <2>. QED BY <2>2, <2>3, <2>4
<1>. QED BY <1>7, <1>8

LEMMA SucceededCheckout ==
  ASSUME Types, OneCheckout, NEW s \in Slots, Succeeded(s)
  PROVE  OneCheckout'
<1> DEFINE c == calls[s]
<1>1. c # NoCall /\ Fits(c) /\ c.st = "done" /\ UNCHANGED <<orders, reopened>>
  BY SucceededIs DEF service
<1>2. CASE c.op \in {"add", "set", "delete", "save", "unsave"} /\ UNCHANGED form
  <2>1. PICK r : /\ \/ r = NoCall
                    \/ /\ Fits(r) /\ r.st = "settling" /\ r.op = c.op /\ r.by = c.by
                 /\ calls' = [calls EXCEPT ![s] = r]
    BY <1>2, SucceededIs
  <2>2. calls'[s] = r /\ \A t \in Slots \ {s} : calls'[t] = calls[t]
    BY <2>1, CallIsThen
  <2>3. c.by # "submit" /\ (r # NoCall => r.by # "submit")
    BY <1>1, <1>2, <2>1 DEF Fits
  <2>4. Submits' = Submits /\ Placed' = Placed
    BY <2>2, <2>3 DEF Submits, Placed
  <2>. QED BY <1>1, <1>2, <2>4, CheckoutStays
<1>3. CASE c.op = "place"
  <2>1. PICK r : Fits(r) /\ r.op = "intent" /\ r.by = c.by /\ calls' = [calls EXCEPT ![s] = r]
    BY <1>3, SucceededIs
  <2>2. calls'[s] = r /\ r # NoCall /\ \A t \in Slots \ {s} : calls'[t] = calls[t]
    BY <2>1, CallIsThen, CallIs
  <2>3. Submits' = Submits
    BY <1>1, <2>1, <2>2 DEF Submits
  <2>4. Placed' = Placed
    BY <1>1, <2>1, <2>2, <2>3 DEF Placed
  <2>5. form' = form
    BY <1>3, SucceededIs
  <2>. QED BY <1>1, <2>3, <2>4, <2>5, CheckoutStays
<1>4. CASE c.op = "intent"
  <2>1. calls' = [calls EXCEPT ![s] = NoCall] /\ form' = IF c.by = "submit" THEN "pay" ELSE form
    BY <1>4, SucceededIs
  <2>2. calls'[s] = NoCall /\ \A t \in Slots \ {s} : calls'[t] = calls[t]
    BY <2>1, CallIsThen
  <2>3. CASE c.by # "submit"
    <3>1. Submits' = Submits /\ Placed' = Placed
      BY <2>2, <2>3 DEF Submits, Placed
    <3>. QED BY <1>1, <2>1, <2>3, <3>1, CheckoutStays
  <2>4. CASE c.by = "submit"
    <3>1. s \in Placed /\ s \in Submits
      BY <1>1, <2>4 DEF Submits, Placed
    <3>2. Submits = {s}
      BY <3>1 DEF OneCheckout
    <3>3. Submits' = {}
      BY <2>2, <3>2 DEF Submits
    <3>4. Dropped = 1 /\ Dropped' = 1
      BY <2>1, <2>4, <3>1, DroppedBy, DroppedThen
    <3>. QED BY <1>1, <3>3, <3>4 DEF OneCheckout, OrdersAccounted
  <2>. QED BY <2>3, <2>4
<1>. QED BY <1>2, <1>3, <1>4, SucceededIs

LEMMA FailedCheckout ==
  ASSUME Types, OneCheckout, NEW s \in Slots, Failed(s)
  PROVE  OneCheckout'
<1> DEFINE c == calls[s]
           lost == IF c.by = "submit" /\ (c.op = "intent" \/ c.st = "done") THEN 1 ELSE 0
<1>1. c # NoCall /\ UNCHANGED <<orders, form>> /\ reopened' = reopened + lost
  BY DEF Failed, service
<1>2. calls'[s] = NoCall /\ \A t \in Slots \ {s} : calls'[t] = calls[t]
  BY CallIsThen DEF Failed
<1>3. CASE c.by # "submit"
  <2>1. Submits' = Submits /\ Placed' = Placed
    BY <1>2, <1>3 DEF Submits, Placed
  <2>2. reopened' = reopened
    BY <1>1, <1>3 DEF Types, VisitTypes
  <2>. QED BY <1>1, <2>1, <2>2, CheckoutStays
<1>4. CASE c.by = "submit"
  <2>1. s \in Submits /\ form = "form"
    BY <1>1, <1>4 DEF Submits, OneCheckout
  <2>2. Submits = {s}
    BY <2>1 DEF OneCheckout
  <2>3. Submits' = {}
    BY <1>2, <2>2 DEF Submits
  <2>4. Dropped = lost
    <3>1. Placed # {} <=> c.op = "intent" \/ c.st = "done"
      BY <2>2 DEF Placed
    <3>. QED BY <1>4, <2>1, <3>1, DroppedBy
  <2> HIDE DEF lost
  <2>5. orders'.unpaid <= reopened'
    BY <1>1, <2>4 DEF OneCheckout, OrdersAccounted
  <2>. QED BY <2>3, <2>5, FailedTypes, CheckoutGone
<1>. QED BY <1>3, <1>4

LEMMA ClearEndsCheckout ==
  ASSUME Types, OneCheckout, NEW s \in Slots, ClearEnds(s)
  PROVE  OneCheckout'
<1>1. /\ calls' = [Left EXCEPT ![s] = NoCall] /\ form' = "form"
      /\ UNCHANGED orders /\ reopened' = reopened + Dropped
  BY DEF ClearEnds, Cleared, service
<1>2. \A t \in Slots : calls'[t] \in {Left[t], NoCall}
  BY <1>1 DEF Left
<1>3. Submits' = {}
  BY <1>2, LeftIs DEF Submits, Types
<1>. QED BY <1>1, <1>3, ClearEndsTypes, CheckoutGone DEF OneCheckout, OrdersAccounted

LEMMA NextCheckout == Types /\ OneCheckout /\ [ShopNext]_shopVars => OneCheckout'
<1> SUFFICES ASSUME Types, OneCheckout, [ShopNext]_shopVars PROVE OneCheckout'
  OBVIOUS
<1>1. CASE UNCHANGED shopVars
  BY <1>1, CheckoutStays DEF shopVars, service, Submits, Placed
<1>2. ASSUME NEW k \in Keys, Loading(k) PROVE OneCheckout'
  <2>1. UNCHANGED <<form, orders, reopened>>
    BY <1>2 DEF Loading, Answer, Arrive, LoadFails, Age, service
  <2>2. \A s \in Slots :
          \/ calls'[s] = calls[s]
          \/ calls[s] # NoCall /\ calls[s].by # "submit" /\ calls'[s] = NoCall
    <3>1. CASE UNCHANGED calls
      BY <3>1
    <3>2. CASE calls' = Freed(k, calls)
      BY <3>2, FreedIs DEF Types, CallTypes, Fits
    <3>. QED BY <1>2, <3>1, <3>2 DEF Loading, Answer, Arrive, LoadFails, Age
  <2>3. Submits' = Submits /\ Placed' = Placed
    BY <2>2 DEF Submits, Placed
  <2>. QED BY <2>1, <2>3, CheckoutStays
<1>3. CASE ChangeElsewhere \/ \E v \in Variants : LocalLine(v)
  BY <1>3, CheckoutStays DEF ChangeElsewhere, LocalLine, service, Submits, Placed
<1>4. CASE ShopNext
  BY <1>2, <1>3, <1>4, NextIs, ElsewhereCheckout, SendsCheckout, PayCheckout, HandledCheckout,
     SucceededCheckout, FailedCheckout, ClearEndsCheckout
<1>. QED BY <1>1, <1>4

(* However many calls are under way, and whatever page the visitor goes to, *)
(* an order that is not paid is the one in the checkout or one whose        *)
(* checkout was left, or failed, after it was placed.                       *)
THEOREM OrdersAreAccounted == ShopSpec => []OrdersAccounted
<1>1. OneCheckout => OrdersAccounted
  BY DEF OneCheckout
<1>. QED BY <1>1, InitCheckout, NextCheckout, Typed, PTL DEF ShopSpec

-----------------------------------------------------------------------------
(* What is shown as fresh                                                  *)

(* a change of k was accepted, and the page has not heard *)
Unheard(k) == \E s \in Slots : /\ calls[s] # NoCall /\ calls[s].st = "done"
                               /\ calls[s].op # "intent" /\ k \in Key(calls[s].op)

(* an entry without doubt, of which every change was heard, shows as fresh  *)
(* what the service has, and so does an answer on its way to it; a cart is  *)
(* being asked for in the name of whom the page takes the visitor for       *)
FollowsAt(k) ==
  /\ Asked(cache[k])
  /\ ~doubt[k] /\ k = "cart" /\ cache[k].fetch = "sent" => readFor = Owner(known)
  /\ ~doubt[k] /\ ~Unheard(k) => Current(cache[k], Truth(k, Owner(known)))
CacheFollows == \A k \in Keys : FollowsAt(k)

LEMMA InitFollows == ShopInit => CacheFollows
<1> SUFFICES ASSUME ShopInit, NEW k \in Keys PROVE FollowsAt(k)
  BY DEF CacheFollows
<1>1. cache[k] = Empty
  BY DEF ShopInit
<1>2. Empty.fetch = "idle"
  BY DEF Empty
<1>. QED BY ONLY <1>1, <1>2, EmptyEntry DEF FollowsAt

(* no entry and no request changes, and what the service would answer does  *)
(* not, or the change is still to be heard of or is doubted                 *)
LEMMA EntryStays ==
  ASSUME NEW k \in Keys, FollowsAt(k), UNCHANGED known, k = "cart" => readFor' = readFor,
         cache'[k] = cache[k],
         doubt[k] => doubt'[k],
         ~doubt'[k] /\ ~Unheard(k)' => ~Unheard(k) /\ Truth(k, Owner(known))' = Truth(k, Owner(known))
  PROVE  FollowsAt(k)'
<1>1. Owner(known)' = Owner(known)
  BY DEF Owner
<1>. QED BY <1>1 DEF FollowsAt, Asked, Current

LEMMA ElsewhereFollows ==
  ASSUME Types, CacheFollows, NEW p \in AllPages, Elsewhere(p)
  PROVE  CacheFollows'
<1> SUFFICES ASSUME NEW k \in Keys PROVE FollowsAt(k)'
  BY DEF CacheFollows
<1> USE DEF Types
<1>1. readFor \in Owners /\ cache[k] \in Entry(Data(k)) /\ "cart" \in Keys /\ doubt[k] \in BOOLEAN
      /\ \A j \in Keys : cache[j] \in Entry(Data(j))
  BY DEF PageTypes, VisitTypes, Keys
<1>2. ASSUME NEW c, \A j \in Keys : c[j] \in Entry(Data(j)), NEW q \in AllPages, NEW u \in BOOLEAN,
             Open(q, u, c), known' = u, Asked(c[k]),
             ~doubt'[k] /\ k = "cart" /\ c[k].fetch = "sent" => readFor = Owner(u),
             ~doubt'[k] /\ ~Unheard(k)' => Current(c[k], Truth(k, Owner(known))')
      PROVE  FollowsAt(k)'
  <2>1. Asked(cache'[k]) /\ \A v : Current(c[k], v) => Current(cache'[k], v)
    BY <1>1, <1>2, OpenIs
  <2>2. cache'["cart"].fetch = "sent" =>
          readFor' = Owner(u) \/ (c["cart"].fetch = "sent" /\ readFor' = readFor)
    BY <1>1, <1>2, OpenIs
  <2>3. Owner(known)' = Owner(u)
    BY <1>2 DEF Owner
  <2>4. ~doubt'[k] /\ k = "cart" /\ cache'[k].fetch = "sent" => readFor' = Owner(known)'
    BY <1>2, <2>2, <2>3
  <2>5. ~doubt'[k] /\ ~Unheard(k)' => Current(cache'[k], Truth(k, Owner(known))')
    BY <1>2, <2>1
  <2>6. Asked(cache[k])'
    BY <2>1 DEF Asked
  <2>7. ~doubt'[k] /\ ~Unheard(k)' => Current(cache[k], Truth(k, Owner(known)))'
    BY <2>5 DEF Current
  <2>. QED BY <2>4, <2>6, <2>7 DEF FollowsAt
<1>3. CASE Visit(p) \/ TurnedAway \/ Focus
  <2>1. PICK q \in AllPages : Open(q, known, cache)
    <3>1. page \in AllPages /\ {"catalogue", "login"} \subseteq AllPages
      BY DEF PageTypes, AllPages
    <3>. QED BY <1>3, <3>1 DEF Visit, TurnedAway, Focus
  <2>2. UNCHANGED <<service, known, doubt>>
    BY <1>3 DEF Visit, TurnedAway, Focus
  <2>3. Truth(k, Owner(known))' = Truth(k, Owner(known))
    BY <2>2 DEF Truth, Owner, service
  <2>4. Unheard(k)' <=> Unheard(k)
    <3>1. CASE UNCHANGED calls
      BY <3>1 DEF Unheard
    <3>2. CASE calls' = Left
      BY <3>2, LeftIs DEF Unheard
    <3>. QED BY <1>3, <3>1, <3>2 DEF Visit, TurnedAway, Focus
  <2>5. FollowsAt(k)
    BY DEF CacheFollows
  <2>6. /\ Asked(cache[k])
        /\ ~doubt'[k] /\ k = "cart" /\ cache[k].fetch = "sent" => readFor = Owner(known)
        /\ ~doubt'[k] /\ ~Unheard(k)' => Current(cache[k], Truth(k, Owner(known))')
    BY <2>2, <2>3, <2>4, <2>5 DEF FollowsAt
  <2>7. known \in BOOLEAN /\ known' = known
    BY <2>2 DEF VisitTypes
  <2>. QED BY <1>1, <1>2, <2>1, <2>6, <2>7
<1>4. CASE Initialised \/ SignIn \/ SignOut
  <2>1. PICK q \in AllPages, u \in BOOLEAN : Open(q, u, cache) /\ known' = u
    <3>1. page \in AllPages /\ {"catalogue", "login"} \subseteq AllPages
      BY DEF PageTypes, AllPages
    <3>. QED BY <1>4, <3>1 DEF Initialised, SignIn, SignOut
  <2>2. UNCHANGED saved /\ calls' \in {calls, Left} /\ SomeoneElse
    BY <1>4 DEF Initialised, SignIn, SignOut, service
  <2>3. FollowsAt(k)
    BY DEF CacheFollows
  <2>4. CASE k = "cart"
    <3>1. doubt'[k] = (doubt[k] \/ cache[k].data # NoData \/ cache[k].fetch # "idle")
      BY <1>1, <2>2, <2>4 DEF SomeoneElse, VisitTypes
    <3>2. ~doubt'[k] => cache[k].fetch = "idle" /\ cache[k].data = NoData
      BY <3>1
    <3>3. Asked(cache[k]) /\ \A v : ~doubt'[k] => Current(cache[k], v)
      BY <2>3, <3>2 DEF FollowsAt, Current
    <3>. QED BY <1>1, <1>2, <2>1, <3>2, <3>3
  <2>5. CASE k # "cart"
    <3>1. doubt'[k] = doubt[k]
      BY <2>2, <2>5 DEF SomeoneElse, VisitTypes
    <3>2. Truth(k, Owner(known))' = saved /\ Truth(k, Owner(known)) = saved
      BY <2>2, <2>5 DEF Truth
    <3>3. Unheard(k)' <=> Unheard(k)
      BY <2>2, LeftIs DEF Unheard, Types
    <3>4. Asked(cache[k]) /\ (~doubt'[k] /\ ~Unheard(k)' => Current(cache[k], Truth(k, Owner(known))'))
      BY <2>3, <3>1, <3>2, <3>3 DEF FollowsAt
    <3>. QED BY <1>1, <1>2, <2>1, <2>5, <3>4
  <2>. QED BY <2>4, <2>5
<1>5. CASE Load \/ PayElsewhere
  <2> DEFINE c == [j \in Keys |-> Empty]
  <2>1. PICK q \in AllPages : Open(q, FALSE, c) /\ known' = FALSE
    <3>1. page \in AllPages /\ "orders" \in AllPages
      BY DEF PageTypes, AllPages
    <3>. QED BY <1>5, <3>1 DEF Load, PayElsewhere
  <2>2. c[k] = Empty
    OBVIOUS
  <2>3. Asked(c[k]) /\ (\A v : Current(c[k], v)) /\ \A j \in Keys : c[j] \in Entry(Data(j))
    BY EmptyEntry
  <2>4. c[k].fetch = "idle"
    BY <2>2 DEF Empty
  <2> HIDE DEF c
  <2>. QED BY <1>2, <2>1, <2>3, <2>4
<1>. QED BY <1>3, <1>4, <1>5 DEF Elsewhere

LEMMA LoadingFollows ==
  ASSUME Types, CacheFollows, NEW j \in Keys, Loading(j)
  PROVE  CacheFollows'
<1> SUFFICES ASSUME NEW k \in Keys PROVE FollowsAt(k)'
  BY DEF CacheFollows
<1>1. UNCHANGED <<service, known>>
  BY DEF Loading, Answer, Arrive, LoadFails, Age
<1>2. Owner(known)' = Owner(known) /\ Truth(k, Owner(known))' = Truth(k, Owner(known))
  BY <1>1 DEF Owner, Truth, service
<1>3. Unheard(k)' <=> Unheard(k)
  <2>1. \A s \in Slots :
          \/ calls'[s] = calls[s]
          \/ calls[s] # NoCall /\ calls[s].st = "settling" /\ calls'[s] = NoCall
    <3>1. CASE UNCHANGED calls
      BY <3>1
    <3>2. CASE calls' = Freed(j, calls)
      BY <3>2, FreedIs DEF Types
    <3>. QED BY <3>1, <3>2 DEF Loading, Answer, Arrive, LoadFails, Age
  <2>. QED BY <2>1 DEF Unheard
<1>4. FollowsAt(k) /\ doubt \in [Keys -> BOOLEAN]
  BY DEF CacheFollows, Types, VisitTypes
<1>5. CASE k # j
  <2>1. cache'[k] = cache[k]
    BY <1>5, LoadingIs
  <2>2. doubt'[k] = doubt[k]
    BY <1>4, <1>5 DEF Loading, Answer, Arrive, LoadFails, Age
  <2>3. k = "cart" => readFor' = readFor
    BY <1>5 DEF Loading, Answer, Arrive, LoadFails, Age
  <2>. QED BY <1>2, <1>3, <1>4, <2>1, <2>2, <2>3 DEF FollowsAt, Asked, Current
<1>6. CASE k = j /\ Answer(j)
  <2> DEFINE o == IF k = "cart" THEN readFor ELSE "buyer"
  <2>1. /\ Asked(cache'[k]) /\ cache'[k].fetch = "read"
        /\ Current(cache'[k], Truth(k, o))
    <3>1. Asked(cache[k])
      BY <1>4 DEF FollowsAt
    <3>. QED BY <1>6, <3>1, LoadingIs
  <2>2. doubt'[k] = (doubt[k] /\ k = "cart" /\ o # Owner(known)) /\ cache[k].fetch = "sent"
    BY <1>4, <1>6 DEF Answer
  <2> HIDE DEF o
  <2>3. ASSUME ~doubt'[k], k = "cart" PROVE o = Owner(known)
    BY <1>4, <2>2, <2>3 DEF FollowsAt, o
  <2>4. ~doubt'[k] => Truth(k, o) = Truth(k, Owner(known))
    <3>1. k # "cart" => Truth(k, o) = Truth(k, Owner(known))
      BY DEF Truth
    <3>. QED BY <2>3, <3>1
  <2>5. ~doubt'[k] => Current(cache'[k], Truth(k, Owner(known)))
    BY <2>1, <2>4
  <2>. QED BY <1>2, <2>1, <2>5 DEF FollowsAt, Asked, Current
<1>7. CASE k = j /\ ~Answer(j)
  <2>1. /\ Asked(cache[k]) => Asked(cache'[k])
        /\ \A v : Current(cache[k], v) => Current(cache'[k], v)
        /\ cache'[k].fetch = "sent" => cache[k].fetch = "sent" /\ readFor' = readFor
    BY <1>7, LoadingIs
  <2>2. UNCHANGED doubt
    BY <1>7 DEF Loading, Arrive, LoadFails, Age
  <2>3. Asked(cache'[k])
    BY <1>4, <2>1 DEF FollowsAt
  <2>4. ~doubt[k] /\ ~Unheard(k) => Current(cache'[k], Truth(k, Owner(known)))
    BY <1>4, <2>1 DEF FollowsAt
  <2>5. ~doubt[k] /\ k = "cart" /\ cache'[k].fetch = "sent" => readFor' = Owner(known)
    BY <1>4, <2>1 DEF FollowsAt
  <2>. QED BY <1>2, <1>3, <2>2, <2>3, <2>4, <2>5 DEF FollowsAt, Asked, Current
<1>. QED BY <1>5, <1>6, <1>7

(* one call goes on to c, and is heard of or not *)
LEMMA UnheardThen ==
  ASSUME Types, NEW s \in Slots, NEW c, calls' = [calls EXCEPT ![s] = c], NEW k \in Keys,
         ~Unheard(k)'
  PROVE  /\ c # NoCall /\ c.st = "done" /\ c.op # "intent" => k \notin Key(c.op)
         /\ (calls[s] # NoCall /\ calls[s].st = "done" /\ calls[s].op # "intent" => k \notin Key(calls[s].op))
              => ~Unheard(k)
BY CallIsThen DEF Unheard

LEMMA CallsFollow ==
  ASSUME Types, CacheFollows,
         Sends \/ Pay \/ ChangeElsewhere \/ \E v \in Variants : LocalLine(v)
  PROVE  CacheFollows'
<1> SUFFICES ASSUME NEW k \in Keys PROVE FollowsAt(k)'
  BY DEF CacheFollows
<1>1. FollowsAt(k)
  BY DEF CacheFollows
<1>2. UNCHANGED <<known, cache, readFor>>
  BY DEF Sends, Pay, ChangeElsewhere, LocalLine
<1>3. Owner(known)' = Owner(known) /\ Owner(known) \in Owners
  BY <1>2, OwnerIs DEF Owner, Types, VisitTypes
<1>4. doubt[k] => doubt'[k]
  BY ElsewhereChanges DEF Sends, Pay, ChangeElsewhere, LocalLine
<1>5. ~doubt'[k] => Truth(k, Owner(known))' = Truth(k, Owner(known))
  <2>1. CASE ChangeElsewhere
    <3>1. \A o \in Owners : ~doubt'[k] => Truth(k, o)' = Truth(k, o)
      BY <2>1, ElsewhereChanges
    <3>2. UNCHANGED known
      BY <1>2
    <3>. QED BY <1>3, <3>1, <3>2 DEF Truth, Owner
  <2>2. CASE UNCHANGED <<lines, saved>>
    BY <1>3, <2>2 DEF Truth
  <2>. QED BY <2>1, <2>2 DEF Sends, Pay, LocalLine, service
<1>6. ~Unheard(k)' => ~Unheard(k)
  <2>1. CASE UNCHANGED calls
    BY <2>1 DEF Unheard
  <2>2. CASE \E s \in Slots : calls[s] = NoCall /\ \A t \in Slots \ {s} : calls'[t] = calls[t]
    BY <2>2 DEF Unheard
  <2>3. CASE Sends
    <3>1. PICK c : Using(c)
      BY <2>3 DEF Sends
    <3>. QED BY <2>2, <3>1, CallIsThen DEF Using
  <2>4. CASE Pay
    BY <2>2, <2>4, PayTypes
  <2>. QED BY <2>1, <2>3, <2>4 DEF ChangeElsewhere, LocalLine
<1>. QED BY <1>1, <1>2, <1>4, <1>5, <1>6, EntryStays

LEMMA AcceptsKeeps ==
  ASSUME NEW c, Accepts(c), NEW k \in Keys, NEW o, c.op = "intent" \/ k \notin Key(c.op)
  PROVE  Truth(k, o)' = Truth(k, o)
<1>1. CASE c.op \in {"save", "unsave"}
  BY <1>1 DEF Accepts, Key, Keys, Truth
<1>2. CASE c.op \in {"add", "set", "delete", "place", "clear"}
  <2>1. k # "cart" /\ UNCHANGED saved
    BY <1>2 DEF Accepts, Key
  <2>. QED BY <2>1 DEF Truth
<1>3. CASE c.op = "intent"
  BY <1>3 DEF Accepts, service, Truth
<1>. QED BY <1>1, <1>2, <1>3 DEF Accepts

LEMMA HandledFollows ==
  ASSUME Types, CacheFollows, NEW s \in Slots, Handled(s)
  PROVE  CacheFollows'
<1> SUFFICES ASSUME NEW k \in Keys PROVE FollowsAt(k)'
  BY DEF CacheFollows
<1> DEFINE c == calls[s]
           d == [c EXCEPT !.st = "done"]
<1>1. Fits(c) /\ Accepts(c) /\ c.st = "sent"
  BY HandledTypes DEF Handled
<1>2. d # NoCall /\ d.op = c.op /\ d.st = "done"
  <2>1. Fits(d)
    BY <1>1, CallGoesOn
  <2>. QED BY <1>1, <2>1, CallIs DEF Fits, Call
<1>3. calls' = [calls EXCEPT ![s] = d] /\ UNCHANGED <<known, cache, readFor, doubt>>
  BY DEF Handled
<1> HIDE DEF c, d
<1>4. ASSUME ~Unheard(k)'
      PROVE  ~Unheard(k) /\ Truth(k, Owner(known))' = Truth(k, Owner(known))
  <2>1. c.op = "intent" \/ k \notin Key(c.op)
    BY <1>2, <1>3, <1>4, UnheardThen
  <2>2. ~Unheard(k)
    BY <1>1, <1>3, <1>4, UnheardThen DEF c
  <2>3. Truth(k, Owner(known))' = Truth(k, Owner(known))
    <3>1. \A o : Truth(k, o)' = Truth(k, o)
      BY <1>1, <2>1, AcceptsKeeps
    <3>2. known' = known
      BY <1>3
    <3>. QED BY <3>1, <3>2 DEF Truth, Owner
  <2>. QED BY <2>2, <2>3
<1>5. FollowsAt(k)
  BY DEF CacheFollows
<1>. QED BY <1>3, <1>4, <1>5, EntryStays

LEMMA SucceededFollows ==
  ASSUME Types, CacheFollows, NEW s \in Slots, Succeeded(s)
  PROVE  CacheFollows'
<1> SUFFICES ASSUME NEW k \in Keys PROVE FollowsAt(k)'
  BY DEF CacheFollows
<1> DEFINE c == calls[s]
           ks == Key(c.op)
<1>1. /\ c # NoCall /\ Fits(c) /\ c.st = "done"
      /\ UNCHANGED <<service, session, known, page, local, reopened, interest>>
  BY SucceededIs
<1>2. FollowsAt(k) /\ ks \in SUBSET Keys
  BY KeyIs DEF CacheFollows
<1>3. Owner(known)' = Owner(known) /\ Truth(k, Owner(known))' = Truth(k, Owner(known))
  BY <1>1 DEF Owner, Truth, service
<1>4. ASSUME NEW r, calls' = [calls EXCEPT ![s] = r], c.op = "intent" \/ k \notin ks, ~Unheard(k)'
      PROVE  ~Unheard(k)
  BY <1>4, UnheardThen
<1>5. CASE c.op \in {"add", "set", "delete", "save", "unsave"}
  <2>1. PICK r : /\ r = NoCall \/ Fits(r)
                 /\ Invalidate(ks, s, r) /\ calls' = [calls EXCEPT ![s] = r]
    BY <1>5, SucceededIs
  <2>2. page' = page
    BY <1>1
  <2>3. /\ \A j \in Keys \ ks : cache'[j] = cache[j] /\ doubt'[j] = doubt[j]
        /\ "cart" \notin ks => readFor' = readFor
        /\ \A j \in ks : /\ Asked(cache'[j]) /\ (~doubt'[j] => ~doubt[j])
                         /\ \A v : ~doubt'[j] => Current(cache'[j], v)
        /\ "cart" \in ks /\ ~doubt'["cart"] /\ cache'["cart"].fetch = "sent" =>
             readFor' = Owner(known)
    BY <1>2, <2>1, <2>2, InvalidateIs
  <2> HIDE DEF ks
  <2>4. CASE k \in ks
    BY <1>3, <2>3, <2>4 DEF FollowsAt, Asked, Current
  <2>5. CASE k \notin ks
    <3>1. cache'[k] = cache[k] /\ doubt'[k] = doubt[k] /\ (k = "cart" => readFor' = readFor)
      BY <2>3, <2>5
    <3>2. ~Unheard(k)' => ~Unheard(k)
      BY <1>4, <2>1, <2>5
    <3>. QED BY <1>1, <1>2, <1>3, <3>1, <3>2, EntryStays
  <2>. QED BY <2>4, <2>5
<1>6. CASE c.op \in {"place", "intent"}
  <2>1. /\ UNCHANGED <<cache, readFor>>
        /\ c.op = "intent" => UNCHANGED doubt
        /\ c.op = "place" => doubt' = [doubt EXCEPT !["cart"] = TRUE]
        /\ \E r : calls' = [calls EXCEPT ![s] = r]
    BY <1>6, SucceededIs
  <2>2. doubt \in [Keys -> BOOLEAN] /\ (c.op = "place" => ks = {"cart"})
    BY DEF Types, VisitTypes, Key
  <2>3. (doubt[k] => doubt'[k]) /\ (c.op = "place" /\ k = "cart" => doubt'[k])
    BY <1>6, <2>1, <2>2
  <2> HIDE DEF ks
  <2>4. ~doubt'[k] /\ ~Unheard(k)' => ~Unheard(k)
    BY <1>4, <1>6, <2>1, <2>2, <2>3
  <2>. QED BY <1>1, <1>2, <1>3, <2>1, <2>3, <2>4, EntryStays
<1>. QED BY <1>5, <1>6, SucceededIs

LEMMA FailedFollows ==
  ASSUME Types, CacheFollows, NEW s \in Slots, Failed(s)
  PROVE  CacheFollows'
<1> SUFFICES ASSUME NEW k \in Keys PROVE FollowsAt(k)'
  BY DEF CacheFollows
<1>1. UNCHANGED <<service, known, cache, readFor>> /\ FollowsAt(k)
  BY DEF Failed, CacheFollows
<1>2. doubt'[k] = (doubt[k] \/ (calls[s].st = "done" /\ k \in Key(calls[s].op)))
  BY DEF Failed
<1>3. ~doubt'[k] /\ ~Unheard(k)' => ~Unheard(k)
  <2>1. calls' = [calls EXCEPT ![s] = NoCall]
    BY DEF Failed
  <2>. QED BY <1>2, <2>1, UnheardThen
<1>4. Truth(k, Owner(known))' = Truth(k, Owner(known))
  BY <1>1 DEF Owner, Truth, service
<1>. QED BY <1>1, <1>2, <1>3, <1>4, EntryStays

LEMMA ClearEndsFollows ==
  ASSUME Types, CacheFollows, NEW s \in Slots, ClearEnds(s)
  PROVE  CacheFollows'
<1> SUFFICES ASSUME NEW k \in Keys PROVE FollowsAt(k)'
  BY DEF CacheFollows
<1>1. /\ Cleared(s) /\ calls[s] # NoCall /\ calls[s].op = "clear"
      /\ UNCHANGED <<service, known>> /\ calls' = [Left EXCEPT ![s] = NoCall]
  BY DEF ClearEnds, Cleared
<1>2. FollowsAt(k) /\ cache[k] \in Entry(Data(k))
  BY DEF CacheFollows, Types, PageTypes
<1>3. Owner(known)' = Owner(known) /\ Truth(k, Owner(known))' = Truth(k, Owner(known))
  BY <1>1 DEF Owner, Truth, service
<1>4. CASE k = "cart"
  <2>1. /\ Asked(cache'["cart"])
        /\ \A v : ~doubt'["cart"] => Current(cache'["cart"], v)
        /\ cache'["cart"].fetch = "sent" => readFor' = Owner(known)
    BY <1>1, ClearedIs
  <2>. QED BY <1>3, <1>4, <2>1 DEF FollowsAt, Asked, Current
<1>5. CASE k # "cart"
  <2>1. cache'[k] \in {cache[k], Observed(cache[k])} /\ doubt'[k] = doubt[k]
    BY <1>1, <1>5, ClearedIs
  <2>2. /\ Asked(cache[k]) => Asked(cache'[k])
        /\ \A v : Current(cache[k], v) => Current(cache'[k], v)
    BY <1>2, <2>1, ObservedEntry
  <2>3. ~Unheard(k)' => ~Unheard(k)
    <3>1. \A t \in Slots \ {s} : calls'[t] = Left[t]
      BY <1>1 DEF Left
    <3>2. k \notin Key(calls[s].op)
      BY <1>1, <1>5 DEF Key
    <3>. QED BY <3>1, <3>2, LeftIs DEF Unheard, Types
  <2>4. Asked(cache'[k]) /\ (~doubt'[k] /\ ~Unheard(k)' => Current(cache'[k], Truth(k, Owner(known))))
    BY <1>2, <2>1, <2>2, <2>3 DEF FollowsAt
  <2>. QED BY <1>3, <1>5, <2>4 DEF FollowsAt, Asked, Current
<1>. QED BY <1>4, <1>5

LEMMA NextFollows == Types /\ CacheFollows /\ [ShopNext]_shopVars => CacheFollows'
<1> SUFFICES ASSUME Types, CacheFollows, [ShopNext]_shopVars PROVE CacheFollows'
  OBVIOUS
<1>1. CASE UNCHANGED shopVars
  BY <1>1 DEF shopVars, service, CacheFollows, FollowsAt, Asked, Current, Unheard, Truth, Owner
<1>2. CASE ShopNext
  BY <1>2, NextIs, ElsewhereFollows, LoadingFollows, CallsFollow, HandledFollows, SucceededFollows,
     FailedFollows, ClearEndsFollows
<1>. QED BY <1>1, <1>2

(* What cart, wishlist and product page show as fresh is what the service   *)
(* has for the visitor, once every change accepted has been answered and    *)
(* with no doubt: for any number of variants and of calls that overlap.     *)
THEOREM FreshIsWhatTheServiceHas == ShopSpec => []FreshIsTrue
<1>1. CacheFollows => FreshIsTrue
  <2> SUFFICES ASSUME CacheFollows, NEW k \in Keys, Settled(k), ~cache[k].stale,
                      cache[k].data # NoData
               PROVE  cache[k].data = Truth(k, Owner(known))
    BY DEF FreshIsTrue
  <2>1. FollowsAt(k)
    BY DEF CacheFollows
  <2>2. ~doubt[k] /\ ~Unheard(k)
    BY DEF Settled, Unheard
  <2>. QED BY <2>1, <2>2 DEF FollowsAt, Current
<1>. QED BY <1>1, InitFollows, NextFollows, Typed, PTL DEF ShopSpec
=============================================================================
