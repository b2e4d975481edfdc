------------------------------ MODULE PagesProofs ------------------------------
(***************************************************************************)
(* What the pages show as fresh is what the service has, for any number of *)
(* sub-orders, notifications, kinds of e-mail, products and calls.         *)
(*                                                                         *)
(* First what any page may rely on of the query cache, whatever it loads   *)
(* and whatever the service answers: one lemma for each step of Loading.   *)
(* K is the set of the page's keys, D[k] the values k may have, T[k] what  *)
(* the service would answer to k now, and P the keys of which a change was *)
(* made that the page is still to hear of.  An entry the page was told the *)
(* last change of follows the service: what it shows as fresh is what the  *)
(* service has, and so is an answer on its way to it.                      *)
(*                                                                         *)
(* Of each page the invariant is then the same: every entry it was told    *)
(* the last change of follows the service.  What differs is what the page  *)
(* is still to hear of: a message on its way, a call answered.             *)
(***************************************************************************)
EXTENDS Desks, FiniteSetTheorems, TLAPS

(* the data of an entry that is shown as fresh, and that of an answer that  *)
(* will make it so                                                          *)
Current(e, value) ==
  /\ e.fetch = "read" => e.got = value
  /\ e.data # NoData /\ ~e.stale => e.data = value

Loads(K, D) ==
  /\ entry = [k \in K |-> entry[k]] /\ untold = [k \in K |-> untold[k]]
  /\ \A k \in K : entry[k] \in Entry(D[k]) /\ untold[k] \in BOOLEAN

Follows(K, D, T, P) ==
  /\ Loads(K, D)
  /\ \A k \in K \ P : ~untold[k] => Current(entry[k], T[k])

-----------------------------------------------------------------------------
(* Of one entry                                                            *)

LEMMA ObservedFollows ==
  ASSUME NEW d, NEW e \in Entry(d), NEW v
  PROVE  Observed(e) \in Entry(d) /\ (Current(e, v) => Current(Observed(e), v))
BY DEF Observed, Current, Entry

LEMMA ReadFollows ==
  ASSUME NEW d, NEW e \in Entry(d), NEW v \in d, NEW w
  PROVE  /\ ReadAs(e, v) \in Entry(d)
         /\ Current(e, v) \/ e.stale => Current(ReadAs(e, v), v)
BY DEF ReadAs, Current, Entry

LEMMA LoadedFollows ==
  ASSUME NEW d, NEW e \in Entry(d), NEW v, e.fetch = "read"
  PROVE  Loaded(e) \in Entry(d) /\ (Current(e, v) => Current(Loaded(e), v))
BY DEF Loaded, Current, Entry

LEMMA FailedFollows ==
  ASSUME NEW d, NEW e \in Entry(d), NEW v
  PROVE  LoadFailed(e) \in Entry(d) /\ (Current(e, v) => Current(LoadFailed(e), v))
BY DEF LoadFailed, Current, Entry

LEMMA AgedFollows ==
  ASSUME NEW d, NEW e \in Entry(d), NEW v
  PROVE  Aged(e) \in Entry(d) /\ (Current(e, v) => Current(Aged(e), v))
BY DEF Aged, Current, Entry

(* an entry that is invalidated shows nothing as fresh, and nothing older   *)
(* than the change is on its way to it unless it keeps its request          *)
LEMMA InvalidatedFollows ==
  ASSUME NEW d, NEW e \in Entry(d), NEW v, NEW seen \in BOOLEAN
  PROVE  /\ Invalidated(e, seen) \in Entry(d)
         /\ ~KeepsOld(e, seen) \/ Current(e, v) => Current(Invalidated(e, seen), v)
BY DEF Invalidated, KeepsOld, Restarts, Current, Entry

-----------------------------------------------------------------------------
(* Of the page                                                             *)

LEMMA InitFollows ==
  ASSUME NEW K, NEW D, NEW T, NEW P, NEW seen, LoadingInit(K, seen)
  PROVE  Follows(K, D, T, P)
<1>1. ASSUME NEW d PROVE Empty \in Entry(d)
  BY DEF Empty, Entry
<1>2. ASSUME NEW v PROVE Current(Empty, v)
  BY DEF Empty, Current
<1> HIDE DEF Empty
<1>3. ASSUME NEW k \in K
      PROVE  entry[k] \in {Empty, Observed(Empty)} /\ untold[k] = FALSE
  BY DEF LoadingInit
<1>4. entry = [k \in K |-> entry[k]] /\ untold = [k \in K |-> untold[k]]
  BY DEF LoadingInit
<1>5. ASSUME NEW k \in K
      PROVE  entry[k] \in Entry(D[k]) /\ Current(entry[k], T[k])
  <2>1. Empty \in Entry(D[k]) /\ Current(Empty, T[k])
    BY <1>1, <1>2
  <2>2. Observed(Empty) \in Entry(D[k]) /\ Current(Observed(Empty), T[k])
    BY ONLY <2>1, ObservedFollows
  <2>. QED BY ONLY <1>3, <2>1, <2>2
<1>. QED BY <1>3, <1>4, <1>5 DEF Follows, Loads

(* one entry goes to e, and is no longer pending: the others are as they were *)
LEMMA EntryFollows ==
  ASSUME NEW K, NEW D, NEW T, NEW P, Follows(K, D, T, P), NEW k \in K,
         NEW e \in Entry(D[k]), NEW u \in BOOLEAN,
         entry' = [entry EXCEPT ![k] = e], untold' = [untold EXCEPT ![k] = u],
         NEW Q, P \subseteq Q \cup {k}, k \notin Q /\ ~u => Current(e, T[k])
  PROVE  Follows(K, D, T, Q)'
<1>1. /\ entry'[k] = e /\ untold'[k] = u
      /\ \A j \in K \ {k} : entry'[j] = entry[j] /\ untold'[j] = untold[j]
      /\ entry' = [j \in K |-> entry'[j]] /\ untold' = [j \in K |-> untold'[j]]
  BY DEF Follows, Loads
<1>2. Loads(K, D)'
  BY <1>1 DEF Follows, Loads
<1>3. ASSUME NEW j \in K \ Q, ~untold'[j]
      PROVE  Current(entry'[j], T[j])
  BY <1>1, <1>3 DEF Follows
<1>. QED BY <1>2, <1>3 DEF Follows

LEMMA AnswerFollows ==
  ASSUME NEW K, NEW D, NEW T, NEW P, Follows(K, D, T, P), NEW k \in K,
         NEW v \in D[k], v = T[k], Answer(k, v)
  PROVE  Follows(K, D, T, P)'
<1>1. entry[k] \in Entry(D[k]) /\ untold[k] \in BOOLEAN /\ entry[k].stale \in BOOLEAN
  BY DEF Follows, Loads, Entry
<1>2. k \notin P /\ ~untold[k] => Current(entry[k], T[k])
  BY DEF Follows
<1> DEFINE e == ReadAs(entry[k], v)
           u == untold[k] /\ ~entry[k].stale
<1>3. e \in Entry(D[k]) /\ (Current(entry[k], v) \/ entry[k].stale => Current(e, v))
  BY <1>1, ReadFollows
<1>4. entry' = [entry EXCEPT ![k] = e] /\ untold' = [untold EXCEPT ![k] = u]
  BY DEF Answer
<1>5. u \in BOOLEAN
  OBVIOUS
<1>6. k \notin P /\ ~u => Current(e, T[k])
  BY <1>1, <1>2, <1>3
<1> HIDE DEF e, u
<1>. QED BY <1>3, <1>4, <1>5, <1>6, EntryFollows

(* a step of one entry that leaves what the page was told *)
LEMMA StepFollows ==
  ASSUME NEW K, NEW D, NEW T, NEW P, Follows(K, D, T, P), NEW k \in K,
         NEW e \in Entry(D[k]), \A v : Current(entry[k], v) => Current(e, v),
         entry' = [entry EXCEPT ![k] = e], UNCHANGED untold
  PROVE  Follows(K, D, T, P)'
<1>1. untold' = [untold EXCEPT ![k] = untold[k]] /\ untold[k] \in BOOLEAN
  BY DEF Follows, Loads
<1>2. k \notin P /\ ~untold[k] => Current(e, T[k])
  BY DEF Follows
<1>. QED BY <1>1, <1>2, EntryFollows

LEMMA EndsFollows ==
  ASSUME NEW K, NEW D, NEW T, NEW P, Follows(K, D, T, P), NEW k \in K, Ends(k)
  PROVE  Follows(K, D, T, P)'
<1>1. entry[k] \in Entry(D[k])
  BY DEF Follows, Loads
<1>2. CASE entry[k].fetch = "read" /\ entry' = [entry EXCEPT ![k] = Loaded(@)]
  <2>1. /\ Loaded(entry[k]) \in Entry(D[k])
        /\ \A v : Current(entry[k], v) => Current(Loaded(entry[k]), v)
    BY <1>1, <1>2, LoadedFollows
  <2>. QED BY <1>2, <2>1, StepFollows DEF Ends
<1>3. CASE entry' = [entry EXCEPT ![k] = LoadFailed(@)]
  <2>1. /\ LoadFailed(entry[k]) \in Entry(D[k])
        /\ \A v : Current(entry[k], v) => Current(LoadFailed(entry[k]), v)
    BY <1>1, FailedFollows
  <2>. QED BY <1>3, <2>1, StepFollows DEF Ends
<1>. QED BY <1>2, <1>3 DEF Ends

LEMMA AgeFollows ==
  ASSUME NEW K, NEW D, NEW T, NEW P, Follows(K, D, T, P), NEW k \in K, Age(k)
  PROVE  Follows(K, D, T, P)'
<1>1. /\ Aged(entry[k]) \in Entry(D[k])
      /\ \A v : Current(entry[k], v) => Current(Aged(entry[k]), v)
  BY AgedFollows DEF Follows, Loads
<1>. QED BY <1>1, StepFollows DEF Age

(* the page hears of the changes of ks: they are no longer pending *)
LEMMA InvalidateFollows ==
  ASSUME NEW K, NEW D, NEW T, NEW P, Follows(K, D, T, P),
         NEW ks, NEW seen, Invalidate(ks, seen), NEW Q, P \subseteq Q \cup ks
  PROVE  Follows(K, D, T, Q)'
<1>1. /\ DOMAIN entry = K
      /\ \A k \in K : entry[k] \in Entry(D[k]) /\ untold[k] \in BOOLEAN
  BY DEF Follows, Loads
<1> DEFINE old(k) == KeepsOld(entry[k], k \in seen)
           new(k) == Invalidated(entry[k], k \in seen)
<1>2. ASSUME NEW k \in K
      PROVE  new(k) \in Entry(D[k]) /\ (~old(k) \/ Current(entry[k], T[k]) => Current(new(k), T[k]))
  <2>1. (k \in seen) \in BOOLEAN
    OBVIOUS
  <2>. QED BY <1>1, <2>1, InvalidatedFollows
<1>3. /\ entry' = [k \in K |-> IF k \in ks THEN new(k) ELSE entry[k]]
      /\ untold' = [k \in K |-> untold[k] \/ (k \in ks /\ old(k))]
  BY <1>1 DEF Invalidate
<1> HIDE DEF old, new
<1>4. Loads(K, D)'
  <2>1. entry' = [k \in K |-> entry'[k]] /\ untold' = [k \in K |-> untold'[k]]
    BY <1>3
  <2>2. ASSUME NEW k \in K PROVE entry'[k] \in Entry(D[k]) /\ untold'[k] \in BOOLEAN
    BY <1>1, <1>2, <1>3
  <2>. QED BY <2>1, <2>2 DEF Loads
<1>5. ASSUME NEW k \in K \ Q, ~untold'[k]
      PROVE  Current(entry'[k], T[k])
  <2>1. ~untold[k] /\ ~(k \in ks /\ old(k))
    BY <1>1, <1>3, <1>5
  <2>2. k \notin P => Current(entry[k], T[k])
    BY <2>1 DEF Follows
  <2>. QED BY <1>2, <1>3, <2>1, <2>2
<1>. QED BY <1>4, <1>5 DEF Follows

(* the service changes, or a page that shows an entry mounts or gets focus: *)
(* of a key whose answer is another one the page is never told, or still to *)
(* hear                                                                     *)
LEMMA MovesFollows ==
  ASSUME NEW K, NEW D, NEW T, NEW P, Follows(K, D, T, P),
         NEW ks, Changed(ks) \/ (ks = {} /\ UNCHANGED untold),
         UNCHANGED entry \/ \E k \in K : Shows(k),
         NEW S, NEW Q, \A k \in K \ (Q \cup ks) : k \notin P /\ S[k] = T[k]
  PROVE  Follows(K, D, S, Q)'
<1>1. /\ untold' = [k \in K |-> untold'[k]]
      /\ \A k \in K : untold'[k] = (untold[k] \/ k \in ks) /\ untold[k] \in BOOLEAN
  BY DEF Follows, Loads, Changed
<1>2. entry' = [k \in K |-> entry'[k]]
  BY DEF Follows, Loads, Shows
<1>3. ASSUME NEW k \in K
      PROVE  /\ entry'[k] \in Entry(D[k])
             /\ \A v : Current(entry[k], v) => Current(entry'[k], v)
  <2>1. entry[k] \in Entry(D[k]) /\ entry'[k] \in {entry[k], Observed(entry[k])}
    BY DEF Follows, Loads, Shows
  <2>. QED BY <2>1, ObservedFollows
<1>4. Loads(K, D)'
  BY <1>1, <1>2, <1>3 DEF Loads
<1>5. ASSUME NEW k \in K \ Q, ~untold'[k]
      PROVE  Current(entry'[k], S[k])
  <2>1. k \notin ks /\ ~untold[k]
    BY <1>1, <1>5
  <2>. QED BY <1>3, <2>1 DEF Follows
<1>. QED BY <1>4, <1>5 DEF Follows

(* what is shown as fresh *)
LEMMA FreshFollows ==
  ASSUME NEW K, NEW D, NEW T, NEW P, Follows(K, D, T, P), NEW k \in K \ P,
         Fresh(k), ~untold[k]
  PROVE  entry[k].data = T[k]
BY DEF Follows, Current, Fresh, Has

-----------------------------------------------------------------------------
(* Of a list that its page has a flag for: what may show what was before a *)
(* change.  G holds the values that show what matters to the page as it is *)

Tells(e, u, lag, G) ==
  /\ ~lag /\ e.data # NoData => e.data \in G
  /\ ~(lag /\ u) /\ e.fetch = "read" => e.got \in G
  /\ ~u /\ e.data # NoData /\ ~e.stale => e.data \in G

LEMMA EntryIs ==
  ASSUME NEW K, NEW D, Loads(K, D), NEW k \in K
  PROVE  /\ DOMAIN entry = K /\ entry[k] \in Entry(D[k]) /\ untold[k] \in BOOLEAN
         /\ \A e : entry' = [entry EXCEPT ![k] = e] => entry'[k] = e
         /\ \A u : untold' = [untold EXCEPT ![k] = u] => untold'[k] = u
BY DEF Loads

(* whatever the answers say *)
LEMMA LoadsFollow ==
  ASSUME NEW K, NEW D, NEW T
  PROVE  Follows(K, D, T, K) <=> Loads(K, D)
BY DEF Follows

(* the flag goes down when what is loaded will count as fresh, and the page *)
(* was told of the last change                                              *)
LEMMA LoadTells ==
  ASSUME NEW K, NEW D, Loads(K, D), NEW k \in K, NEW v \in D[k], NEW G, v \in G,
         NEW lag \in BOOLEAN, NEW now,
         \/ (Answer(k, v) \/ Age(k) \/ Focus(k)) /\ now = lag
         \/ Ends(k) /\ now = (lag /\ (entry'[k].stale \/ untold[k]))
  PROVE  /\ now \in BOOLEAN /\ Loads(K, D)'
         /\ Tells(entry[k], untold[k], lag, G) => Tells(entry'[k], untold'[k], now, G)
<1> DEFINE e == entry[k]
           u == untold[k]
           T == [j \in K |-> v]
<1>1. Follows(K, D, T, K) /\ T[k] = v
  BY LoadsFollow
<1> HIDE DEF T
<1>2. e \in Entry(D[k]) /\ u \in BOOLEAN
  BY EntryIs
<1>3. CASE Answer(k, v) /\ now = lag
  <2>1. Follows(K, D, T, K)'
    BY <1>1, <1>3, AnswerFollows
  <2>2. entry'[k] = ReadAs(e, v) /\ untold'[k] = (u /\ ~e.stale)
    BY <1>3, EntryIs DEF Answer
  <2>3. ReadAs(e, v).data = e.data /\ ReadAs(e, v).stale = e.stale /\ ReadAs(e, v).got = v
    BY <1>2 DEF ReadAs, Entry
  <2>. QED BY <1>2, <1>3, <2>1, <2>2, <2>3 DEF Follows, Tells, Entry
<1>4. CASE Age(k) /\ now = lag
  <2>1. Follows(K, D, T, K)'
    BY <1>1, <1>4, AgeFollows
  <2>2. entry'[k] = Aged(e) /\ untold'[k] = u
    BY <1>4, EntryIs DEF Age
  <2>3. /\ Aged(e).data = e.data /\ Aged(e).stale = TRUE
        /\ Aged(e).got = e.got /\ Aged(e).fetch = e.fetch
    BY <1>2 DEF Aged, Entry
  <2>. QED BY <1>4, <2>1, <2>2, <2>3 DEF Follows, Tells
<1>5. CASE Focus(k) /\ now = lag
  <2>1. Shows(k) /\ UNCHANGED untold /\ {} = {}
    BY <1>5 DEF Focus
  <2>2. Follows(K, D, T, K)'
    BY <1>1, <2>1, MovesFollows
  <2>3. entry'[k] = Observed(e) /\ untold'[k] = u
    BY <2>1, EntryIs DEF Shows
  <2>4. /\ Observed(e).data = e.data /\ Observed(e).stale = e.stale
        /\ Observed(e).fetch = "read" => Observed(e).got = e.got /\ e.fetch = "read"
    BY <1>2 DEF Observed, Entry
  <2>. QED BY <1>5, <2>2, <2>3, <2>4 DEF Follows, Tells
<1>6. CASE Ends(k) /\ now = (lag /\ (entry'[k].stale \/ untold[k]))
  <2>1. Follows(K, D, T, K)'
    BY <1>1, <1>6, EndsFollows
  <2>2. untold'[k] = u /\ ((e.fetch = "read" /\ entry'[k] = Loaded(e)) \/ entry'[k] = LoadFailed(e))
    BY <1>6, EntryIs DEF Ends
  <2>3. \/ /\ entry'[k].data = e.data /\ entry'[k].stale = e.stale /\ entry'[k].fetch = "idle"
        \/ /\ e.fetch = "read" /\ entry'[k].data = e.got /\ entry'[k].stale = FALSE
           /\ entry'[k].fetch = "idle"
    <3>1. CASE e.fetch = "read" /\ entry'[k] = Loaded(e)
      BY <3>1 DEF Loaded
    <3>2. CASE entry'[k] = LoadFailed(e)
      BY <1>2, <3>2 DEF LoadFailed, Entry
    <3>. QED BY <2>2, <3>1, <3>2
  <2>4. ~now => ~lag \/ (~entry'[k].stale /\ ~u)
    BY <1>6
  <2> HIDE DEF e, u
  <2>5. Tells(e, u, lag, G) => Tells(entry'[k], untold'[k], now, G)
    <3>1. now => lag
      BY <1>6
    <3>. QED BY <1>2, <2>2, <2>3, <2>4, <3>1 DEF Tells
  <2>6. now \in BOOLEAN
    BY <1>6
  <2>. QED BY <2>1, <2>5, <2>6 DEF Follows, e, u
<1>. QED BY <1>3, <1>4, <1>5, <1>6

(* the page hears of a change: what it shows counts as old until it is      *)
(* loaded again                                                             *)
LEMMA InvalidateTells ==
  ASSUME NEW K, NEW D, Loads(K, D), NEW k \in K, NEW G, Invalidate({k}, {k}), NEW now,
         now \/ Tells(entry[k], untold[k], now, G)
  PROVE  Loads(K, D)' /\ Tells(entry'[k], untold'[k], now, G)
<1> DEFINE e == entry[k]
           u == untold[k]
           old == KeepsOld(e, TRUE)
           new == Invalidated(e, TRUE)
           T == [j \in K |-> {}]
<1>1. Loads(K, D)'
  <2>1. Follows(K, D, T, K)
    BY LoadsFollow
  <2> HIDE DEF T
  <2>2. Follows(K, D, T, K)'
    BY <2>1, InvalidateFollows
  <2>. QED BY <2>2 DEF Follows
<1>2. e \in Entry(D[k]) /\ u \in BOOLEAN /\ DOMAIN entry = K
  BY EntryIs
<1>3. entry'[k] = new /\ (untold'[k] <=> (u \/ old))
  <2>1. (k \in {k}) = TRUE
    OBVIOUS
  <2>. QED BY <1>2, <2>1 DEF Invalidate
<1>4. /\ new.data = e.data /\ new.stale = TRUE
      /\ new.fetch = "read" => e.fetch = "read" /\ old /\ new.got = e.got
  BY <1>2 DEF Invalidated, KeepsOld, Restarts, Entry
<1> HIDE DEF e, u, old, new
<1>5. Tells(entry'[k], untold'[k], now, G)
  <2>1. CASE now
    BY <1>3, <1>4, <2>1 DEF Tells
  <2>2. CASE ~now
    BY <1>3, <1>4, <2>2 DEF Tells, e, u
  <2>. QED BY <2>1, <2>2
<1>. QED BY <1>1, <1>5

(* nothing tells it, and perhaps it is mounted anew *)
LEMMA UnheardTells ==
  ASSUME NEW K, NEW D, Loads(K, D), NEW k \in K, NEW G, NEW now,
         Changed({k}) \/ UNCHANGED untold, UNCHANGED entry \/ Shows(k),
         (now /\ Changed({k})) \/ Tells(entry[k], untold[k], now, G)
  PROVE  Loads(K, D)' /\ Tells(entry'[k], untold'[k], now, G)
<1> DEFINE T == [j \in K |-> {}]
           e == entry[k]
<1>1. Follows(K, D, T, K)
  BY LoadsFollow
<1> HIDE DEF T
<1>2. Follows(K, D, T, K)'
  <2>1. CASE Changed({k})
    BY <1>1, <2>1, MovesFollows
  <2>2. CASE UNCHANGED untold
    <3>1. \A j \in K \ (K \cup {}) : j \notin K /\ T[j] = T[j]
      OBVIOUS
    <3>. QED BY <1>1, <2>2, <3>1, MovesFollows
  <2>. QED BY <2>1, <2>2
<1>3. Changed({k}) => untold'[k] = TRUE
  BY EntryIs DEF Changed
<1>4. entry'[k] \in {e, Observed(e)} /\ e \in Entry(D[k])
  BY EntryIs DEF Shows
<1>5. /\ entry'[k].data = e.data /\ entry'[k].stale = e.stale
      /\ entry'[k].fetch = "read" => e.fetch = "read" /\ entry'[k].got = e.got
  BY <1>4 DEF Observed, Entry
<1>. QED BY <1>2, <1>3, <1>5 DEF Follows, Tells

-----------------------------------------------------------------------------
(* The order page, the list of orders, the supplier's rows                 *)

OrderDatas == [k \in OrderKeys |-> OrderData(k)]
OrderTruths == [k \in OrderKeys |-> OrderTruth(k)]

(* a message is on its way, or a button's call was answered *)
OrderPending == {k \in OrderKeys :
  (k = "order" /\ pushes # 0) \/ \E b \in Buttons : action[b] = "done" /\ k \in Refreshes(b)}

PageTypes ==
  /\ sub \in [Subs -> Status] /\ at \in OrderKeys
  /\ socket \in {"none", "ticket", "open"} /\ pushes \in Nat
  /\ action \in [Buttons -> {"idle", "sent", "done", "settling"}] /\ form \in BOOLEAN

PageInv == PageTypes /\ Follows(OrderKeys, OrderDatas, OrderTruths, OrderPending)

LEMMA OrderStatusType ==
  ASSUME NEW s \in [Subs -> Status]
  PROVE  OrderStatus(s) \in Status
BY DEF OrderStatus, Status

LEMMA OrderTruthType ==
  ASSUME PageTypes, NEW k \in OrderKeys
  PROVE  OrderTruth(k) \in OrderData(k) /\ OrderDatas[k] = OrderData(k) /\ OrderTruths[k] = OrderTruth(k)
<1>1. OrderStatus(sub) \in Status /\ sub[Mine] \in Status
  BY OrderStatusType, OrderPageAssumption DEF PageTypes
<1>2. OrderTruth(k) \in OrderData(k)
  BY <1>1 DEF OrderTruth, OrderData, PageTypes, OrderKeys
<1>. QED BY <1>2 DEF OrderDatas, OrderTruths

(* a step of the service, or of the page without a load *)
LEMMA OrderMoves ==
  ASSUME PageInv, PageTypes', NEW ks,
         Changed(ks) \/ (ks = {} /\ UNCHANGED untold),
         UNCHANGED entry \/ \E k \in OrderKeys : Shows(k),
         \A k \in OrderKeys \ ks : k \notin OrderPending' =>
           k \notin OrderPending /\ OrderTruth(k)' = OrderTruth(k)
  PROVE  PageInv'
<1>1. \A k \in OrderKeys \ (OrderPending' \cup ks) :
        k \notin OrderPending /\ OrderTruths'[k] = OrderTruths[k]
  BY DEF OrderTruths
<1>2. OrderDatas' = OrderDatas
  BY DEF OrderDatas, OrderData
<1>3. Follows(OrderKeys, OrderDatas, OrderTruths, OrderPending)'
  BY <1>1, <1>2, MovesFollows DEF PageInv
<1>. QED BY <1>3 DEF PageInv

LEMMA OrderNavigates ==
  ASSUME PageInv, OpenOrder \/ TokenRenewed \/ Joined \/ Disconnected \/ DispatchForm
  PROVE  PageInv'
<1>1. PageTypes'
  <2> USE DEF PageInv, PageTypes
  <2>1. CASE OpenOrder
    BY <2>1 DEF OpenOrder, OrderKeys
  <2>2. CASE TokenRenewed \/ Joined \/ Disconnected
    BY <2>2 DEF TokenRenewed, Joined, Disconnected
  <2>3. CASE DispatchForm
    BY <2>3 DEF DispatchForm
  <2>. QED BY <2>1, <2>2, <2>3
<1>2. /\ UNCHANGED <<sub, action>>
      /\ \/ pushes' = pushes /\ UNCHANGED untold
         \/ pushes' = 0 /\ Deaf
      /\ UNCHANGED entry \/ Shows(at')
  BY DEF OpenOrder, TokenRenewed, Joined, Disconnected, DispatchForm
<1>3. at' \in OrderKeys
  BY <1>1 DEF PageTypes
<1>4. \A k \in OrderKeys : OrderTruth(k)' = OrderTruth(k)
  BY <1>2 DEF OrderTruth
<1>5. CASE pushes' = pushes /\ UNCHANGED untold
  <2>1. OrderPending' = OrderPending
    BY <1>2, <1>5 DEF OrderPending
  <2>. QED BY <1>1, <1>2, <1>3, <1>4, <1>5, <2>1, OrderMoves
<1>6. CASE pushes' = 0 /\ Deaf
  <2> DEFINE ks == IF pushes > 0 THEN {"order"} ELSE {}
  <2>1. Changed(ks) \/ (ks = {} /\ UNCHANGED untold)
    BY <1>6 DEF Deaf
  <2>2. \A k \in OrderKeys \ ks : k \notin OrderPending' => k \notin OrderPending
    BY <1>2, <1>6 DEF OrderPending, PageInv, PageTypes
  <2> HIDE DEF ks
  <2>. QED BY <1>1, <1>2, <1>3, <1>4, <2>1, <2>2, OrderMoves
<1>. QED BY <1>2, <1>5, <1>6

LEMMA OrderLoadsStep ==
  ASSUME PageInv, NEW k \in OrderKeys, OrderLoads(k)
  PROVE  PageInv'
<1>1. PageTypes'
  BY DEF PageInv, PageTypes, OrderLoads, Settled
<1>2. UNCHANGED <<sub, pushes>> /\ \A b \in Buttons : action'[b] = "done" <=> action[b] = "done"
  BY DEF OrderLoads, Settled, PageInv, PageTypes
<1>3. OrderPending' = OrderPending
  BY <1>2 DEF OrderPending
<1>4. OrderTruths' = OrderTruths /\ OrderDatas' = OrderDatas
  BY <1>2 DEF OrderTruths, OrderTruth, OrderDatas, OrderData
<1>5. CASE Answer(k, OrderTruth(k))
  <2>1. OrderTruth(k) \in OrderDatas[k] /\ OrderTruth(k) = OrderTruths[k]
    BY OrderTruthType DEF PageInv
  <2>. QED BY <1>1, <1>3, <1>4, <1>5, <2>1, AnswerFollows DEF PageInv
<1>6. CASE Ends(k)
  BY <1>1, <1>3, <1>4, <1>6, EndsFollows DEF PageInv
<1>7. CASE Age(k)
  BY <1>1, <1>3, <1>4, <1>7, AgeFollows DEF PageInv
<1>8. CASE Focus(k)
  <2>1. Shows(k) /\ UNCHANGED untold
    BY <1>8 DEF Focus
  <2>. QED BY <1>1, <1>2, <1>3, <2>1, OrderMoves DEF OrderTruth
<1>. QED BY <1>5, <1>6, <1>7, <1>8 DEF OrderLoads

(* the page hears of a change: by a message, or by its own call's answer *)
LEMMA OrderHears ==
  ASSUME PageInv, PushArrives \/ \E b \in Buttons : ActionSucceeded(b)
  PROVE  PageInv'
<1> DEFINE seen == {at}
<1>1. PICK ks \in SUBSET OrderKeys :
        /\ Invalidate(ks, seen) /\ UNCHANGED sub /\ PageTypes'
        /\ OrderPending \subseteq OrderPending' \cup ks
  <2>1. CASE PushArrives
    <3>1. Invalidate({"order"}, seen) /\ UNCHANGED sub
      BY <2>1 DEF PushArrives
    <3>2. PageTypes'
      BY <2>1 DEF PushArrives, PageInv, PageTypes
    <3>3. OrderPending \subseteq OrderPending' \cup {"order"}
      BY <2>1 DEF PushArrives, OrderPending
    <3>. QED BY <3>1, <3>2, <3>3 DEF OrderKeys
  <2>2. ASSUME NEW b \in Buttons, ActionSucceeded(b)
        PROVE  /\ Invalidate(Refreshes(b), seen) /\ UNCHANGED sub
               /\ PageTypes' /\ OrderPending \subseteq OrderPending' \cup Refreshes(b)
    <3>1. Invalidate(Refreshes(b), seen) /\ UNCHANGED sub
      BY <2>2 DEF ActionSucceeded
    <3>2. PageTypes'
      BY <2>2 DEF ActionSucceeded, PageInv, PageTypes
    <3>3. OrderPending \subseteq OrderPending' \cup Refreshes(b)
      BY <2>2 DEF ActionSucceeded, OrderPending, PageInv, PageTypes
    <3>. QED BY <3>1, <3>2, <3>3
  <2>. QED BY <2>1, <2>2 DEF Refreshes, OrderKeys
<1> HIDE DEF seen
<1>2. OrderTruths' = OrderTruths /\ OrderDatas' = OrderDatas
  BY <1>1 DEF OrderTruths, OrderTruth, OrderDatas, OrderData
<1>3. Follows(OrderKeys, OrderDatas, OrderTruths, OrderPending)'
  BY <1>1, <1>2, InvalidateFollows DEF PageInv
<1>. QED BY <1>1, <1>3 DEF PageInv

LEMMA ClickStep ==
  ASSUME PageInv, NEW b \in Buttons, ClickAction(b) \/ ActionFailed(b)
  PROVE  PageInv'
<1> DEFINE ks == IF action[b] = "done" THEN Refreshes(b) ELSE {}
<1>1. PageTypes' /\ UNCHANGED <<sub, pushes, entry>>
  BY DEF ClickAction, ActionFailed, PageInv, PageTypes
<1>2. Changed(ks) \/ (ks = {} /\ UNCHANGED untold)
  BY DEF ClickAction, ActionFailed
<1>3. \A k \in OrderKeys \ ks : k \notin OrderPending' => k \notin OrderPending
  BY <1>1 DEF ClickAction, ActionFailed, OrderPending, PageInv, PageTypes
<1> HIDE DEF ks
<1>. QED BY <1>1, <1>2, <1>3, OrderMoves DEF OrderTruth

(* the service changes the order: a key that is not told has its message on *)
(* its way, or the answer of the button that made the change                *)
LEMMA PublishStep ==
  ASSUME PageInv, NEW told, Published(told), UNCHANGED <<at, socket, entry, form>>,
         sub' \in [Subs -> Status],
         action' \in [Buttons -> {"idle", "sent", "done", "settling"}],
         \A b \in Buttons : action[b] = "done" => action'[b] = "done",
         \A k \in told : \E b \in Buttons : action'[b] = "done" /\ k \in Refreshes(b)
  PROVE  PageInv'
<1>1. PICK sent \in BOOLEAN :
        /\ sub' = sub => ~sent
        /\ pushes' = IF sent /\ socket = "open" THEN pushes + 1 ELSE pushes
        /\ Changed(IF sub' = sub THEN {}
                   ELSE OrderKeys \ (told \cup (IF sent /\ socket = "open" THEN {"order"} ELSE {})))
  BY DEF Published
<1> DEFINE ks == IF sub' = sub THEN {}
                 ELSE OrderKeys \ (told \cup (IF sent /\ socket = "open" THEN {"order"} ELSE {}))
<1>2. PageTypes'
  BY <1>1 DEF PageInv, PageTypes
<1>3. \A k \in OrderKeys : k \in OrderPending => k \in OrderPending'
  BY <1>1 DEF OrderPending, PageInv, PageTypes
<1>4. \A k \in OrderKeys \ ks : k \notin OrderPending' => sub' = sub
  <2> SUFFICES ASSUME NEW k \in OrderKeys \ ks, k \notin OrderPending', sub' # sub
               PROVE  FALSE
    OBVIOUS
  <2>1. k \in told \/ (sent /\ socket = "open" /\ k = "order")
    OBVIOUS
  <2>2. CASE k \in told
    BY <2>2 DEF OrderPending
  <2>3. CASE sent /\ socket = "open" /\ k = "order"
    BY <1>1, <2>3 DEF OrderPending, PageInv, PageTypes
  <2>. QED BY <2>1, <2>2, <2>3
<1>5. Changed(ks)
  BY <1>1
<1> HIDE DEF ks
<1>6. \A k \in OrderKeys \ ks : k \notin OrderPending' => OrderTruth(k)' = OrderTruth(k)
  BY <1>4 DEF OrderTruth
<1>. QED BY <1>2, <1>3, <1>5, <1>6, OrderMoves

LEMMA HandledStep ==
  ASSUME PageInv, Elsewhere \/ \E b \in Buttons : ActionHandled(b)
  PROVE  PageInv'
<1>1. ASSUME NEW b \in {"confirm", "dispatch", "deliver"} PROVE After(b) \in Status
  BY DEF After, Status
<1>2. CASE Elsewhere
  <2>1. sub' \in [Subs -> Status]
    BY <1>1, <1>2 DEF Elsewhere, Cancels, Status, PageInv, PageTypes
  <2>. QED BY <1>2, <2>1, PublishStep DEF Elsewhere, PageInv, PageTypes
<1>3. ASSUME NEW b \in Buttons, ActionHandled(b)
      PROVE  PageInv'
  <2> DEFINE told == IF b = "cancel" THEN {"order", "list"} ELSE {"rows"}
  <2>1. sub' \in [Subs -> Status]
    <3>1. b # "cancel" => After(b) \in Status
      BY <1>1 DEF Buttons
    <3>. QED BY <1>3, <3>1 DEF ActionHandled, Cancels, Status, PageInv, PageTypes
  <2>2. /\ Published(told) /\ UNCHANGED <<at, socket, entry, form>>
        /\ action' = [action EXCEPT ![b] = "done"]
    BY <1>3 DEF ActionHandled
  <2>3. /\ action' \in [Buttons -> {"idle", "sent", "done", "settling"}] /\ action'[b] = "done"
        /\ \A c \in Buttons : action[c] = "done" => action'[c] = "done"
    BY <2>2 DEF PageInv, PageTypes
  <2>4. told = Refreshes(b)
    BY DEF Refreshes
  <2> HIDE DEF told
  <2>. QED BY <2>1, <2>2, <2>3, <2>4, PublishStep
<1>. QED BY <1>2, <1>3

LEMMA PageStep == PageInv /\ [PageNext]_pageVars => PageInv'
<1> SUFFICES ASSUME PageInv, [PageNext]_pageVars PROVE PageInv'
  OBVIOUS
<1>1. CASE UNCHANGED pageVars
  <2>1. PageTypes'
    BY <1>1 DEF pageVars, PageInv, PageTypes
  <2>2. UNCHANGED <<entry, untold, sub, pushes, action>>
    BY <1>1 DEF pageVars, loadVars
  <2>. QED BY <2>1, <2>2, OrderMoves DEF OrderPending, OrderTruth
<1>2. CASE PageNext
  BY <1>2, OrderNavigates, OrderLoadsStep, OrderHears, ClickStep, HandledStep DEF PageNext
<1>. QED BY <1>1, <1>2

LEMMA PageStarts == PageInit => PageInv
<1> SUFFICES ASSUME PageInit PROVE PageInv
  OBVIOUS
<1>1. PageTypes
  BY DEF PageInit, PageStart, PageTypes, OrderKeys, Status
<1>2. Follows(OrderKeys, OrderDatas, OrderTruths, OrderPending)
  BY InitFollows DEF PageInit
<1>. QED BY <1>1, <1>2 DEF PageInv

LEMMA PageShows == PageInv => PageTypeOK /\ OrderPageFollows
<1> SUFFICES ASSUME PageInv PROVE PageTypeOK /\ OrderPageFollows
  OBVIOUS
<1>1. ASSUME NEW k \in OrderKeys, Fresh(k), OrderTold(k)
      PROVE  entry[k].data = OrderTruth(k)
  <2>1. k \notin OrderPending /\ ~untold[k]
    BY <1>1 DEF OrderTold, OrderPending, PageInv, PageTypes
  <2>2. entry[k].data = OrderTruths[k]
    BY <1>1, <2>1, FreshFollows DEF PageInv
  <2>. QED BY <2>2 DEF OrderTruths
<1>2. LoadingTypeOK(OrderKeys, OrderData)
  BY DEF PageInv, Follows, Loads, LoadingTypeOK, OrderDatas
<1>. QED BY <1>1, <1>2 DEF PageInv, PageTypes, PageTypeOK, OrderPageFollows

(* The order page, the list of orders and the supplier's rows show as fresh *)
(* only what the service has, except where a change reached no page.        *)
THEOREM OrderPageIsTrue == PageSpec => [](PageTypeOK /\ OrderPageFollows)
BY PageStarts, PageStep, PageShows, PTL DEF PageSpec

-----------------------------------------------------------------------------
(* The bell: the list and the number of unread ones                        *)

BellDatas == [k \in BellKeys |-> BellData(k)]
BellTruths == [k \in BellKeys |-> BellTruth(k)]

(* the service has changed a notification, and its answer is to come *)
Answered == reading.at = "done" \/ \E s \in NoteSlots : notice[s] # NoNotice /\ notice[s].at = "done"
BellPending == IF Answered THEN BellKeys ELSE {}

NoteStates == {"none", "unread", "read", "gone"}
BellTypes ==
  /\ note \in [Notes -> NoteStates]
  /\ notice \in [NoteSlots -> Notice \cup {NoNotice}]
  /\ reading \in [at : {"idle", "sent", "done", "settling"}, waits : SUBSET BellKeys]
  /\ reading.waits # {} => reading.at = "settling"

BellInv == BellTypes /\ Follows(BellKeys, BellDatas, BellTruths, BellPending)

LEMMA BellTruthType ==
  ASSUME BellTypes, NEW k \in BellKeys
  PROVE  BellTruth(k) \in BellData(k) /\ BellDatas[k] = BellData(k) /\ BellTruths[k] = BellTruth(k)
<1>1. Cardinality(Unread(note)) \in 0 .. Cardinality(Notes)
  <2>1. Unread(note) \in SUBSET Notes
    BY DEF Unread
  <2>2. /\ Cardinality(Unread(note)) \in Nat /\ Cardinality(Notes) \in Nat
        /\ Cardinality(Unread(note)) <= Cardinality(Notes)
    BY <2>1, BellAssumption, FS_Subset, FS_CardinalityType
  <2>. QED BY <2>2
<1>. QED BY <1>1 DEF BellTruth, BellData, BellDatas, BellTruths, BellTypes, NoteStates

(* a step of the service, of the page without a load, or a call given up *)
LEMMA BellMoves ==
  ASSUME BellInv, BellTypes', NEW ks,
         Changed(ks) \/ (ks = {} /\ UNCHANGED untold),
         UNCHANGED entry \/ \E k \in BellKeys : Shows(k),
         \A k \in BellKeys \ ks : ~Answered' => ~Answered /\ note' = note
  PROVE  BellInv'
<1>1. \A k \in BellKeys \ (BellPending' \cup ks) :
        k \notin BellPending /\ BellTruths'[k] = BellTruths[k]
  BY DEF BellTruths, BellTruth, BellPending
<1>2. BellDatas' = BellDatas
  BY DEF BellDatas, BellData
<1>3. Follows(BellKeys, BellDatas, BellTruths, BellPending)'
  BY <1>1, <1>2, MovesFollows DEF BellInv
<1>. QED BY <1>3 DEF BellInv

LEMMA BellLoadsStep ==
  ASSUME BellInv, NEW k \in BellKeys, BellLoads(k)
  PROVE  BellInv'
<1>1. BellTypes' /\ (reading'.at = "done" <=> reading.at = "done") /\ UNCHANGED <<note, notice>>
  <2>1. CASE UNCHANGED reading
    BY <2>1 DEF BellLoads, BellInv, BellTypes
  <2>2. CASE Ends(k) /\ reading' = IF reading.waits = {k} THEN NotReading
                                   ELSE [reading EXCEPT !.waits = @ \ {k}]
    BY <2>2 DEF BellLoads, BellInv, BellTypes, NotReading
  <2>. QED BY <2>1, <2>2 DEF BellLoads
<1>2. BellPending' = BellPending /\ BellTruths' = BellTruths /\ BellDatas' = BellDatas
  BY <1>1 DEF BellPending, Answered, BellTruths, BellTruth, BellDatas, BellData
<1>3. CASE Answer(k, BellTruth(k))
  <2>1. BellTruth(k) \in BellDatas[k] /\ BellTruth(k) = BellTruths[k]
    BY BellTruthType DEF BellInv
  <2>. QED BY <1>1, <1>2, <1>3, <2>1, AnswerFollows DEF BellInv
<1>4. CASE Ends(k)
  BY <1>1, <1>2, <1>4, EndsFollows DEF BellInv
<1>5. CASE Age(k)
  BY <1>1, <1>2, <1>5, AgeFollows DEF BellInv
<1>6. CASE Focus(k)
  <2>1. Shows(k) /\ UNCHANGED untold
    BY <1>6 DEF Focus
  <2>2. Answered' = Answered
    BY <1>1 DEF Answered
  <2>. QED BY <1>1, <2>1, <2>2, BellMoves
<1>. QED BY <1>3, <1>4, <1>5, <1>6 DEF BellLoads

LEMMA BellCalls ==
  ASSUME BellInv,
         \/ ReadAll \/ AllRead \/ ReadAllFails
         \/ \E n \in Notes : SendNotice("read", n) \/ SendNotice("dismiss", n) \/ Notified(n)
         \/ \E s \in NoteSlots : NoticeHandled(s) \/ NoticeFails(s)
  PROVE  BellInv'
<1> USE DEF BellInv, BellTypes
<1>1. CASE ReadAll
  <2>1. BellTypes' /\ (Answered' <=> Answered) /\ UNCHANGED <<note, entry, untold>>
    BY <1>1 DEF ReadAll, Answered, loadVars
  <2>. QED BY <2>1, BellMoves
<1>2. CASE AllRead
  <2>1. BellTypes' /\ Answered' /\ UNCHANGED <<entry, untold>>
    BY <1>2 DEF AllRead, Answered, loadVars, NoteStates
  <2>. QED BY <2>1, BellMoves
<1>3. CASE ReadAllFails
  <2> DEFINE ks == IF reading.at = "done" THEN BellKeys ELSE {}
  <2>1. /\ BellTypes' /\ Changed(ks) /\ UNCHANGED <<note, notice, entry>>
        /\ reading.at # "done" /\ ~Answered' => ~Answered
    BY <1>3 DEF ReadAllFails, Answered, NotReading
  <2>2. \A k \in BellKeys \ ks : reading.at # "done"
    OBVIOUS
  <2> HIDE DEF ks
  <2>. QED BY <2>1, <2>2, BellMoves
<1>4. ASSUME NEW n \in Notes, NEW op \in {"read", "dismiss"}, SendNotice(op, n)
      PROVE  BellInv'
  <2> DEFINE c == [op |-> op, n |-> n, at |-> "sent"]
             t == CHOOSE s \in NoteSlots : notice[s] = NoNotice
  <2>1. t \in NoteSlots /\ notice[t] = NoNotice /\ c \in Notice /\ c # NoNotice
    BY <1>4 DEF SendNotice, Notice, NoNotice
  <2>2. notice' = [notice EXCEPT ![t] = c] /\ UNCHANGED <<note, reading, entry, untold>>
    BY <1>4 DEF SendNotice, loadVars
  <2> HIDE DEF t
  <2>3. BellTypes' /\ (Answered' <=> Answered)
    BY <2>1, <2>2 DEF Answered
  <2>. QED BY <2>2, <2>3, BellMoves
<1>5. ASSUME NEW n \in Notes, Notified(n)
      PROVE  BellInv'
  <2>1. BellTypes' /\ Changed(BellKeys) /\ UNCHANGED entry
    BY <1>5 DEF Notified, NoteStates
  <2>. QED BY <2>1, BellMoves
<1>6. ASSUME NEW s \in NoteSlots, NoticeHandled(s)
      PROVE  BellInv'
  <2>1. notice[s] \in Notice /\ notice' = [notice EXCEPT ![s].at = "done"]
        /\ UNCHANGED <<reading, entry, untold>>
    BY <1>6 DEF NoticeHandled, loadVars
  <2>2. [notice[s] EXCEPT !.at = "done"] \in Notice /\ notice[s].n \in Notes
    BY <2>1 DEF Notice
  <2>3. note' \in [Notes -> NoteStates]
    BY <1>6, <2>2 DEF NoticeHandled, NoteStates
  <2>4. notice'[s] = [notice[s] EXCEPT !.at = "done"] /\ notice'[s].at = "done" /\ notice'[s] # NoNotice
    BY <2>1 DEF Notice, NoNotice
  <2>5. BellTypes' /\ Answered'
    BY <2>1, <2>2, <2>3, <2>4 DEF Answered
  <2>. QED BY <2>1, <2>5, BellMoves
<1>7. ASSUME NEW s \in NoteSlots, NoticeFails(s)
      PROVE  BellInv'
  <2> DEFINE ks == IF notice[s].at = "done" THEN BellKeys ELSE {}
  <2>1. /\ BellTypes' /\ Changed(ks) /\ UNCHANGED <<note, reading, entry>>
        /\ notice[s].at # "done" /\ ~Answered' => ~Answered
    BY <1>7 DEF NoticeFails, Answered
  <2>2. \A k \in BellKeys \ ks : notice[s].at # "done"
    OBVIOUS
  <2> HIDE DEF ks
  <2>. QED BY <2>1, <2>2, BellMoves
<1>. QED BY <1>1, <1>2, <1>3, <1>4, <1>5, <1>6, <1>7

(* the page hears of its own changes: both keys are asked for again *)
LEMMA BellHears ==
  ASSUME BellInv, ReadAllSucceeded \/ \E s \in NoteSlots : NoticeSucceeded(s)
  PROVE  BellInv'
<1>1. BellTypes' /\ UNCHANGED note /\ Invalidate(BellKeys, BellKeys)
  BY DEF BellInv, BellTypes, ReadAllSucceeded, NoticeSucceeded, RefreshesBell
<1>2. BellTruths' = BellTruths /\ BellDatas' = BellDatas
  BY <1>1 DEF BellTruths, BellTruth, BellDatas, BellData
<1>3. BellPending \subseteq BellPending' \cup BellKeys
  BY DEF BellPending
<1>4. Follows(BellKeys, BellDatas, BellTruths, BellPending)'
  BY <1>1, <1>2, <1>3, InvalidateFollows DEF BellInv
<1>. QED BY <1>1, <1>4 DEF BellInv

LEMMA BellStep == BellInv /\ [BellNext]_bellVars => BellInv'
<1> SUFFICES ASSUME BellInv, [BellNext]_bellVars PROVE BellInv'
  OBVIOUS
<1>1. CASE UNCHANGED bellVars
  <2>1. BellTypes' /\ (Answered' <=> Answered) /\ UNCHANGED <<note, entry, untold>>
    BY <1>1 DEF bellVars, loadVars, BellInv, BellTypes, Answered
  <2>. QED BY <2>1, BellMoves
<1>2. CASE BellNext
  BY <1>2, BellLoadsStep, BellCalls, BellHears DEF BellNext
<1>. QED BY <1>1, <1>2

LEMMA BellStarts == BellInit => BellInv
<1> SUFFICES ASSUME BellInit PROVE BellInv
  OBVIOUS
<1>1. BellTypes
  BY DEF BellInit, BellStart, BellTypes, NoteStates, NotReading
<1>2. Follows(BellKeys, BellDatas, BellTruths, BellPending)
  BY InitFollows DEF BellInit
<1>. QED BY <1>1, <1>2 DEF BellInv

LEMMA BellShows == BellInv => BellTypeOK /\ BellFollows
<1> SUFFICES ASSUME BellInv PROVE BellTypeOK /\ BellFollows
  OBVIOUS
<1>1. ASSUME NEW k \in BellKeys, Fresh(k), ~untold[k], reading.at # "done",
             \A s \in NoteSlots : notice[s] = NoNotice \/ notice[s].at = "sent"
      PROVE  entry[k].data = BellTruth(k)
  <2>1. k \notin BellPending
    BY <1>1 DEF BellPending, Answered
  <2>2. entry[k].data = BellTruths[k]
    BY <1>1, <2>1, FreshFollows DEF BellInv
  <2>. QED BY <2>2 DEF BellTruths
<1>2. LoadingTypeOK(BellKeys, BellData)
  BY DEF BellInv, Follows, Loads, LoadingTypeOK, BellDatas
<1>. QED BY <1>1, <1>2 DEF BellInv, BellTypes, NoteStates, BellTypeOK, BellFollows

(* The bell's list and its count, shown as fresh, are both the service's,   *)
(* and so agree, unless nothing told the page of a change.                  *)
THEOREM BellIsTrue == BellSpec => [](BellTypeOK /\ BellFollows)
BY BellStarts, BellStep, BellShows, PTL DEF BellSpec

-----------------------------------------------------------------------------
(* The e-mail preferences: the answer of a change is put into the cache,   *)
(* which drops no request, so that an older answer may still come          *)

PrefKeys == {"prefs"}
PrefDatas == [k \in PrefKeys |-> [Kinds -> BOOLEAN]]
PrefTruths == [k \in PrefKeys |-> wanted]
PrefPending == IF switch.at = "done" THEN PrefKeys ELSE {}

(* nobody changes a preference between a change and its answer *)
PrefTypes ==
  /\ wanted \in [Kinds -> BOOLEAN] /\ switch \in Switch \cup {NoSwitch} /\ onPage \in BOOLEAN
  /\ switch.at = "done" => switch.reply = wanted

PrefInv == PrefTypes /\ Follows(PrefKeys, PrefDatas, PrefTruths, PrefPending)

LEMMA PrefMoves ==
  ASSUME PrefInv, PrefTypes', NEW ks,
         Changed(ks) \/ (ks = {} /\ UNCHANGED untold),
         UNCHANGED entry \/ Shows("prefs"),
         "prefs" \in ks \/ switch'.at = "done" \/ (switch.at # "done" /\ wanted' = wanted)
  PROVE  PrefInv'
<1>1. \A k \in PrefKeys \ (PrefPending' \cup ks) :
        k \notin PrefPending /\ PrefTruths'[k] = PrefTruths[k]
  BY DEF PrefTruths, PrefPending, PrefKeys
<1>2. PrefDatas' = PrefDatas /\ "prefs" \in PrefKeys
  BY DEF PrefDatas, PrefKeys
<1>3. Follows(PrefKeys, PrefDatas, PrefTruths, PrefPending)'
  BY <1>1, <1>2, MovesFollows DEF PrefInv
<1>. QED BY <1>3 DEF PrefInv

LEMMA PrefLoads ==
  ASSUME PrefInv, PreferencesLoad
  PROVE  PrefInv'
<1>1. PrefTypes' /\ UNCHANGED <<wanted, switch>>
  BY DEF PreferencesLoad, PrefInv, PrefTypes
<1>2. PrefPending' = PrefPending /\ PrefTruths' = PrefTruths /\ PrefDatas' = PrefDatas
      /\ "prefs" \in PrefKeys
  BY <1>1 DEF PrefPending, PrefTruths, PrefDatas, PrefKeys
<1>3. CASE Answer("prefs", wanted)
  <2>1. wanted \in PrefDatas["prefs"] /\ wanted = PrefTruths["prefs"]
    BY DEF PrefInv, PrefTypes, PrefDatas, PrefTruths, PrefKeys
  <2>. QED BY <1>1, <1>2, <1>3, <2>1, AnswerFollows DEF PrefInv
<1>4. CASE Ends("prefs")
  BY <1>1, <1>2, <1>4, EndsFollows DEF PrefInv
<1>5. CASE Age("prefs")
  BY <1>1, <1>2, <1>5, AgeFollows DEF PrefInv
<1>6. CASE Focus("prefs")
  <2>1. Shows("prefs") /\ UNCHANGED untold
    BY <1>6 DEF Focus
  <2>. QED BY <1>1, <2>1, PrefMoves
<1>. QED BY <1>3, <1>4, <1>5, <1>6 DEF PreferencesLoad

LEMMA FlipStep ==
  ASSUME PrefInv,
         OpenPreferences \/ FlipHandled \/ FlipFails
           \/ \E p \in Kinds : Flip(p) \/ FlippedElsewhere(p)
  PROVE  PrefInv'
<1> USE DEF PrefInv, PrefTypes
<1>1. CASE OpenPreferences
  <2>1. PrefTypes' /\ UNCHANGED <<wanted, switch, untold>> /\ (UNCHANGED entry \/ Shows("prefs"))
    BY <1>1 DEF OpenPreferences
  <2>. QED BY <2>1, PrefMoves
<1>2. CASE FlipHandled
  <2>1. switch \in Switch /\ UNCHANGED <<onPage, entry, untold>>
    BY <1>2 DEF FlipHandled, loadVars
  <2>2. wanted' \in [Kinds -> BOOLEAN]
    BY <1>2, <2>1 DEF FlipHandled, Switch
  <2>3. switch' \in Switch /\ switch'.at = "done" /\ switch'.reply = wanted'
    BY <1>2, <2>1, <2>2 DEF FlipHandled, Switch
  <2>4. PrefTypes'
    BY <2>1, <2>2, <2>3
  <2>. QED BY <2>1, <2>3, <2>4, PrefMoves
<1>3. CASE FlipFails
  <2> DEFINE ks == IF switch.at = "done" THEN {"prefs"} ELSE {}
  <2>1. PrefTypes' /\ Changed(ks) /\ UNCHANGED <<wanted, entry>>
    BY <1>3 DEF FlipFails, NoSwitch
  <2>2. "prefs" \in ks \/ switch.at # "done"
    OBVIOUS
  <2> HIDE DEF ks
  <2>. QED BY <2>1, <2>2, PrefMoves
<1>4. ASSUME NEW p \in Kinds, Flip(p)
      PROVE  PrefInv'
  <2>1. Has("prefs") /\ entry["prefs"].data[p] \in BOOLEAN
    <3>1. Has("prefs") /\ entry["prefs"] \in Entry([Kinds -> BOOLEAN])
      BY <1>4 DEF Flip, Follows, Loads, PrefDatas, PrefKeys
    <3>. QED BY <3>1 DEF Has, Entry
  <2>2. switch' \in Switch /\ switch'.at = "sent" /\ switch.at # "done"
    BY <1>4, <2>1 DEF Flip, Switch, NoSwitch
  <2>3. PrefTypes' /\ UNCHANGED <<wanted, entry, untold>>
    BY <1>4, <2>2 DEF Flip, loadVars
  <2>. QED BY <2>2, <2>3, PrefMoves
<1>5. ASSUME NEW p \in Kinds, FlippedElsewhere(p)
      PROVE  PrefInv'
  <2>1. switch.at # "done" /\ Changed({"prefs"}) /\ UNCHANGED <<switch, onPage, entry>>
    BY <1>5 DEF FlippedElsewhere, NoSwitch
  <2>2. wanted' \in [Kinds -> BOOLEAN]
    BY <1>5 DEF FlippedElsewhere
  <2>. QED BY <2>1, <2>2, PrefMoves
<1>. QED BY <1>1, <1>2, <1>3, <1>4, <1>5

(* setQueryData: what is put in place is what the service has; an answer   *)
(* on its way is either as new, or the page is not told                    *)
LEMMA FlipSucceeds ==
  ASSUME PrefInv, FlipSucceeded
  PROVE  PrefInv'
<1> DEFINE e == [entry["prefs"] EXCEPT !.data = wanted, !.stale = FALSE]
           u == entry["prefs"].fetch = "read" /\ entry["prefs"].got # wanted
<1>1. switch.reply = wanted /\ switch' = NoSwitch /\ UNCHANGED <<wanted, onPage>>
  BY DEF FlipSucceeded, PrefInv, PrefTypes
<1>2. entry["prefs"] \in Entry([Kinds -> BOOLEAN]) /\ "prefs" \in DOMAIN entry
  BY DEF PrefInv, Follows, Loads, PrefDatas, PrefKeys
<1>3. e \in Entry([Kinds -> BOOLEAN]) /\ (~u => Current(e, wanted))
  BY <1>2 DEF PrefInv, PrefTypes, Entry, Current
<1>4. entry' = [entry EXCEPT !["prefs"] = e] /\ untold' = [untold EXCEPT !["prefs"] = u]
  BY <1>1, <1>2 DEF FlipSucceeded, Puts
<1>5. u \in BOOLEAN /\ "prefs" \in PrefKeys /\ PrefDatas["prefs"] = [Kinds -> BOOLEAN]
      /\ PrefTruths["prefs"] = wanted
  BY DEF PrefDatas, PrefTruths, PrefKeys
<1> HIDE DEF e, u
<1>6. /\ PrefPending \subseteq PrefPending' \cup {"prefs"}
      /\ "prefs" \notin PrefPending' /\ ~u => Current(e, PrefTruths["prefs"])
  BY <1>3, <1>5 DEF PrefPending, PrefKeys
<1>7. PrefTruths' = PrefTruths /\ PrefDatas' = PrefDatas
  BY <1>1 DEF PrefTruths, PrefDatas
<1>8. Follows(PrefKeys, PrefDatas, PrefTruths, PrefPending)'
  BY <1>3, <1>4, <1>5, <1>6, <1>7, EntryFollows DEF PrefInv
<1>9. PrefTypes'
  BY <1>1 DEF PrefInv, PrefTypes, NoSwitch
<1>. QED BY <1>8, <1>9 DEF PrefInv

LEMMA PrefStep == PrefInv /\ [PreferencesNext]_preferenceVars => PrefInv'
<1> SUFFICES ASSUME PrefInv, [PreferencesNext]_preferenceVars PROVE PrefInv'
  OBVIOUS
<1>1. CASE UNCHANGED preferenceVars
  <2>1. PrefTypes' /\ UNCHANGED <<wanted, switch, entry, untold>>
    BY <1>1 DEF preferenceVars, loadVars, PrefInv, PrefTypes
  <2>. QED BY <2>1, PrefMoves
<1>2. CASE PreferencesNext
  BY <1>2, PrefLoads, FlipStep, FlipSucceeds DEF PreferencesNext
<1>. QED BY <1>1, <1>2

LEMMA PrefStarts == PreferencesInit => PrefInv
<1> SUFFICES ASSUME PreferencesInit PROVE PrefInv
  OBVIOUS
<1>1. PrefTypes
  BY DEF PreferencesInit, PreferencesStart, PrefTypes, NoSwitch
<1>2. Follows(PrefKeys, PrefDatas, PrefTruths, PrefPending)
  BY InitFollows DEF PreferencesInit, PrefKeys
<1>. QED BY <1>1, <1>2 DEF PrefInv

LEMMA PrefShows == PrefInv => PreferencesTypeOK /\ PreferencesFollow
<1> SUFFICES ASSUME PrefInv PROVE PreferencesTypeOK /\ PreferencesFollow
  OBVIOUS
<1>1. ASSUME Fresh("prefs"), ~untold["prefs"], switch = NoSwitch \/ switch.at = "sent"
      PROVE  entry["prefs"].data = wanted
  <2>1. "prefs" \in PrefKeys \ PrefPending
    BY <1>1 DEF PrefPending, PrefKeys, NoSwitch
  <2>2. entry["prefs"].data = PrefTruths["prefs"]
    BY <1>1, <2>1, FreshFollows DEF PrefInv
  <2>. QED BY <2>2 DEF PrefTruths, PrefKeys
<1>2. /\ DOMAIN entry = {"prefs"} /\ entry["prefs"] \in Entry([Kinds -> BOOLEAN])
      /\ untold \in [{"prefs"} -> BOOLEAN]
  BY DEF PrefInv, Follows, Loads, PrefKeys, PrefDatas
<1>3. LoadingTypeOK({"prefs"}, LAMBDA k : [Kinds -> BOOLEAN])
  BY <1>2 DEF LoadingTypeOK
<1>. QED BY <1>1, <1>3 DEF PrefInv, PrefTypes, PreferencesTypeOK, PreferencesFollow

(* The switches shown as fresh are what the service goes by, although no    *)
(* request is dropped when the answer of a change is put into the cache.    *)
THEOREM PreferencesAreTrue == PreferencesSpec => [](PreferencesTypeOK /\ PreferencesFollow)
BY PrefStarts, PrefStep, PrefShows, PTL DEF PreferencesSpec

-----------------------------------------------------------------------------
(* The admin's products                                                    *)

ProductDatas == [k \in Tabs |-> ProductsData(k)]
ProductTruths == [k \in Tabs |-> ProductsTruth(k)]

(* the service has made a change, and its answer is to come *)
Made == star.at = "done" \/ bulk.at = "done"
ProductPending == IF Made THEN Tabs ELSE {}

ProductTypes ==
  /\ product \in [Slugs -> Product] /\ tab \in Tabs /\ selected \subseteq Slugs
  /\ star \in Star \cup {NoStar}
  /\ bulk \in Bulk \cup {NoBulk}
  /\ behind \in [Tabs -> BOOLEAN] /\ meant \in BOOLEAN

(* stale or not, a tab that is not behind shows what the service has *)
Abreast == \A k \in Tabs :
  ~behind[k] /\ ~Made /\ ~(star.at = "settling" /\ star.k = k) /\ Has(k) =>
    entry[k].data = ProductsTruth(k)

(* a star that is sure of what it offers is about to offer it *)
Sure == star.sure =>
  /\ star.at = "sent" /\ bulk = NoBulk
  /\ product[star.p].featured = ~star.want

ProductInv ==
  /\ ProductTypes /\ Follows(Tabs, ProductDatas, ProductTruths, ProductPending)
  /\ Abreast /\ Sure /\ meant

LEMMA ProductsTruthType ==
  ASSUME ProductTypes, NEW k \in Tabs
  PROVE  /\ ProductsTruth(k) \in ProductsData(k)
         /\ ProductDatas[k] = ProductsData(k) /\ ProductTruths[k] = ProductsTruth(k)
<1> DEFINE ps == {q \in Slugs : k = "ALL" \/ product[q].status = k}
<1>1. ps \in SUBSET Slugs /\ [p \in ps |-> product[p]] \in [ps -> Product]
  BY DEF ProductTypes
<1>2. ProductsTruth(k) = [p \in ps |-> product[p]]
  BY DEF ProductsTruth
<1> HIDE DEF ps
<1>3. ProductsTruth(k) \in ProductsData(k)
  BY <1>1, <1>2 DEF ProductsData
<1>. QED BY <1>3 DEF ProductDatas, ProductTruths

(* of a tab that is loaded *)
LEMMA TabData ==
  ASSUME ProductInv, NEW k \in Tabs, Has(k)
  PROVE  DOMAIN entry[k].data \subseteq Slugs /\ \A p \in DOMAIN entry[k].data : entry[k].data[p] \in Product
<1>1. entry[k].data \in ProductsData(k)
  BY DEF ProductInv, Follows, Loads, ProductDatas, Has, Entry
<1>. QED BY <1>1 DEF ProductsData

(* a step that loads nothing: a tab of which the service has something else *)
(* is behind, and not told or still to hear                                 *)
LEMMA ProductMoves ==
  ASSUME ProductInv, ProductTypes', Sure', meant', NEW ks \in SUBSET Tabs,
         Changed(ks) \/ (ks = {} /\ UNCHANGED untold),
         UNCHANGED entry \/ \E k \in Tabs : Shows(k),
         \A k \in Tabs \ ks : ~Made' => ~Made /\ product' = product /\ (behind[k] => behind'[k]),
         \A k \in ks : behind'[k],
         star.at = "settling" =>
           (star'.at = "settling" /\ star'.k = star.k) \/ behind'[star.k]
  PROVE  ProductInv'
<1>1. \A k \in Tabs \ (ProductPending' \cup ks) :
        k \notin ProductPending /\ ProductTruths'[k] = ProductTruths[k]
  BY DEF ProductPending, ProductTruths, ProductsTruth
<1>2. ProductDatas' = ProductDatas
  BY DEF ProductDatas, ProductsData
<1>3. Follows(Tabs, ProductDatas, ProductTruths, ProductPending)'
  BY <1>1, <1>2, MovesFollows DEF ProductInv
<1>4. Abreast'
  <2> SUFFICES ASSUME NEW k \in Tabs, ~behind'[k], ~Made',
                      ~(star'.at = "settling" /\ star'.k = k), Has(k)'
               PROVE  entry'[k].data = ProductsTruth(k)'
    BY DEF Abreast
  <2>1. k \notin ks /\ ~Made /\ product' = product /\ ~behind[k]
        /\ ~(star.at = "settling" /\ star.k = k)
    BY DEF ProductInv, ProductTypes
  <2>2. entry[k] \in Entry(ProductDatas[k]) /\ k \in DOMAIN entry
        /\ entry'[k] \in {entry[k], Observed(entry[k])}
    BY DEF ProductInv, Follows, Loads, Shows
  <2>3. entry'[k].data = entry[k].data
    BY <2>2 DEF Observed, Entry
  <2>4. Has(k)
    BY <2>2, <2>3 DEF Has
  <2>. QED BY <2>1, <2>3, <2>4 DEF ProductInv, Abreast, ProductsTruth
<1>. QED BY <1>3, <1>4 DEF ProductInv

(* a load that ends is what the service has, or leaves the tab behind *)
LEMMA ProductsLoadStep ==
  ASSUME ProductInv, NEW k \in Tabs, ProductsLoad(k)
  PROVE  ProductInv'
<1>1. UNCHANGED <<product, tab, selected, bulk, meant>>
  BY DEF ProductsLoad
<1>2. ProductTruths' = ProductTruths /\ ProductDatas' = ProductDatas
  BY <1>1 DEF ProductTruths, ProductsTruth, ProductDatas, ProductsData
<1>3. CASE Ends(k) /\ StarFreed(k) /\ behind' = [behind EXCEPT ![k] = entry'[k].stale \/ untold[k]]
  <2>1. star' = star \/ (star' = NoStar /\ star.at = "settling" /\ star.k = k)
    BY <1>3 DEF StarFreed
  <2>2. ProductPending' = ProductPending /\ (Made' <=> Made)
    BY <1>1, <2>1 DEF ProductPending, Made, NoStar
  <2>3. Follows(Tabs, ProductDatas, ProductTruths, ProductPending)'
    BY <1>2, <1>3, <2>2, EndsFollows DEF ProductInv
  <2>4. ProductTypes'
    <3>1. (entry'[k].stale \/ untold[k]) \in BOOLEAN
      OBVIOUS
    <3>. QED BY <1>1, <1>3, <2>1, <3>1 DEF ProductInv, ProductTypes
  <2>5. Sure' /\ meant'
    BY <1>1, <2>1 DEF ProductInv, Sure, NoStar
  <2>6. Abreast'
    <3> SUFFICES ASSUME NEW j \in Tabs, ~behind'[j], ~Made',
                        ~(star'.at = "settling" /\ star'.k = j), Has(j)'
                 PROVE  entry'[j].data = ProductsTruth(j)'
      BY DEF Abreast
    <3>1. CASE j = k
      <4>1. Fresh(k)' /\ ~untold'[k]
        BY <1>3, <3>1 DEF Fresh, Ends, ProductInv, ProductTypes
      <4>2. k \notin ProductPending'
        BY DEF ProductPending
      <4>3. entry'[k].data = ProductTruths'[k]
        BY <2>3, <4>1, <4>2 DEF Follows, Current, Fresh, Has
      <4>. QED BY <3>1, <4>3 DEF ProductTruths
    <3>2. CASE j # k
      <4>1. entry'[j] = entry[j] /\ behind'[j] = behind[j] /\ DOMAIN entry' = DOMAIN entry
        BY <1>3, <3>2 DEF Ends, ProductInv, ProductTypes, Follows, Loads
      <4>2. ~(star.at = "settling" /\ star.k = j) /\ Has(j)
        BY <2>1, <3>2, <4>1 DEF Has
      <4>. QED BY <1>1, <2>2, <4>1, <4>2 DEF ProductInv, Abreast, ProductsTruth
    <3>. QED BY <3>1, <3>2
  <2>. QED BY <2>3, <2>4, <2>5, <2>6 DEF ProductInv
<1>4. CASE UNCHANGED <<star, behind>>
  <2>1. ProductPending' = ProductPending /\ (Made' <=> Made)
    BY <1>1, <1>4 DEF ProductPending, Made
  <2>2. ProductTypes' /\ Sure' /\ meant'
    BY <1>1, <1>4 DEF ProductInv, ProductTypes, Sure
  <2>3. CASE Answer(k, ProductsTruth(k)) \/ Age(k)
    <3>1. Follows(Tabs, ProductDatas, ProductTruths, ProductPending)'
      <4>1. CASE Age(k)
        BY <1>2, <2>1, <4>1, AgeFollows DEF ProductInv
      <4>2. CASE Answer(k, ProductsTruth(k))
        <5>1. ProductsTruth(k) \in ProductDatas[k] /\ ProductsTruth(k) = ProductTruths[k]
          BY ProductsTruthType DEF ProductInv
        <5>. QED BY <1>2, <2>1, <4>2, <5>1, AnswerFollows DEF ProductInv
      <4>. QED BY <2>3, <4>1, <4>2
    <3>2. \A j \in Tabs : entry'[j].data = entry[j].data /\ (Has(j)' <=> Has(j))
      <4>1. \A j \in Tabs : entry[j] \in Entry(ProductDatas[j])
        BY DEF ProductInv, Follows, Loads
      <4>2. \A j \in Tabs : entry'[j] \in {entry[j], ReadAs(entry[j], ProductsTruth(k)), Aged(entry[j])}
                            /\ DOMAIN entry' = DOMAIN entry
        BY <2>3 DEF Answer, Age, ProductInv, Follows, Loads
      <4>3. \A j \in Tabs : entry'[j].data = entry[j].data
        BY <4>1, <4>2 DEF ReadAs, Aged, Entry
      <4>. QED BY <4>2, <4>3 DEF Has
    <3>3. Abreast'
      BY <1>1, <1>4, <2>1, <3>2 DEF ProductInv, Abreast, ProductsTruth
    <3>. QED BY <2>2, <3>1, <3>3 DEF ProductInv
  <2>4. CASE Focus(k)
    <3>1. Shows(k) /\ UNCHANGED untold
      BY <2>4 DEF Focus
    <3>2. {} \in SUBSET Tabs /\ \A j \in {} : behind'[j]
      OBVIOUS
    <3>3. \A j \in Tabs \ {} : ~Made' => ~Made /\ product' = product /\ (behind[j] => behind'[j])
      BY <1>1, <1>4, <2>1
    <3>. QED BY <1>4, <2>2, <3>1, <3>2, <3>3, ProductMoves
  <2>. QED BY <1>4, <2>3, <2>4, <1>3 DEF ProductsLoad
<1>. QED BY <1>3, <1>4 DEF ProductsLoad

LEMMA SetsProduct ==
  ASSUME NEW x \in Product, NEW set \in Sets
  PROVE  [f \in DOMAIN x |-> IF f \in DOMAIN set THEN set[f] ELSE x[f]] \in Product
<1> DEFINE y == [f \in DOMAIN x |-> IF f \in DOMAIN set THEN set[f] ELSE x[f]]
<1>1. DOMAIN x = {"status", "featured"} /\ x.status \in Statuses /\ x.featured \in BOOLEAN
  BY DEF Product
<1>2. \/ DOMAIN set = {"status"} /\ set.status \in Statuses
      \/ DOMAIN set = {"featured"} /\ set.featured \in BOOLEAN
  BY DEF Sets, Statuses
<1>3. y.status \in Statuses /\ y.featured \in BOOLEAN
  BY <1>1, <1>2
<1>4. y = [status |-> y.status, featured |-> y.featured]
  BY <1>1
<1>. QED BY <1>3, <1>4 DEF Product

LEMMA ClickStarStep ==
  ASSUME ProductInv, NEW p \in Slugs, ClickStar(p)
  PROVE  ProductInv'
<1> DEFINE now == entry[tab].data[p].featured
           sure == ~behind[tab] /\ bulk = NoBulk
           c == [at |-> "sent", p |-> p, want |-> ~now, k |-> "ALL", sure |-> sure]
<1>1. /\ star = NoStar /\ p \in InTab /\ star' = c
      /\ UNCHANGED <<product, tab, selected, bulk, behind, meant, entry, untold>>
  BY DEF ClickStar, loadVars
<1>2. Has(tab) /\ p \in DOMAIN entry[tab].data /\ now \in BOOLEAN
  <2>1. Has(tab) /\ p \in DOMAIN entry[tab].data
    BY <1>1 DEF InTab
  <2>2. tab \in Tabs
    BY DEF ProductInv, ProductTypes
  <2>3. entry[tab].data[p] \in Product
    BY <2>1, <2>2, TabData
  <2>. QED BY <2>1, <2>3 DEF Product
<1>3. c \in Star /\ c.at = "sent" /\ c.sure = sure /\ c.p = p /\ c.want = ~now
  <2>1. sure \in BOOLEAN /\ "ALL" \in Tabs /\ (~now) \in BOOLEAN
    BY ProductsAssumption, Zenon
  <2>. QED BY <2>1 DEF Star
<1>4. sure => product[p].featured = now
  <2> SUFFICES ASSUME sure PROVE product[p].featured = now
    OBVIOUS
  <2>1. ~Made /\ tab \in Tabs /\ star.at # "settling"
    BY <1>1 DEF Made, NoStar, NoBulk, ProductInv, ProductTypes
  <2>2. entry[tab].data = ProductsTruth(tab)
    BY <1>2, <2>1 DEF ProductInv, Abreast
  <2>. QED BY <1>2, <2>2 DEF ProductsTruth
<1> HIDE DEF now, sure, c
<1>5. Sure'
  <2>1. product[p].featured \in BOOLEAN
    BY DEF ProductInv, ProductTypes, Product
  <2>2. sure => product[p].featured = ~c.want
    BY <1>2, <1>3, <1>4
  <2>3. sure => bulk = NoBulk
    BY DEF sure
  <2>. QED BY <1>1, <1>3, <2>2, <2>3 DEF Sure
<1>6. ProductTypes' /\ meant'
  BY <1>1, <1>3 DEF ProductInv, ProductTypes
<1>8. {} \in SUBSET Tabs /\ (Made' <=> Made) /\ star.at # "settling"
  BY <1>1, <1>3 DEF Made, NoStar
<1>. QED BY <1>1, <1>5, <1>6, <1>8, ProductMoves

LEMMA StarHandledStep ==
  ASSUME ProductInv, StarHandled
  PROVE  ProductInv'
<1>1. /\ star.at = "sent" /\ star \in Star
      /\ product' = [product EXCEPT ![star.p].featured = ~@]
      /\ meant' = (meant /\ (star.sure => product'[star.p].featured = star.want))
      /\ star' = [star EXCEPT !.at = "done", !.want = FALSE, !.sure = FALSE]
      /\ UNCHANGED <<tab, selected, bulk, behind, entry, untold>>
  BY DEF StarHandled, loadVars, ProductInv, ProductTypes, NoStar
<1>2. star.p \in Slugs /\ star.want \in BOOLEAN /\ star' \in Star /\ star'.at = "done" /\ star'.sure = FALSE
  BY <1>1 DEF Star
<1>3. product' \in [Slugs -> Product] /\ product'[star.p].featured = ~product[star.p].featured
  BY <1>1, <1>2 DEF ProductInv, ProductTypes, Product
<1>4. meant'
  <2>1. star.sure => product'[star.p].featured = star.want
    BY <1>2, <1>3 DEF ProductInv, Sure
  <2>. QED BY <1>1, <2>1 DEF ProductInv
<1>5. ProductTypes' /\ Sure' /\ Made'
  BY <1>1, <1>2, <1>3, <1>4 DEF ProductInv, ProductTypes, Sure, Made
<1>6. {} \in SUBSET Tabs
  OBVIOUS
<1>. QED BY <1>1, <1>4, <1>5, <1>6, ProductMoves

LEMMA BulkHandledStep ==
  ASSUME ProductInv, BulkHandled
  PROVE  ProductInv'
<1>1. /\ bulk \in Bulk /\ bulk' = [bulk EXCEPT !.at = "done"]
      /\ UNCHANGED <<tab, selected, star, behind, meant, entry, untold>>
  BY DEF BulkHandled, loadVars, ProductInv, ProductTypes, NoBulk
<1>2. bulk' \in Bulk /\ bulk'.at = "done" /\ bulk.set \in Sets /\ bulk # NoBulk
  BY <1>1 DEF Bulk, NoBulk
<1>3. product' \in [Slugs -> Product]
  <2> DEFINE put(p) == [f \in DOMAIN product[p] |->
               IF f \in DOMAIN bulk.set THEN bulk.set[f] ELSE product[p][f]]
  <2>1. \A p \in Slugs : product[p] \in Product /\ put(p) \in Product
    BY <1>2, SetsProduct DEF ProductInv, ProductTypes
  <2>2. product' = [p \in Slugs |-> IF p \notin bulk.slugs THEN product[p] ELSE put(p)]
    BY DEF BulkHandled
  <2> HIDE DEF put
  <2>. QED BY <2>1, <2>2
<1>4. ProductTypes' /\ Sure' /\ Made' /\ meant'
  BY <1>1, <1>2, <1>3 DEF ProductInv, ProductTypes, Sure, Made
<1>5. {} \in SUBSET Tabs
  OBVIOUS
<1>. QED BY <1>1, <1>4, <1>5, ProductMoves

LEMMA UnsureStar ==
  ASSUME ProductInv
  PROVE  LET c == [star EXCEPT !.sure = FALSE]
         IN c \in Star \cup {NoStar} /\ c.at = star.at /\ c.sure = FALSE
            /\ (star \in Star => c.k = star.k)
<1>1. CASE star \in Star
  BY <1>1 DEF Star
<1>2. CASE star = NoStar
  <2> DEFINE c == [star EXCEPT !.sure = FALSE]
  <2>1. c = [f \in {"at", "sure"} |-> c[f]] /\ c.at = "idle" /\ c.sure = FALSE
    BY <1>2 DEF NoStar
  <2>2. c = NoStar
    <3> HIDE DEF c
    <3>. QED BY <2>1 DEF NoStar
  <2>. QED BY <1>2, <2>1, <2>2 DEF NoStar
<1>. QED BY <1>1, <1>2 DEF ProductInv, ProductTypes

LEMMA ProductClicks ==
  ASSUME ProductInv,
         \/ Tick \/ (\E k \in Tabs : OpenTab(k)) \/ (\E set \in Sets : ClickBulk(set))
         \/ StarFails \/ BulkFails \/ LeaveProducts \/ \E p \in Slugs : ProductElsewhere(p)
  PROVE  ProductInv'
<1> USE DEF ProductInv, ProductTypes
<1>1. {} \in SUBSET Tabs /\ Tabs \in SUBSET Tabs
  OBVIOUS
<1>2. CASE Tick
  <2>1. InTab \subseteq Slugs
    BY TabData DEF InTab
  <2>2. ProductTypes' /\ UNCHANGED <<product, star, bulk, behind, meant, entry, untold>>
    BY <1>2, <2>1 DEF Tick, loadVars
  <2>3. Sure' /\ meant' /\ (Made' <=> Made)
    BY <2>2 DEF Sure, Made
  <2>. QED BY <1>1, <2>2, <2>3, ProductMoves
<1>3. ASSUME NEW k \in Tabs, OpenTab(k)
      PROVE  ProductInv'
  <2>1. ProductTypes' /\ UNCHANGED <<product, star, bulk, behind, meant, untold>> /\ Shows(k)
    BY <1>3 DEF OpenTab
  <2>2. Sure' /\ meant' /\ (Made' <=> Made)
    BY <2>1 DEF Sure, Made
  <2>3. \A j \in Tabs \ {} : ~Made' => ~Made /\ product' = product /\ (behind[j] => behind'[j])
    BY <2>1, <2>2
  <2>. QED BY <1>1, <2>1, <2>2, <2>3, ProductMoves
<1>4. ASSUME NEW set \in Sets, ClickBulk(set)
      PROVE  ProductInv'
  <2>1. /\ bulk = NoBulk /\ bulk' = [at |-> "sent", slugs |-> selected, set |-> set]
        /\ star' = [star EXCEPT !.sure = FALSE]
        /\ UNCHANGED <<product, tab, selected, behind, meant, entry, untold>>
    BY <1>4 DEF ClickBulk, loadVars
  <2>2. bulk' \in Bulk /\ bulk'.at = "sent"
    BY <2>1 DEF Bulk
  <2>3. star' \in Star \cup {NoStar} /\ star'.at = star.at /\ star'.sure = FALSE
        /\ (star.at = "settling" => star'.k = star.k)
    BY <2>1, UnsureStar DEF NoStar
  <2>4. ProductTypes' /\ Sure' /\ meant' /\ (Made' <=> Made)
    BY <2>1, <2>2, <2>3 DEF Sure, Made, NoBulk
  <2>. QED BY <1>1, <2>1, <2>3, <2>4, ProductMoves
<1>5. CASE StarFails
  <2>1. star' = NoStar /\ star.at \in {"sent", "done"} /\ UNCHANGED <<product, tab, selected, bulk, meant, entry>>
    BY <1>5 DEF StarFails
  <2>2. CASE star.at = "done"
    <3>1. Changed(Tabs) /\ behind' = [k \in Tabs |-> TRUE]
      BY <1>5, <2>2 DEF StarFails, AllBehind
    <3>2. ProductTypes' /\ Sure' /\ meant'
      BY <2>1, <3>1 DEF Sure, NoStar
    <3>. QED BY <1>1, <2>1, <2>2, <3>1, <3>2, ProductMoves
  <2>3. CASE star.at = "sent"
    <3>1. UNCHANGED <<untold, behind>>
      BY <1>5, <2>3 DEF StarFails
    <3>2. ProductTypes' /\ Sure' /\ meant' /\ (Made' <=> Made)
      BY <2>1, <2>3, <3>1 DEF Sure, NoStar, Made
    <3>. QED BY <1>1, <2>1, <2>3, <3>1, <3>2, ProductMoves
  <2>. QED BY <2>1, <2>2, <2>3
<1>6. CASE BulkFails
  <2>1. bulk' = NoBulk /\ bulk # NoBulk /\ UNCHANGED <<product, tab, selected, star, meant, entry>>
    BY <1>6 DEF BulkFails
  <2>2. CASE bulk.at = "done"
    <3>1. Changed(Tabs) /\ behind' = [k \in Tabs |-> TRUE]
      BY <1>6, <2>2 DEF BulkFails, AllBehind
    <3>2. ProductTypes' /\ Sure' /\ meant'
      BY <2>1, <3>1 DEF Sure, NoBulk
    <3>. QED BY <1>1, <2>1, <2>2, <3>1, <3>2, ProductMoves
  <2>3. CASE bulk.at # "done"
    <3>1. UNCHANGED <<untold, behind>>
      BY <1>6, <2>3 DEF BulkFails
    <3>2. ProductTypes' /\ Sure' /\ meant' /\ (Made' <=> Made)
      BY <2>1, <2>3, <3>1 DEF Sure, NoBulk, Made
    <3>. QED BY <1>1, <2>1, <2>3, <3>1, <3>2, ProductMoves
  <2>. QED BY <2>2, <2>3
<1>7. ASSUME NEW p \in Slugs, ProductElsewhere(p)
      PROVE  ProductInv'
  <2>1. /\ star' = [star EXCEPT !.sure = FALSE]
        /\ Changed(Tabs) /\ behind' = [k \in Tabs |-> TRUE]
        /\ UNCHANGED <<tab, selected, bulk, meant, entry>>
    BY <1>7 DEF ProductElsewhere, AllBehind
  <2>2. product' \in [Slugs -> Product]
    <3>1. product[p] \in Product
      BY <1>1 DEF ProductInv, ProductTypes
    <3>2. CASE product' = [product EXCEPT ![p].featured = ~@]
      <4>1. [product[p] EXCEPT !.featured = ~@] \in Product
        BY <3>1 DEF Product
      <4>. QED BY <3>2, <4>1 DEF ProductInv, ProductTypes
    <3>3. CASE product' = [product EXCEPT ![p].status = "ARCHIVED"]
      <4>1. [product[p] EXCEPT !.status = "ARCHIVED"] \in Product
        BY <3>1 DEF Product, Statuses
      <4>. QED BY <3>3, <4>1 DEF ProductInv, ProductTypes
    <3>. QED BY <1>7, <3>2, <3>3 DEF ProductElsewhere
  <2>3. star' \in Star \cup {NoStar} /\ star'.at = star.at /\ star'.sure = FALSE
        /\ (star.at = "settling" => star'.k = star.k)
    BY <2>1, UnsureStar DEF NoStar
  <2>4. ProductTypes' /\ Sure' /\ meant'
    BY <2>1, <2>2, <2>3 DEF Sure
  <2>. QED BY <1>1, <2>1, <2>3, <2>4, ProductMoves
<1>8. CASE LeaveProducts
  <2>1. /\ tab' = "ALL" /\ selected' = {} /\ star' = NoStar /\ bulk' = NoBulk /\ Shows("ALL")
        /\ UNCHANGED <<product, meant>> /\ "ALL" \in Tabs
    BY <1>8, ProductsAssumption DEF LeaveProducts
  <2>2. ~Made'
    BY <2>1 DEF Made, NoStar, NoBulk
  <2>3. CASE Made
    <3>1. Changed(Tabs) /\ behind' = [k \in Tabs |-> TRUE]
      BY <1>8, <2>3 DEF LeaveProducts, AllBehind, Made
    <3>2. ProductTypes' /\ Sure' /\ meant'
      BY <2>1, <3>1 DEF Sure, NoStar
    <3>3. star.at = "settling" => behind'[star.k]
      BY <3>1 DEF NoStar, Star
    <3>. QED BY <1>1, <2>1, <3>1, <3>2, <3>3, ProductMoves
  <2>4. CASE ~Made
    <3>1. UNCHANGED untold
          /\ behind' = [k \in Tabs |-> behind[k] \/ (star.at = "settling" /\ star.k = k)]
      BY <1>8, <2>4 DEF LeaveProducts, Made
    <3>2. \A k \in Tabs : (behind[k] \/ (star.at = "settling" /\ star.k = k)) \in BOOLEAN
      OBVIOUS
    <3>3. behind' \in [Tabs -> BOOLEAN]
      BY <3>1, <3>2, Zenon
    <3>4. ProductTypes' /\ Sure' /\ meant'
      BY <2>1, <3>3 DEF Sure, NoStar
    <3>5. star.at = "settling" => behind'[star.k]
      <4>1. star.at = "settling" => star.k \in Tabs
        BY DEF NoStar, Star
      <4>2. \A k \in Tabs : behind'[k] = (behind[k] \/ (star.at = "settling" /\ star.k = k))
        BY <3>1
      <4>. QED BY <4>1, <4>2, Zenon
    <3>6. \A k \in Tabs \ {} : ~Made' => ~Made /\ product' = product /\ (behind[k] => behind'[k])
      BY <2>1, <2>4, <3>1
    <3>. QED BY <1>1, <2>1, <3>1, <3>4, <3>5, <3>6, ProductMoves
  <2>. QED BY <2>3, <2>4
<1>. QED BY <1>2, <1>3, <1>4, <1>5, <1>6, <1>7, <1>8

(* a star waits for the tab on the page, and leaves the others behind *)
LEMMA ProductHears ==
  ASSUME ProductInv, StarSucceeded \/ BulkSucceeded
  PROVE  ProductInv'
<1> DEFINE seen == {tab}
<1>1. UNCHANGED <<product, tab, meant>> /\ Invalidate(Tabs, seen)
  BY DEF StarSucceeded, BulkSucceeded, RefreshesTabs
<1> HIDE DEF seen
<1>2. ProductTruths' = ProductTruths /\ ProductDatas' = ProductDatas
  BY <1>1 DEF ProductTruths, ProductsTruth, ProductDatas, ProductsData
<1>3. ProductPending \subseteq ProductPending' \cup Tabs
  BY DEF ProductPending
<1>4. Follows(Tabs, ProductDatas, ProductTruths, ProductPending)'
  BY <1>1, <1>2, <1>3, InvalidateFollows DEF ProductInv
<1>5. CASE StarSucceeded
  <2>1. /\ star \in Star /\ star' = [star EXCEPT !.at = "settling", !.k = tab]
        /\ behind' = [k \in Tabs |-> behind[k] \/ k # tab] /\ UNCHANGED <<selected, bulk>>
    BY <1>5 DEF StarSucceeded, StarSettles, ProductInv, ProductTypes, NoStar
  <2>2. star' \in Star /\ star'.at = "settling" /\ star'.k = tab /\ star'.sure = star.sure
    BY <2>1 DEF Star, ProductInv, ProductTypes
  <2>3. ~star.sure
    BY <1>5 DEF StarSucceeded, ProductInv, Sure
  <2>4. ProductTypes' /\ Sure' /\ Abreast' /\ meant'
    <3>1. \A k \in Tabs : (behind[k] \/ k # tab) \in BOOLEAN
      OBVIOUS
    <3>. QED BY <1>1, <2>1, <2>2, <2>3, <3>1 DEF ProductInv, ProductTypes, Sure, Abreast
  <2>. QED BY <1>4, <2>4 DEF ProductInv
<1>6. CASE BulkSucceeded
  <2>1. /\ bulk.at = "done" /\ bulk' = NoBulk /\ selected' = {} /\ UNCHANGED star
        /\ behind' = [k \in Tabs |-> TRUE]
    BY <1>6 DEF BulkSucceeded, AllBehind
  <2>2. ProductTypes' /\ Sure' /\ Abreast' /\ meant'
    BY <1>1, <2>1 DEF ProductInv, ProductTypes, Sure, Abreast, NoBulk
  <2>. QED BY <1>4, <2>2 DEF ProductInv
<1>. QED BY <1>5, <1>6

LEMMA ProductsStep == ProductInv /\ [ProductsNext]_productVars => ProductInv'
<1> SUFFICES ASSUME ProductInv, [ProductsNext]_productVars PROVE ProductInv'
  OBVIOUS
<1>1. CASE UNCHANGED productVars
  <2>1. UNCHANGED <<product, tab, selected, star, bulk, behind, meant, entry, untold>>
    BY <1>1 DEF productVars, loadVars
  <2>2. ProductTypes' /\ Sure' /\ meant' /\ (Made' <=> Made) /\ {} \in SUBSET Tabs
    BY <2>1 DEF ProductInv, ProductTypes, Sure, Made
  <2>. QED BY <2>1, <2>2, ProductMoves
<1>2. CASE ProductsNext
  BY <1>2, ProductsLoadStep, ClickStarStep, StarHandledStep, BulkHandledStep, ProductClicks,
     ProductHears DEF ProductsNext
<1>. QED BY <1>1, <1>2

LEMMA ProductsStarts == ProductsInit => ProductInv
<1> SUFFICES ASSUME ProductsInit PROVE ProductInv
  OBVIOUS
<1> USE ProductsAssumption
<1>1. ProductTypes /\ Sure /\ meant
  BY DEF ProductsInit, ProductsStart, ProductTypes, Sure, NoStar
<1>2. Follows(Tabs, ProductDatas, ProductTruths, ProductPending)
  BY InitFollows DEF ProductsInit
<1>3. Abreast
  BY DEF ProductsInit, LoadingInit, Empty, Observed, Abreast, Has
<1>. QED BY <1>1, <1>2, <1>3 DEF ProductInv

LEMMA ProductsShow == ProductInv => ProductsTypeOK /\ StarMeans /\ ProductsFollow
<1> SUFFICES ASSUME ProductInv PROVE ProductsTypeOK /\ StarMeans /\ ProductsFollow
  OBVIOUS
<1>1. ASSUME NEW k \in Tabs, Fresh(k), ~untold[k], star.at # "done", bulk = NoBulk \/ bulk.at = "sent"
      PROVE  entry[k].data = ProductsTruth(k)
  <2>1. k \notin ProductPending
    BY <1>1 DEF ProductPending, Made, NoBulk
  <2>2. entry[k].data = ProductTruths[k]
    BY <1>1, <2>1, FreshFollows DEF ProductInv
  <2>. QED BY <2>2 DEF ProductTruths
<1>2. LoadingTypeOK(Tabs, ProductsData)
  BY DEF ProductInv, Follows, Loads, LoadingTypeOK, ProductDatas
<1>. QED BY <1>1, <1>2 DEF ProductInv, ProductTypes, ProductsTypeOK, StarMeans, ProductsFollow

(* A star does what the page offered when it was clicked, if the page could *)
(* know; the service toggles whatever it has.                               *)
THEOREM StarsMeanWhatTheyShow == ProductsSpec => []StarMeans
BY ProductsStarts, ProductsStep, ProductsShow, PTL DEF ProductsSpec

(* Every tab shown as fresh is what the service has, for a change that the  *)
(* page was told of while another tab was open as well.                     *)
THEOREM TabsAreTrue == ProductsSpec => [](ProductsTypeOK /\ ProductsFollow)
BY ProductsStarts, ProductsStep, ProductsShow, PTL DEF ProductsSpec
=============================================================================
