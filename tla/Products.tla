-------------------------------- MODULE Products --------------------------------
(***************************************************************************)
(* The admin's products page: tabs by status, a star that toggles whether  *)
(* a product is featured, and bulk changes of the selected rows.           *)
(*                                                                         *)
(* The star's call says "toggle": the service flips what it has.  The star *)
(* is disabled until its call has ended and the tab has been read again; a *)
(* bulk change, and the other tabs, are not waited for.                    *)
(***************************************************************************)
EXTENDS Naturals, Loading

CONSTANTS
  Slugs,
  Tabs       \* bound: of "ALL" and the statuses

Statuses == {"ACTIVE", "ARCHIVED"}      \* DRAFT is as ARCHIVED to this page
ASSUME ProductsAssumption == Tabs \subseteq {"ALL"} \cup Statuses /\ "ALL" \in Tabs

VARIABLES
  product,   \* product[p]: [status, featured]
  tab,       \* the tab shown
  selected,  \* the rows ticked
  star,      \* the star's call: [at, p, want, sure, k].  want: what the page
             \* offered; k: the tab it waits for when "settling"
  bulk,      \* the bulk call: [at, slugs, set]
  behind,    \* behind[k]: k may show what was before a change that the star does
             \* not wait for
  meant      \* every star handled did what it offered, or could not know

productVars == <<product, tab, selected, star, bulk, behind, meant, loadVars>>

Product == [status : Statuses, featured : BOOLEAN]
ProductsData(k) == UNION {[ps -> Product] : ps \in SUBSET Slugs}
(* one page of all of them, by key ['admin', 'products', k] *)
ProductsTruth(k) == [p \in {q \in Slugs : k = "ALL" \/ product[q].status = k} |-> product[p]]

NoStar == [at |-> "idle", sure |-> FALSE]
Star == [at : {"sent", "done", "settling"}, p : Slugs, want : BOOLEAN, sure : BOOLEAN, k : Tabs]
NoBulk == [at |-> "idle"]
(* "Set status" and "Feature", and likewise "Unfeature".  Bound: to ARCHIVED *)
Sets == [status : {"ARCHIVED"}] \cup [featured : {TRUE}]
Bulk == [at : {"sent", "done"}, slugs : SUBSET Slugs, set : Sets]

InTab == IF Has(tab) THEN DOMAIN entry[tab].data ELSE {}

-----------------------------------------------------------------------------
OpenTab(k) ==
  /\ k # tab /\ tab' = k /\ selected' = {}
  /\ Shows(k)
  /\ UNCHANGED <<product, star, bulk, behind, meant, untold>>

(* isPending ends with the promise of the refetch, whether it came or not *)
StarFreed(k) == star' = IF star.at = "settling" /\ star.k = k THEN NoStar ELSE star

ProductsLoad(k) ==
  /\ \/ /\ Answer(k, ProductsTruth(k)) \/ Age(k) \/ (k = tab /\ Focus(k))
        /\ UNCHANGED <<star, behind>>
     \/ /\ Ends(k) /\ StarFreed(k)
        /\ behind' = [behind EXCEPT ![k] = entry'[k].stale \/ untold[k]]
  /\ UNCHANGED <<product, tab, selected, bulk, meant>>

(* ticks survive a search and a load that no longer shows the row *)
Tick ==
  /\ \E ps \in SUBSET InTab : selected' = (selected \ ps) \cup (ps \ selected)
  /\ selected' # selected
  /\ UNCHANGED <<product, tab, star, bulk, behind, meant, loadVars>>

ClickStar(p) ==
  /\ star = NoStar /\ p \in InTab
  /\ star' = [at |-> "sent", p |-> p, want |-> ~entry[tab].data[p].featured, k |-> "ALL",
              sure |-> ~behind[tab] /\ bulk = NoBulk]
  /\ UNCHANGED <<product, tab, selected, bulk, behind, meant, loadVars>>

(* AdminProductFeatureView *)
StarHandled ==
  /\ star.at = "sent"
  /\ product' = [product EXCEPT ![star.p].featured = ~@]
  /\ meant' = (meant /\ (star.sure => product'[star.p].featured = star.want))
  /\ star' = [star EXCEPT !.at = "done", !.want = FALSE, !.sure = FALSE]
  /\ UNCHANGED <<tab, selected, bulk, behind, loadVars>>

ClickBulk(set) ==
  /\ bulk = NoBulk /\ selected # {}
  /\ bulk' = [at |-> "sent", slugs |-> selected, set |-> set]
  /\ star' = [star EXCEPT !.sure = FALSE]
  /\ UNCHANGED <<product, tab, selected, behind, meant, loadVars>>

(* bulk_update_products *)
BulkHandled ==
  /\ bulk.at = "sent"
  /\ product' = [p \in Slugs |-> IF p \notin bulk.slugs THEN product[p]
       ELSE [f \in DOMAIN product[p] |-> IF f \in DOMAIN bulk.set THEN bulk.set[f] ELSE product[p][f]]]
  /\ bulk' = [bulk EXCEPT !.at = "done"]
  /\ UNCHANGED <<tab, selected, star, behind, meant, loadVars>>

AllBehind == behind' = [k \in Tabs |-> TRUE]

(* another admin, a supplier, or a call of this page made before it was     *)
(* left.  Bound: as of this page, to ARCHIVED                               *)
ProductElsewhere(p) ==
  /\ \/ product' = [product EXCEPT ![p].featured = ~@]
     \/ product[p].status = "ACTIVE" /\ product' = [product EXCEPT ![p].status = "ARCHIVED"]
  /\ star' = [star EXCEPT !.sure = FALSE]
  /\ Changed(Tabs) /\ AllBehind
  /\ UNCHANGED <<tab, selected, bulk, meant, entry>>

(* The page is left and opened again, with its controls free: the calls it  *)
(* made go on, from here as if somebody else had made them.  (That their    *)
(* answers ask for the tabs again is as Age and Focus.)                     *)
LeaveProducts ==
  /\ tab' = "ALL" /\ selected' = {} /\ star' = NoStar /\ bulk' = NoBulk
  /\ Shows("ALL")
  /\ IF star.at = "done" \/ bulk.at = "done"
     THEN Changed(Tabs) /\ AllBehind
     ELSE /\ UNCHANGED untold
          /\ behind' = [k \in Tabs |-> behind[k] \/ (star.at = "settling" /\ star.k = k)]
  /\ UNCHANGED <<product, meant>>

(* the wrong way: only the tab shown is asked for again *)
RefreshesTab(t) == {t}
(* ['admin', 'products'] is a prefix of every tab's key *)
RefreshesTabs(t) == Tabs

(* the wrong way: the star does not wait for the tab *)
StarAnswered(c, t) == NoStar
StarSettles(c, t) == [c EXCEPT !.at = "settling", !.k = t]

StarSucceeded ==
  /\ star.at = "done"
  /\ star' = StarSettles(star, tab)
  /\ Invalidate(RefreshesTabs(tab), {tab})
  /\ behind' = [k \in Tabs |-> behind[k] \/ k # tab]
  /\ UNCHANGED <<product, tab, selected, bulk, meant>>

BulkSucceeded ==
  /\ bulk.at = "done"
  /\ bulk' = NoBulk /\ selected' = {}
  /\ Invalidate(RefreshesTabs(tab), {tab}) /\ AllBehind
  /\ UNCHANGED <<product, tab, star, meant>>

(* refused, or never heard of again *)
StarFails ==
  /\ star.at \in {"sent", "done"} /\ star' = NoStar
  /\ IF star.at = "done" THEN Changed(Tabs) /\ AllBehind ELSE UNCHANGED <<untold, behind>>
  /\ UNCHANGED <<product, tab, selected, bulk, meant, entry>>

BulkFails ==
  /\ bulk # NoBulk /\ bulk' = NoBulk
  /\ IF bulk.at = "done" THEN Changed(Tabs) /\ AllBehind ELSE UNCHANGED <<untold, behind>>
  /\ UNCHANGED <<product, tab, selected, star, meant, entry>>

-----------------------------------------------------------------------------
ProductsStart ==
  /\ product \in [Slugs -> {x \in Product : ~x.featured}]
  /\ tab = "ALL" /\ selected = {}
  /\ star = NoStar /\ bulk = NoBulk
  /\ behind = [k \in Tabs |-> FALSE] /\ meant = TRUE

ProductsInit == ProductsStart /\ LoadingInit(Tabs, {"ALL"})

ProductsNext ==
  \/ \E k \in Tabs : OpenTab(k) \/ ProductsLoad(k)
  \/ \E p \in Slugs : ClickStar(p) \/ ProductElsewhere(p)
  \/ Tick \/ LeaveProducts \/ StarHandled \/ StarSucceeded \/ StarFails
  \/ \E set \in Sets : ClickBulk(set)
  \/ BulkHandled \/ BulkSucceeded \/ BulkFails

ProductsSpec == ProductsInit /\ [][ProductsNext]_productVars

-----------------------------------------------------------------------------
(* Properties                                                              *)

(* Every variable has its type. *)
ProductsTypeOK ==
  /\ product \in [Slugs -> Product] /\ tab \in Tabs /\ selected \subseteq Slugs
  /\ star \in Star \cup {NoStar}
  /\ bulk \in Bulk \cup {NoBulk}
  /\ behind \in [Tabs -> BOOLEAN] /\ meant \in BOOLEAN
  /\ LoadingTypeOK(Tabs, ProductsData)

(* A star does what it offered: clicking it twice in a row, as quickly as   *)
(* the page allows, features and unfeatures the product.  Excused: a bulk   *)
(* change or someone else's was made meanwhile or was not heard of, the tab *)
(* was changed to one that still shows what was before, or reading it       *)
(* failed.  A page left and opened again waits neither for its calls, which *)
(* count as someone else's, nor for the tab they asked for.                 *)
StarMeans == meant

(* Every tab, when shown as fresh, is what the service has, whichever tab   *)
(* was on the page when the change was made - except after changes made     *)
(* elsewhere, lost replies and changes that met a load under way.           *)
ProductsFollow == \A k \in Tabs :
  Fresh(k) /\ ~untold[k] /\ star.at # "done" /\ (bulk = NoBulk \/ bulk.at = "sent")
  => entry[k].data = ProductsTruth(k)
=============================================================================
