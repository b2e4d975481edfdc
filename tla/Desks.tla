--------------------------------- MODULE Desks ---------------------------------
(***************************************************************************)
(* The storefront's other pages, one desk at a time: the parts of the      *)
(* service they work on do not touch each other.                           *)
(*                                                                         *)
(* The returns of a sub-order are three desks.  Bound: each has all the    *)
(* calls of one actor crossing, and the other actors one step behind.      *)
(***************************************************************************)
EXTENDS Returns, OrderPage, Addresses, Bell, Preferences, Products, Upload,
        Applications, Banners

AllDesks == {"asking", "deciding", "refunding", "orders", "addresses", "bell",
             "preferences", "products", "uploads", "rulings", "rates", "banners"}

(* there is an admin, who may leave the amount of a refund blank *)
ASSUME DesksAssumption == Calls # {} /\ 0 \in Typed

VARIABLE desk

ownOrders == <<sub, at, socket, pushes, action, form>>
ownAddresses == <<address, task, book, disturbed>>
ownBell == <<note, notice, reading>>
ownPreferences == <<wanted, switch, onPage>>
ownProducts == <<product, tab, selected, star, bulk, behind, meant>>
ownRulings == <<applicant, rulingVars>>
ownAdmin == <<ownRulings, rateVars, bannerVars>>
deskVars == <<desk, retVars, ownOrders, ownAddresses, ownBell, ownPreferences,
              ownProducts, uploadVars, ownAdmin, loadVars>>

(* what each desk begins with; the others rest *)
FirstReturn == CHOOSE r \in ReturnIds : TRUE
Begins ==
  CASE desk = "deciding" -> "REQUESTED" [] desk = "refunding" -> "APPROVED" [] OTHER -> "none"
DesksInit ==
  /\ desk \in AllDesks
  /\ PageStart /\ AddressesStart /\ BellStart /\ PreferencesStart /\ ProductsStart /\ UploadInit
  /\ ApplicationsStart /\ BannersStart
  /\ desk # "orders" => at = "list"
  /\ desk # "rulings" => \A s \in Applicants : applicant[s].status = "PENDING"
  /\ desk # "products" => \A p \in Slugs : product[p].status = "ACTIVE"
  /\ ReturnsInit
  /\ \A r \in ReturnIds : ret[r].st = IF r = FirstReturn THEN Begins ELSE "none"
  /\ payout = IF desk = "refunding" THEN "PAID" ELSE "due"
  /\ desk = "refunding" => ret[FirstReturn].units = 1
  /\ CASE desk = "orders" -> LoadingInit(OrderKeys, {at})
       [] desk = "addresses" -> LoadingInit({"addresses"}, {"addresses"})
       [] desk = "bell" -> LoadingInit(BellKeys, BellKeys)
       [] desk = "preferences" -> LoadingInit({"prefs"}, {"prefs"})
       [] desk = "products" -> LoadingInit(Tabs, {"ALL"})
       [] desk \in {"rulings", "rates"} -> LoadingInit({"applicants"}, {"applicants"})
       [] desk = "banners" -> LoadingInit({"banners"}, {"banners"})
       [] OTHER -> LoadingInit({}, {})

(* a refund without amount, failure or another call *)
RefundsPlainly == LET c == CHOOSE c \in Calls : TRUE IN
  \/ Asking = {} /\ \E r \in ReturnIds : ClaimRefund(c, r, 0)
  \/ call[c] # NoCall /\ (Book(c) \/ Charge(c) \/ Reverse(c) \/ Finish(c))

DecidesPlainly ==
  \/ deciding = {} /\ \E r \in ReturnIds, to \in {"APPROVED", "REJECTED"} : Decide(r, to)
  \/ \E d \in deciding : ReadReturn(d) \/ SaveDecision(d)

ReturnsDesk ==
  \/ desk = "asking" /\ (BuyerNext \/ DecidesPlainly \/ RefundsPlainly)
  \/ desk = "deciding" /\ (SupplierNext \/ RefundsPlainly \/ RefundReported)
  \/ desk = "refunding" /\ (AdminNext \/ RefundReported)

ownOthers == <<ownAddresses, ownBell, ownPreferences, ownProducts, uploadVars, ownAdmin>>
DesksNext ==
  /\ UNCHANGED desk
  /\ \/ ReturnsDesk /\ UNCHANGED <<ownOrders, ownOthers, loadVars>>
     \/ /\ UNCHANGED retVars
        /\ \/ desk = "orders" /\ PageNext /\ UNCHANGED ownOthers
           \/ /\ UNCHANGED <<ownOrders, ownAdmin>>
              /\ \/ desk = "addresses" /\ AddressesNext
                    /\ UNCHANGED <<ownBell, ownPreferences, ownProducts, uploadVars>>
                 \/ desk = "bell" /\ BellNext
                    /\ UNCHANGED <<ownAddresses, ownPreferences, ownProducts, uploadVars>>
                 \/ desk = "preferences" /\ PreferencesNext
                    /\ UNCHANGED <<ownAddresses, ownBell, ownProducts, uploadVars>>
                 \/ desk = "products" /\ ProductsNext
                    /\ UNCHANGED <<ownAddresses, ownBell, ownPreferences, uploadVars>>
                 \/ desk = "uploads" /\ UploadNext
                    /\ UNCHANGED <<ownAddresses, ownBell, ownPreferences, ownProducts, loadVars>>
           \/ /\ UNCHANGED <<ownOrders, ownAddresses, ownBell, ownPreferences, ownProducts, uploadVars>>
              /\ \/ desk = "rulings" /\ RulingsNext /\ UNCHANGED bannerVars
                 \/ desk = "rates" /\ RatesNext /\ UNCHANGED bannerVars
                 \/ desk = "banners" /\ BannersNext /\ UNCHANGED <<ownRulings, rateVars>>

DesksSpec == DesksInit /\ [][DesksNext]_deskVars

(* the desk's own variables, which tell its states apart: the others rest   *)
DeskView == <<desk,
  CASE desk \in {"asking", "deciding", "refunding"} -> retVars
    [] desk = "orders" -> <<ownOrders, loadVars>>
    [] desk = "addresses" -> <<ownAddresses, loadVars>>
    [] desk = "bell" -> <<ownBell, loadVars>>
    [] desk = "preferences" -> <<ownPreferences, loadVars>>
    [] desk = "products" -> <<ownProducts, loadVars>>
    [] desk = "uploads" -> uploadVars
    [] desk \in {"rulings", "rates"} -> <<ownRulings, rateVars, loadVars>>
    [] desk = "banners" -> <<bannerVars, loadVars>> >>

-----------------------------------------------------------------------------
(* Every variable of the desk has its type. *)
DesksTypeOK ==
  /\ desk \in {"asking", "deciding", "refunding"} => ReturnsTypeOK
  /\ desk = "orders" => PageTypeOK
  /\ desk = "addresses" => AddressesTypeOK
  /\ desk = "bell" => BellTypeOK
  /\ desk = "preferences" => PreferencesTypeOK
  /\ desk = "products" => ProductsTypeOK
  /\ desk = "uploads" => UploadTypeOK
  /\ desk \in {"rulings", "rates"} => ApplicationsTypeOK
  /\ desk = "banners" => BannersTypeOK

(* The bell's list and count and the switches of the preferences, shown as  *)
(* fresh, are what the service has, with the excuses that BellFollows and   *)
(* PreferencesFollow name.                                                  *)
NotificationsFollow == BellFollows /\ PreferencesFollow
=============================================================================
