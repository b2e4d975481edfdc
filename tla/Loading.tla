-------------------------------- MODULE Loading --------------------------------
(***************************************************************************)
(* What the pages of one desk have loaded: an entry of the query cache for *)
(* each key, and whether the page was told of the last change of what the  *)
(* service would answer.                                                   *)
(***************************************************************************)
EXTENDS QueryCache

VARIABLES
  entry,     \* entry[k]: the query cache
  untold     \* untold[k]: something changed and nothing will tell the page

loadVars == <<entry, untold>>

Has(k) == k \in DOMAIN entry /\ entry[k].data # NoData
Fresh(k) == Has(k) /\ ~entry[k].stale

(* with none of the entries loaded, and those in shown asked for *)
LoadingInit(keys, shown) ==
  /\ entry = [k \in keys |-> IF k \in shown THEN Observed(Empty) ELSE Empty]
  /\ untold = [k \in keys |-> FALSE]

(* a load that fails after all leaves the entry as it was: one put in place *)
(* by the page meanwhile counts as fresh, and is not told by this answer    *)
Answer(k, value) ==
  /\ entry[k].fetch = "sent"
  /\ entry' = [entry EXCEPT ![k] = ReadAs(@, value)]
  /\ untold' = [untold EXCEPT ![k] = @ /\ ~entry[k].stale]

(* the answer arrives, or the request is given up *)
Ends(k) ==
  /\ \/ entry[k].fetch = "read" /\ entry' = [entry EXCEPT ![k] = Loaded(@)]
     \/ entry[k].fetch # "idle" /\ entry' = [entry EXCEPT ![k] = LoadFailed(@)]
  /\ UNCHANGED untold

(* a minute later, or back from another window *)
Age(k) ==
  /\ Fresh(k)
  /\ entry' = [entry EXCEPT ![k] = Aged(@)]
  /\ UNCHANGED untold

(* a page that shows it mounts or gets focus *)
Shows(k) == entry' = [entry EXCEPT ![k] = Observed(@)]
Focus(k) == Shows(k) /\ entry' # entry /\ UNCHANGED untold

(* invalidateQueries, with the entries in shown on the page *)
Invalidate(ks, shown) ==
  /\ entry' = [k \in DOMAIN entry |->
       IF k \in ks THEN Invalidated(entry[k], k \in shown) ELSE entry[k]]
  /\ untold' = [k \in DOMAIN entry |->
       untold[k] \/ (k \in ks /\ KeepsOld(entry[k], k \in shown))]

(* the service would answer otherwise: changed, and not told by this page *)
Changed(ks) == untold' = [k \in DOMAIN entry |-> untold[k] \/ k \in ks]

LoadingTypeOK(Keys, Data(_)) ==
  /\ DOMAIN entry = Keys /\ \A k \in Keys : entry[k] \in Entry(Data(k))
  /\ untold \in [Keys -> BOOLEAN]
=============================================================================
