------------------------------ MODULE QueryCache ------------------------------
(***************************************************************************)
(* One entry of the query cache every page of the storefront reads the     *)
(* service through (TanStack Query, set up in providers/query-provider).   *)
(*                                                                         *)
(* An entry outlives the page that shows it.  It is asked for again when a *)
(* page that shows it opens and it is stale, and when a change of the page *)
(* invalidates it.                                                         *)
(***************************************************************************)
CONSTANT NoData   \* nothing loaded yet

Entry(Data) == [data : Data \cup {NoData}, stale : BOOLEAN,
                fetch : {"idle", "sent", "read"}, got : Data \cup {NoData}]

Empty == [data |-> NoData, stale |-> TRUE, fetch |-> "idle", got |-> NoData]

(* an observer mounts, or its query is enabled, or the window gets focus *)
Observed(e) ==
  IF e.fetch = "idle" /\ (e.stale \/ e.data = NoData) THEN [e EXCEPT !.fetch = "sent"] ELSE e

(* the service answers from the state it is in now *)
ReadAs(e, value) == [e EXCEPT !.fetch = "read", !.got = value]

Loaded(e) == [data |-> e.got, stale |-> FALSE, fetch |-> "idle", got |-> NoData]

(* given up after the one retry: what was shown is still shown *)
LoadFailed(e) == [e EXCEPT !.fetch = "idle", !.got = NoData]

(* staleTime has passed *)
Aged(e) == [e EXCEPT !.stale = TRUE]

(* invalidateQueries: an entry on the page is asked for again, a request    *)
(* under way is dropped for a new one.  But the first load of an entry is   *)
(* kept, and so is a request nobody on the page waits for: what it brings   *)
(* counts as fresh                                                          *)
Restarts(e, shown) == shown /\ (e.fetch = "idle" \/ e.data # NoData)
Invalidated(e, shown) ==
  IF Restarts(e, shown) THEN [e EXCEPT !.stale = TRUE, !.fetch = "sent", !.got = NoData]
  ELSE [e EXCEPT !.stale = TRUE]

(* the answer on its way may be older than the change that invalidates *)
KeepsOld(e, shown) == e.fetch # "idle" /\ ~Restarts(e, shown)
=============================================================================
