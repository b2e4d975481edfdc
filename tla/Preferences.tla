------------------------------ MODULE Preferences ------------------------------
(***************************************************************************)
(* The e-mail preferences page: a switch per kind of e-mail.  A success    *)
(* puts the answer itself into the cache; it neither asks again nor drops  *)
(* a request that is under way.                                            *)
(***************************************************************************)
EXTENDS Loading

CONSTANT Kinds   \* of e-mail

VARIABLES
  wanted,    \* wanted[p]: the service's NotificationPreference
  switch,    \* the call: [at, p, to, reply]
  onPage     \* the preferences are on the page

preferenceVars == <<wanted, switch, onPage, loadVars>>

NoSwitch == [at |-> "idle"]
Switch == [at : {"sent", "done"}, p : Kinds, to : BOOLEAN, reply : [Kinds -> BOOLEAN]]

OpenPreferences ==
  /\ onPage' = ~onPage
  /\ IF onPage THEN UNCHANGED entry ELSE Shows("prefs")
  /\ UNCHANGED <<wanted, switch, untold>>

PreferencesLoad ==
  /\ Answer("prefs", wanted) \/ Ends("prefs") \/ Age("prefs") \/ (onPage /\ Focus("prefs"))
  /\ UNCHANGED <<wanted, switch, onPage>>

(* all switches are disabled while one call is under way.  Bound: also     *)
(* after the page was left and opened again                                *)
Flip(p) ==
  /\ onPage /\ Has("prefs") /\ switch = NoSwitch
  /\ switch' = [at |-> "sent", p |-> p, to |-> ~entry["prefs"].data[p], reply |-> wanted]
  /\ UNCHANGED <<wanted, onPage, loadVars>>

(* the PATCH writes one field and answers with all of them *)
FlipHandled ==
  /\ switch # NoSwitch /\ switch.at = "sent"
  /\ wanted' = [wanted EXCEPT ![switch.p] = switch.to]
  /\ switch' = [switch EXCEPT !.at = "done", !.reply = wanted']
  /\ UNCHANGED <<onPage, loadVars>>

(* another device *)
FlippedElsewhere(p) ==
  /\ switch = NoSwitch \/ switch.at = "sent"   \* bound: not before its reply
  /\ wanted' = [wanted EXCEPT ![p] = ~@]
  /\ Changed({"prefs"})
  /\ UNCHANGED <<switch, onPage, entry>>

Puts(old, c) == c.reply

(* setQueryData; an answer read before the change may still come *)
FlipSucceeded ==
  LET e == entry["prefs"]
  IN /\ switch # NoSwitch /\ switch.at = "done"
     /\ switch' = NoSwitch
     /\ entry' = [entry EXCEPT !["prefs"].data = Puts(@, switch), !["prefs"].stale = FALSE]
     /\ untold' = [untold EXCEPT !["prefs"] = (e.fetch = "read" /\ e.got # switch.reply)]
     /\ UNCHANGED <<wanted, onPage>>

FlipFails ==
  /\ switch # NoSwitch
  /\ switch' = NoSwitch
  /\ Changed(IF switch.at = "done" THEN {"prefs"} ELSE {})
  /\ UNCHANGED <<wanted, onPage, entry>>

PreferencesStart ==
  /\ wanted = [p \in Kinds |-> TRUE]
  /\ switch = NoSwitch /\ onPage = TRUE

PreferencesInit == PreferencesStart /\ LoadingInit({"prefs"}, {"prefs"})

PreferencesNext ==
  \/ OpenPreferences \/ PreferencesLoad \/ FlipHandled \/ FlipSucceeded \/ FlipFails
  \/ \E p \in Kinds : Flip(p) \/ FlippedElsewhere(p)

PreferencesSpec == PreferencesInit /\ [][PreferencesNext]_preferenceVars

(* Every variable has its type. *)
PreferencesTypeOK ==
  /\ wanted \in [Kinds -> BOOLEAN] /\ switch \in Switch \cup {NoSwitch} /\ onPage \in BOOLEAN
  /\ LoadingTypeOK({"prefs"}, LAMBDA k : [Kinds -> BOOLEAN])

(* The switches shown as fresh are what the service will go by, although a  *)
(* request under way is not dropped when a call's answer is put in the      *)
(* cache - except when that request was answered before the change, a reply *)
(* was lost, or another device made the change.                             *)
PreferencesFollow ==
  Fresh("prefs") /\ ~untold["prefs"] /\ (switch = NoSwitch \/ switch.at = "sent")
  => entry["prefs"].data = wanted
=============================================================================
