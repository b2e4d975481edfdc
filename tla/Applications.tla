------------------------------ MODULE Applications ------------------------------
(***************************************************************************)
(* The admin's page of suppliers: applications are approved or rejected    *)
(* from a panel under their row, commission rates edited in it.            *)
(*                                                                         *)
(* The service takes any decision on any supplier and any rate after any   *)
(* other: what keeps an application decided once is the page.              *)
(***************************************************************************)
EXTENDS Loading

CONSTANTS
  Applicants,
  Rates,
  Rated,       \* bound: the suppliers whose rate is edited
  RateSlots    \* bound: calls that set a rate under way together

ASSUME ApplicationsAssumption == Rated \subseteq Applicants

VARIABLES
  applicant,   \* applicant[s]: [status, rate]
  panel,       \* the decision to confirm: [s, to, sure]
  ruling,      \* ruling[to]: the call of that mutation.  sure: it was confirmed
               \* from a panel opened on a list read since the last change
  outdated,    \* the list may show what was before a change
  cell,        \* cell[s]: the rate being edited, or NotEdited
  saving,      \* the calls that set a rate.  here: its cell is still mounted
  entered,     \* entered[s]: the rate last entered
  muddled      \* muddled[s]: two rates of s crossed, or one was refused
rulingVars == <<panel, ruling, outdated>>
rateVars == <<cell, saving, entered, muddled>>
applicationVars == <<applicant, rulingVars, rateVars, loadVars>>

Decided == {"APPROVED", "REJECTED"}
Applicant == [status : Decided \cup {"PENDING"}, rate : Rates]
NoPanel == [to |-> "none"]
NoRuling == [at |-> "idle", sure |-> FALSE]
NotEdited == "not edited"
NoSaving == [at |-> "idle"]
Saving == [at : {"sent", "done"}, s : Applicants, rate : Rates, here : BOOLEAN]

InList == IF Has("applicants") THEN Applicants ELSE {}
Listed(s) == entry["applicants"].data[s]

-----------------------------------------------------------------------------
ApplicationsLoad ==
  /\ \/ (Answer("applicants", applicant) \/ Age("applicants") \/ Focus("applicants"))
        /\ UNCHANGED outdated
     \/ Ends("applicants")
        /\ outdated' = (outdated /\ (entry'["applicants"].stale \/ untold["applicants"]))
  /\ UNCHANGED <<applicant, panel, ruling, rateVars>>

(* "Approve" and "Reject" of a row shown as pending, and "Cancel"; the      *)
(* panel stays when a later load shows the row as decided                   *)
UsePanel ==
  /\ \/ panel # NoPanel /\ panel' = NoPanel
     \/ \E s \in InList, to \in Decided :
          /\ Listed(s).status = "PENDING"
          /\ panel' = [s |-> s, to |-> to, sure |-> ~outdated]
          /\ panel' # panel
  /\ UNCHANGED <<applicant, ruling, outdated, rateVars, loadVars>>

(* the wrong way: each decision waits for its own mutation only *)
FreeToRule(to) == ruling[to] = NoRuling
(* "Confirm" is disabled while either mutation of this page is pending *)
CanConfirm(to) == ruling = [d \in Decided |-> NoRuling]

ConfirmRuling(to) ==
  /\ panel # NoPanel /\ panel.s \in InList /\ panel.to = to /\ CanConfirm(to)
  /\ ruling' = [ruling EXCEPT ![to] = [at |-> "sent", s |-> panel.s, sure |-> panel.sure]]
  /\ UNCHANGED <<applicant, panel, outdated, rateVars, loadVars>>

(* approve_supplier, reject_supplier: whatever the status is *)
RulingHandled(to) ==
  /\ ruling[to].at = "sent"
  /\ applicant' = [applicant EXCEPT ![ruling[to].s].status = to]
  /\ ruling' = [ruling EXCEPT ![to].at = "done"]
  /\ UNCHANGED <<panel, outdated, rateVars, loadVars>>

(* the panel closes, whichever row it is open under, and the list is asked  *)
(* for again; nothing waits for it                                          *)
RulingSucceeded(to) ==
  /\ ruling[to].at = "done"
  /\ ruling' = [ruling EXCEPT ![to] = NoRuling]
  /\ panel' = NoPanel /\ outdated' = TRUE
  /\ Invalidate({"applicants"}, {"applicants"})
  /\ UNCHANGED <<applicant, rateVars>>

Unsure(p) == IF p = NoPanel THEN p ELSE [p EXCEPT !.sure = FALSE]

(* refused, or never heard of again: the panel stays *)
RulingFails(to) ==
  /\ ruling[to].at \in {"sent", "done"}
  /\ ruling' = [ruling EXCEPT ![to] = NoRuling]
  /\ IF ruling[to].at = "done"
     THEN Changed({"applicants"}) /\ outdated' = TRUE /\ panel' = Unsure(panel)
     ELSE UNCHANGED <<untold, outdated, panel>>
  /\ UNCHANGED <<applicant, entry, rateVars>>

(* The page is left and opened again, with "Confirm" free: its calls go on, *)
(* from here as if another admin had made them.  (That their answers ask    *)
(* for the list again is as Age and Focus.)                                 *)
LeaveApplications ==
  /\ panel' = NoPanel /\ ruling' = [to \in Decided |-> NoRuling]
  /\ Shows("applicants")
  /\ IF \E to \in Decided : ruling[to].at = "done"
     THEN Changed({"applicants"}) /\ outdated' = TRUE ELSE UNCHANGED <<untold, outdated>>
  /\ UNCHANGED <<applicant, rateVars>>

(* another admin, or a call of this page made before it was left *)
RuledElsewhere(s) ==
  /\ \E to \in Decided \ {applicant[s].status} :
       applicant' = [applicant EXCEPT ![s].status = to]
  /\ ruling' = [to \in Decided |-> [ruling[to] EXCEPT !.sure = FALSE]]
  /\ outdated' = TRUE /\ panel' = Unsure(panel) /\ Changed({"applicants"})
  /\ UNCHANGED <<entry, rateVars>>

-----------------------------------------------------------------------------
(* CommissionCell                                                          *)

(* the rate, typing, and its cross; another tab of the list and back mounts *)
(* the rows anew                                                            *)
EditRate(s) ==
  /\ \/ /\ cell[s] = NotEdited /\ s \in InList
        /\ cell' = [cell EXCEPT ![s] = Listed(s).rate]
        /\ UNCHANGED saving
     \/ /\ cell[s] # NotEdited
        /\ \E rate \in Rates \ {cell[s]} : cell' = [cell EXCEPT ![s] = rate]
        /\ UNCHANGED saving
     \/ /\ cell[s] # NotEdited
        /\ cell' = [cell EXCEPT ![s] = NotEdited]
        /\ \/ UNCHANGED saving
           \/ saving' = [t \in RateSlots |->
                IF saving[t] # NoSaving /\ saving[t].s = s
                THEN [saving[t] EXCEPT !.here = FALSE] ELSE saving[t]]
  /\ UNCHANGED <<applicant, rulingVars, entered, muddled, loadVars>>

Entering(s) == {t \in RateSlots : saving[t] # NoSaving /\ saving[t].s = s}

(* handleSave: its button is disabled while a call is pending, Enter is not *)
SaveRate(s) ==
  /\ cell[s] # NotEdited
  /\ \E t \in RateSlots : saving[t] = NoSaving
  /\ saving' = [saving EXCEPT ![CHOOSE t \in RateSlots : saving[t] = NoSaving] =
                  [at |-> "sent", s |-> s, rate |-> cell[s], here |-> TRUE]]
  /\ entered' = [entered EXCEPT ![s] = cell[s]]
  /\ muddled' = [muddled EXCEPT ![s] = @ \/ Entering(s) # {}]
  /\ UNCHANGED <<applicant, rulingVars, cell, loadVars>>

(* the wrong way: the rate the row was read with is saved with it *)
SavesWhole(now, t) == Listed(saving[t].s)
(* set_commission_rate: of the row, this field only *)
Saves(now, t) == [now EXCEPT !.rate = saving[t].rate]

RateHandled(t) ==
  /\ saving[t].at = "sent"
  /\ applicant' = [applicant EXCEPT ![saving[t].s] = Saves(@, t)]
  /\ saving' = [saving EXCEPT ![t].at = "done"]
  /\ UNCHANGED <<rulingVars, cell, entered, muddled, loadVars>>

(* onSuccess closes the editor of its cell, whatever has been typed since *)
RateSaved(t) ==
  LET s == saving[t].s
  IN /\ saving[t].at = "done"
     /\ saving' = [saving EXCEPT ![t] = NoSaving]
     /\ cell' = IF saving[t].here THEN [cell EXCEPT ![s] = NotEdited] ELSE cell
     /\ Invalidate({"applicants"}, {"applicants"})
     /\ UNCHANGED <<applicant, rulingVars, entered, muddled>>

RateFails(t) ==
  /\ saving[t] # NoSaving
  /\ saving' = [saving EXCEPT ![t] = NoSaving]
  /\ IF saving[t].at = "done"
     THEN Changed({"applicants"}) /\ UNCHANGED muddled
     ELSE muddled' = [muddled EXCEPT ![saving[t].s] = TRUE] /\ UNCHANGED untold
  /\ UNCHANGED <<applicant, rulingVars, cell, entered, entry>>

-----------------------------------------------------------------------------
ApplicationsStart ==
  /\ applicant \in [Applicants -> {x \in Applicant : x.rate = CHOOSE r \in Rates : TRUE}]
  /\ panel = NoPanel /\ ruling = [to \in Decided |-> NoRuling] /\ outdated = FALSE
  /\ cell = [s \in Applicants |-> NotEdited] /\ saving = [t \in RateSlots |-> NoSaving]
  /\ entered = [s \in Applicants |-> applicant[s].rate]
  /\ muddled = [s \in Applicants |-> FALSE]

ApplicationsInit == ApplicationsStart /\ LoadingInit({"applicants"}, {"applicants"})

(* Bound: nobody rules on an application while a rate is edited *)
RulingsNext ==
  \/ ApplicationsLoad \/ UsePanel \/ LeaveApplications
  \/ \E to \in Decided :
       ConfirmRuling(to) \/ RulingHandled(to) \/ RulingSucceeded(to) \/ RulingFails(to)
  \/ \E s \in Applicants : RuledElsewhere(s)

RatesNext ==
  \/ ApplicationsLoad
  \/ \E s \in Rated : EditRate(s) \/ SaveRate(s)
  \/ \E t \in RateSlots : RateHandled(t) \/ RateSaved(t) \/ RateFails(t)

ApplicationsSpec == ApplicationsInit /\ [][RulingsNext \/ RatesNext]_applicationVars

-----------------------------------------------------------------------------
(* Properties                                                              *)

(* Every variable has its type. *)
ApplicationsTypeOK ==
  /\ applicant \in [Applicants -> Applicant]
  /\ panel \in [s : Applicants, to : Decided, sure : BOOLEAN] \cup {NoPanel}
  /\ ruling \in [Decided -> [at : {"sent", "done"}, s : Applicants, sure : BOOLEAN] \cup {NoRuling}]
  /\ outdated \in BOOLEAN
  /\ cell \in [Applicants -> Rates \cup {NotEdited}]
  /\ saving \in [RateSlots -> Saving \cup {NoSaving}]
  /\ entered \in [Applicants -> Rates] /\ muddled \in [Applicants -> BOOLEAN]
  /\ LoadingTypeOK({"applicants"}, LAMBDA k : [Applicants -> Applicant])

(* A decision that is confirmed finds the application undecided, although   *)
(* the service does not ask and another decision may have been under way -  *)
(* unless its panel was opened before the list came back with the last one, *)
(* or the application was decided since by another admin or by a call of    *)
(* this page made before it was left: the page opened again does not wait   *)
(* for that one.                                                            *)
DecidedWhilePending == [][\A to \in Decided :
  ruling[to].sure /\ ruling'[to].at = "done" /\ ruling[to].at = "sent"
    => applicant[ruling[to].s].status = "PENDING"]_applicationVars

(* The rate is the one entered last, unless two were entered at once, or    *)
(* one was refused.                                                         *)
RateAsEntered == \A s \in Applicants :
  Entering(s) = {} /\ ~muddled[s] => applicant[s].rate = entered[s]
=============================================================================
