-------------------------------- MODULE Banners --------------------------------
(***************************************************************************)
(* The admin's page of banners: a row's switch sends is_active alone, the  *)
(* form of a banner sends every field, as the row showed them when it      *)
(* opened.  One mutation object makes both kinds of update.  Of the fields *)
(* only the one that both kinds write is kept.                             *)
(***************************************************************************)
EXTENDS Loading

CONSTANTS
  BannerIds,
  NewBanner,     \* what the form of a new one is opened for
  Edited,        \* bound: the banners that are changed; others are only made
  BannerSlots    \* bound: updates under way together

VARIABLES
  banner,      \* banner[b]: [at, active]
  editor,       \* the form: its banner and its "Active" box.  keeps: the box
               \* is untouched, and was read since the last change
  update,      \* update[t]: the calls of updateMut.  last: isPending speaks of
               \* this one.  keeps: of its form, and nothing crossed it
  creating,    \* the call of createMut
  deleting,    \* deleting[b]: the call of deleteMut
  behindList   \* the list may show what was before a change
bannerVars == <<banner, editor, update, creating, deleting, behindList>>
bannersVars == <<bannerVars, loadVars>>

NoEditor == [at |-> "closed"]
Form(b, active, keeps) == [at |-> "open", b |-> b, active |-> active, keeps |-> keeps]
NoUpdate == [at |-> "idle"]

Rows == IF Has("banners")
        THEN {b \in BannerIds : entry["banners"].data[b].at = "there"} ELSE {}
Shown(b) == entry["banners"].data[b].active
Under(b) == {t \in BannerSlots : update[t] # NoUpdate /\ update[t].b = b}
CannotSave == creating # "idle" \/ \E t \in BannerSlots : update[t] # NoUpdate /\ update[t].last

-----------------------------------------------------------------------------
BannersLoad ==
  /\ \/ (Answer("banners", banner) \/ Age("banners") \/ Focus("banners"))
        /\ UNCHANGED behindList
     \/ Ends("banners")
        /\ behindList' = (behindList /\ (entry'["banners"].stale \/ untold["banners"]))
  /\ UNCHANGED <<banner, editor, update, creating, deleting>>

(* "New banner", the pencil, the inputs and "Cancel"; the form covers the   *)
(* page.  Bound: a new banner is made active                                *)
UseForm ==
  /\ \/ editor = NoEditor /\ editor' = Form(NewBanner, TRUE, FALSE)
     \/ /\ editor = NoEditor
        /\ \E b \in Rows \cap Edited : editor' = Form(b, Shown(b), ~behindList)
     \/ editor # NoEditor /\ editor' = NoEditor
     \/ /\ editor # NoEditor /\ editor.b # NewBanner
        /\ editor' = [editor EXCEPT !.active = ~@, !.keeps = FALSE]
  /\ UNCHANGED <<banner, update, creating, deleting, behindList, loadVars>>

(* Bound: banners are made and deleted one at a time                       *)
Alone == creating = "idle" /\ \A b \in BannerIds : deleting[b] = "idle"

Updates(b, active, keeps) ==
  /\ \E t \in BannerSlots : update[t] = NoUpdate
  /\ LET t == CHOOSE t \in BannerSlots : update[t] = NoUpdate
     IN update' = [u \in BannerSlots |->
          IF u = t THEN [at |-> "sent", b |-> b, active |-> active, last |-> TRUE,
                         keeps |-> keeps /\ Under(b) = {}]
          ELSE IF update[u] = NoUpdate THEN NoUpdate
          ELSE [update[u] EXCEPT !.last = FALSE, !.keeps = @ /\ update[u].b # b]]

Toggle(b) ==
  /\ editor = NoEditor /\ b \in Rows \cap Edited
  /\ Updates(b, ~Shown(b), FALSE)
  /\ UNCHANGED <<banner, editor, creating, deleting, behindList, loadVars>>

(* handleSave *)
SaveForm ==
  /\ editor # NoEditor /\ ~CannotSave
  /\ IF editor.b = NewBanner
     THEN Alone /\ creating' = "sent" /\ UNCHANGED update
     ELSE Updates(editor.b, editor.active, editor.keeps) /\ UNCHANGED creating
  /\ UNCHANGED <<banner, editor, deleting, behindList, loadVars>>

DeleteBanner(b) ==
  /\ editor = NoEditor /\ b \in Rows \cap Edited /\ Alone
  /\ deleting' = [deleting EXCEPT ![b] = "sent"]
  /\ UNCHANGED <<banner, editor, update, creating, behindList, loadVars>>

(* the three views of the service; an update of a deleted banner is not     *)
(* found                                                                    *)
BannerUpdated(t) ==
  LET b == update[t].b IN
  /\ update[t].at = "sent" /\ banner[b].at = "there"
  /\ banner' = [banner EXCEPT ![b].active = update[t].active]
  /\ update' = [update EXCEPT ![t].at = "done"]
  /\ UNCHANGED <<editor, creating, deleting, behindList, loadVars>>

BannerCreated ==
  /\ creating = "sent"
  /\ \E b \in BannerIds :
       banner[b].at = "none" /\ banner' = [banner EXCEPT ![b] = [at |-> "there", active |-> TRUE]]
  /\ creating' = "done"
  /\ UNCHANGED <<editor, update, deleting, behindList, loadVars>>

BannerDeleted(b) ==
  /\ deleting[b] = "sent" /\ banner[b].at = "there"
  /\ banner' = [banner EXCEPT ![b] = [at |-> "gone", active |-> FALSE]]
  /\ deleting' = [deleting EXCEPT ![b] = "done"]
  /\ UNCHANGED <<editor, update, creating, behindList, loadVars>>

(* the wrong way: the form stays when the list is asked for again           *)
LeavesForm(t) == FALSE
(* any update that succeeds closes the form                                 *)
Closes(t) == TRUE

Refetch == behindList' = TRUE /\ Invalidate({"banners"}, {"banners"})

UpdateSucceeded(t) ==
  /\ update[t].at = "done"
  /\ update' = [update EXCEPT ![t] = NoUpdate]
  /\ editor' = IF Closes(t) THEN NoEditor ELSE editor
  /\ Refetch
  /\ UNCHANGED <<banner, creating, deleting>>

CreateSucceeded ==
  /\ creating = "done"
  /\ creating' = "idle" /\ editor' = NoEditor
  /\ Refetch
  /\ UNCHANGED <<banner, update, deleting>>

DeleteSucceeded(b) ==
  /\ deleting[b] = "done"
  /\ deleting' = [deleting EXCEPT ![b] = "idle"]
  /\ Refetch
  /\ UNCHANGED <<banner, editor, update, creating>>

(* refused, or never heard of again *)
Unheard == Changed({"banners"}) /\ behindList' = TRUE
           /\ editor' = IF editor = NoEditor THEN editor ELSE [editor EXCEPT !.keeps = FALSE]
BannerCallFails ==
  /\ \/ /\ \E t \in BannerSlots :
             /\ update[t] # NoUpdate /\ update' = [update EXCEPT ![t] = NoUpdate]
             /\ IF update[t].at = "done" THEN Unheard ELSE UNCHANGED <<untold, behindList, editor>>
        /\ UNCHANGED <<creating, deleting>>
     \/ /\ creating # "idle" /\ creating' = "idle"
        /\ IF creating = "done" THEN Unheard ELSE UNCHANGED <<untold, behindList, editor>>
        /\ UNCHANGED <<update, deleting>>
     \/ /\ \E b \in BannerIds :
             /\ deleting[b] # "idle" /\ deleting' = [deleting EXCEPT ![b] = "idle"]
             /\ IF deleting[b] = "done" THEN Unheard ELSE UNCHANGED <<untold, behindList, editor>>
        /\ UNCHANGED <<update, creating>>
  /\ UNCHANGED <<banner, entry>>

(* another admin, or a call of this page made before it was left *)
BannerElsewhere(b) ==
  /\ \/ banner[b].at = "none" /\ banner' = [banner EXCEPT ![b] = [at |-> "there", active |-> TRUE]]
     \/ /\ b \in Edited /\ banner[b].at = "there"
        /\ \/ banner' = [banner EXCEPT ![b] = [at |-> "there", active |-> ~@.active]]
           \/ banner' = [banner EXCEPT ![b] = [at |-> "gone", active |-> FALSE]]
  /\ update' = [t \in BannerSlots |-> IF t \in Under(b) THEN [update[t] EXCEPT !.keeps = FALSE] ELSE update[t]]
  /\ Unheard
  /\ UNCHANGED <<creating, deleting, entry>>

(* The page is left and opened again: its calls go on, from here as if      *)
(* another admin had made them.  (That their answers ask for the list again *)
(* is as Age and Focus; none closes a form of the page opened since.)       *)
LeaveBanners ==
  /\ editor' = NoEditor /\ update' = [t \in BannerSlots |-> NoUpdate]
  /\ creating' = "idle" /\ deleting' = [b \in BannerIds |-> "idle"]
  /\ Shows("banners")
  /\ IF \/ \E t \in BannerSlots : update[t].at = "done"
        \/ creating = "done" \/ \E b \in BannerIds : deleting[b] = "done"
     THEN Changed({"banners"}) /\ behindList' = TRUE ELSE UNCHANGED <<untold, behindList>>
  /\ UNCHANGED banner

-----------------------------------------------------------------------------
(* Bound: the last banner is still to be made *)
BannersStart ==
  /\ \E b \in BannerIds \ Edited :
       banner = [c \in BannerIds |-> [at |-> IF c = b THEN "none" ELSE "there", active |-> TRUE]]
  /\ editor = NoEditor /\ update = [t \in BannerSlots |-> NoUpdate]
  /\ creating = "idle" /\ deleting = [b \in BannerIds |-> "idle"] /\ behindList = FALSE

BannersInit == BannersStart /\ LoadingInit({"banners"}, {"banners"})

BannersNext ==
  \/ BannersLoad \/ UseForm \/ SaveForm \/ LeaveBanners
  \/ \E b \in BannerIds : Toggle(b) \/ DeleteBanner(b) \/ BannerDeleted(b) \/ DeleteSucceeded(b)
       \/ BannerElsewhere(b)
  \/ \E t \in BannerSlots : BannerUpdated(t) \/ UpdateSucceeded(t)
  \/ BannerCreated \/ CreateSucceeded \/ BannerCallFails

BannersSpec == BannersInit /\ [][BannersNext]_bannersVars

-----------------------------------------------------------------------------
(* Every variable has its type. *)
BannersTypeOK ==
  LET Banner == [at : {"none", "there", "gone"}, active : BOOLEAN]
      Update == [at : {"sent", "done"}, b : BannerIds,
                 active : BOOLEAN, last : BOOLEAN, keeps : BOOLEAN]
      OpenForm == [at : {"open"}, b : BannerIds \cup {NewBanner}, active : BOOLEAN,
                   keeps : BOOLEAN]
  IN /\ banner \in [BannerIds -> Banner]
     /\ editor \in OpenForm \cup {NoEditor}
     /\ update \in [BannerSlots -> Update \cup {NoUpdate}]
     /\ creating \in {"idle", "sent", "done"}
     /\ deleting \in [BannerIds -> {"idle", "sent", "done"}] /\ behindList \in BOOLEAN
     /\ LoadingTypeOK({"banners"}, LAMBDA k : [BannerIds -> Banner])

(* A form saved without a touch on its "Active" box leaves the banner on or *)
(* off as it was, although it sends the box as the row showed it: a switch  *)
(* thrown just before the form was opened is not thrown back - unless the   *)
(* row was shown before the list came back with a change, two updates of    *)
(* the banner were under way at once, or it was changed since by another    *)
(* admin or by a call of this page made before it was left, which closes no *)
(* form of the page opened again.                                           *)
FormKeepsSwitch == [][\A t \in BannerSlots :
  LET u == update[t]
  IN u # NoUpdate /\ u.at = "sent" /\ update'[t].at = "done" /\ u.keeps
       => banner'[u.b].active = banner[u.b].active]_bannersVars
=============================================================================
