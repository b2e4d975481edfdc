---------------------------------- MODULE Bell ----------------------------------
(***************************************************************************)
(* The bell in the navigation of every page: the notifications and the     *)
(* number of unread ones are two queries; reading, reading all and         *)
(* dismissing ask for both again.  Notifications come in at any time and   *)
(* nothing tells the page; both queries are repeated every minute.         *)
(***************************************************************************)
EXTENDS Naturals, FiniteSets, Loading

CONSTANTS
  Notes,
  NoteSlots    \* bound: calls under way together

ASSUME BellAssumption == IsFiniteSet(Notes)

VARIABLES
  note,        \* note[n]: "none" (not sent yet), "unread", "read", "gone"
  notice,      \* the calls
  reading      \* "Mark all as read": [at, waits], waits: the queries it waits
               \* for after its success

bellVars == <<note, notice, reading, loadVars>>

BellKeys == {"notes", "unread"}
NoNotice == [op |-> "none"]
Notice == [op : {"read", "dismiss"}, n : Notes, at : {"sent", "done"}]
NotReading == [at |-> "idle", waits |-> {}]
Unread(f) == {n \in Notes : f[n] = "unread"}

(* the list is the first page of them *)
BellTruth(k) == IF k = "notes" THEN note ELSE Cardinality(Unread(note))
BellData(k) == IF k = "notes" THEN [Notes -> {"none", "unread", "read", "gone"}] ELSE 0 .. Cardinality(Notes)

-----------------------------------------------------------------------------
(* refetchInterval is the minute that passes (Age) and then a Focus *)
BellLoads(k) ==
  /\ \/ (Answer(k, BellTruth(k)) \/ Age(k) \/ Focus(k)) /\ UNCHANGED reading
     \/ Ends(k) /\ reading' = IF reading.waits = {k} THEN NotReading
                              ELSE [reading EXCEPT !.waits = @ \ {k}]
  /\ UNCHANGED <<note, notice>>

(* notify, in any of the service's handlers *)
Notified(n) ==
  /\ note[n] = "none"
  /\ note' = [note EXCEPT ![n] = "unread"]
  /\ Changed(BellKeys)
  /\ UNCHANGED <<notice, reading, entry>>

(* a click on a notification shown as unread, and its cross *)
SendNotice(op, n) ==
  /\ Has("notes") /\ entry["notes"].data[n] \in (IF op = "read" THEN {"unread"} ELSE {"unread", "read"})
  /\ \E s \in NoteSlots : notice[s] = NoNotice
  /\ notice' = [notice EXCEPT ![CHOOSE s \in NoteSlots : notice[s] = NoNotice] =
                  [op |-> op, n |-> n, at |-> "sent"]]
  /\ UNCHANGED <<note, reading, loadVars>>

(* mark_as_read and delete_notification, refused for one that is gone *)
NoticeHandled(s) ==
  /\ notice[s] # NoNotice /\ notice[s].at = "sent" /\ note[notice[s].n] # "gone"
  /\ note' = [note EXCEPT ![notice[s].n] = IF notice[s].op = "read" THEN "read" ELSE "gone"]
  /\ notice' = [notice EXCEPT ![s].at = "done"]
  /\ UNCHANGED <<reading, loadVars>>

ReadAll ==
  /\ reading.at = "idle" /\ Has("unread") /\ entry["unread"].data > 0
  /\ reading' = [reading EXCEPT !.at = "sent"]
  /\ UNCHANGED <<note, notice, loadVars>>

(* mark_all_as_read *)
AllRead ==
  /\ reading.at = "sent" /\ reading' = [reading EXCEPT !.at = "done"]
  /\ note' = [n \in Notes |-> IF note[n] = "unread" THEN "read" ELSE note[n]]
  /\ UNCHANGED <<notice, loadVars>>

(* the wrong way: an exact key *)
NotesOnly(op) == {"notes"}
(* ['notifications'] is a prefix of both keys *)
RefreshesBell(op) == BellKeys

NoticeSucceeded(s) ==
  /\ notice[s] # NoNotice /\ notice[s].at = "done"
  /\ notice' = [notice EXCEPT ![s] = NoNotice]
  /\ Invalidate(RefreshesBell(notice[s].op), BellKeys)
  /\ UNCHANGED <<note, reading>>

ReadAllSucceeded ==
  /\ reading.at = "done" /\ reading' = [at |-> "settling", waits |-> RefreshesBell("all")]
  /\ Invalidate(RefreshesBell("all"), BellKeys)
  /\ UNCHANGED <<note, notice>>

(* refused, or never heard of again *)
NoticeFails(s) ==
  /\ notice[s] # NoNotice
  /\ notice' = [notice EXCEPT ![s] = NoNotice]
  /\ Changed(IF notice[s].at = "done" THEN BellKeys ELSE {})
  /\ UNCHANGED <<note, reading, entry>>

ReadAllFails ==
  /\ reading.at \in {"sent", "done"} /\ reading' = NotReading
  /\ Changed(IF reading.at = "done" THEN BellKeys ELSE {})
  /\ UNCHANGED <<note, notice, entry>>

-----------------------------------------------------------------------------
BellStart ==
  /\ note = [n \in Notes |-> "none"]
  /\ notice = [s \in NoteSlots |-> NoNotice] /\ reading = NotReading

BellInit == BellStart /\ LoadingInit(BellKeys, BellKeys)

BellNext ==
  \/ ReadAll \/ AllRead \/ ReadAllSucceeded \/ ReadAllFails
  \/ \E k \in BellKeys : BellLoads(k)
  \/ \E n \in Notes : Notified(n) \/ SendNotice("read", n) \/ SendNotice("dismiss", n)
  \/ \E s \in NoteSlots : NoticeHandled(s) \/ NoticeSucceeded(s) \/ NoticeFails(s)

BellSpec == BellInit /\ [][BellNext]_bellVars

-----------------------------------------------------------------------------
(* Properties                                                              *)

(* Every variable has its type. *)
BellTypeOK ==
  /\ note \in [Notes -> {"none", "unread", "read", "gone"}]
  /\ notice \in [NoteSlots -> Notice \cup {NoNotice}]
  /\ reading \in [at : {"idle", "sent", "done", "settling"}, waits : SUBSET BellKeys]
  /\ LoadingTypeOK(BellKeys, BellData)

(* List and count, when shown as fresh, are both the service's, and so agree *)
(* with each other - except for notifications that came in since, calls      *)
(* whose reply was lost, and changes that met a first load.                  *)
BellFollows == \A k \in BellKeys :
  /\ Fresh(k) /\ ~untold[k] /\ reading.at # "done"
  /\ \A s \in NoteSlots : notice[s] = NoNotice \/ notice[s].at = "sent"
  => entry[k].data = BellTruth(k)
=============================================================================
