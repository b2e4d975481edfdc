------------------------------- MODULE Addresses -------------------------------
(***************************************************************************)
(* A customer's address book: the page that edits it, and the calls that   *)
(* keep one address the default.                                           *)
(*                                                                         *)
(* A call is several statements and no transaction, each committed by      *)
(* itself; only the forms of the page wait for their call, "Set as         *)
(* default" and "Delete" do not.                                           *)
(***************************************************************************)
EXTENDS Naturals, FiniteSets, Loading

CONSTANTS
  AddressIds,
  AddressSlots,   \* bound: calls under way together
  NoAddress

ASSUME AddressesAssumption == NoAddress \notin AddressIds

VARIABLES
  address,    \* address[id]: "none" (not yet), "gone", "plain", "default"
  task,       \* the calls.  at: the statement that comes next.  Bound: one
              \* call of each form, also when the page was left in between
  book,       \* the page: [open, adding, editing]
  disturbed   \* two calls crossed at the service, or one broke off

addressVars == <<address, task, book, disturbed, loadVars>>

AddressTask == [op : {"create", "update", "delete", "default"}, id : AddressIds \cup {NoAddress},
                at : {"read", "clear", "write", "next", "mark", "done"}, was : BOOLEAN]
NoTask == [at |-> "idle"]

RowsOf(a) == {id \in AddressIds : a[id] \in {"plain", "default"}}
DefaultsOf(a) == {id \in AddressIds : a[id] = "default"}
Cleared(a) == [id \in AddressIds |-> IF a[id] = "default" THEN "plain" ELSE a[id]]
Tasks(op) == {s \in AddressSlots : task[s] # NoTask /\ task[s].op = op}

-----------------------------------------------------------------------------
(* The page                                                                *)

OnBook == IF book.open THEN {"addresses"} ELSE {}
InBook == IF Has("addresses") THEN RowsOf(entry["addresses"].data) ELSE {}
ClosedBook(open) == [open |-> open, adding |-> FALSE, editing |-> NoAddress]

OpenBook ==
  /\ book' = ClosedBook(~book.open)
  /\ IF book.open THEN UNCHANGED entry ELSE Shows("addresses")
  /\ UNCHANGED <<address, task, disturbed, untold>>

(* "Add address", "Add your first address", Edit, and Cancel of the forms *)
UseForms ==
  /\ book.open
  /\ \/ /\ ~book.adding /\ (book.editing = NoAddress \/ (Has("addresses") /\ InBook = {}))
        /\ book' = [book EXCEPT !.adding = TRUE]
     \/ book.adding /\ book' = [book EXCEPT !.adding = FALSE]
     \/ \E id \in InBook \ {book.editing} : book' = [book EXCEPT !.adding = FALSE, !.editing = id]
     \/ book.editing \in InBook /\ book' = [book EXCEPT !.editing = NoAddress]
  /\ UNCHANGED <<address, task, disturbed, loadVars>>

AddressOffers(op, id) ==
  /\ book.open
  /\ CASE op = "create" -> book.adding /\ id = NoAddress /\ Tasks(op) = {}
       [] op = "update" -> id \in InBook /\ id = book.editing /\ Tasks(op) = {}
       [] op = "delete" -> id \in InBook /\ id # book.editing
       [] op = "default" -> id \in InBook /\ id # book.editing /\ entry["addresses"].data[id] = "plain"

(* bound: nothing new is sent once two calls have crossed *)
SendAddress(op, id) ==
  /\ AddressOffers(op, id) /\ ~disturbed
  /\ \E s \in AddressSlots : task[s] = NoTask
  /\ task' = [task EXCEPT ![CHOOSE s \in AddressSlots : task[s] = NoTask] =
                 [op |-> op, id |-> id, at |-> "read", was |-> FALSE]]
  /\ UNCHANGED <<address, book, disturbed, loadVars>>

-----------------------------------------------------------------------------
(* The service, one statement at a time                                    *)

AtService == {s \in AddressSlots : task[s].at \in {"clear", "write", "next", "mark"}}
Goes(s, at) == task' = [task EXCEPT ![s].at = at]
Ended(s) == task' = [task EXCEPT ![s] = [@ EXCEPT !.id = NoAddress, !.at = "done", !.was = FALSE]]

(* exists(), or the row the view looks up: a row that is gone is refused *)
ReadRow(s) ==
  LET c == task[s]
      first == RowsOf(address) = {}
  IN /\ c.at = "read" /\ (c.op = "create" \/ c.id \in RowsOf(address))
     /\ task' = [task EXCEPT ![s].was = IF c.op = "create" THEN first ELSE address[c.id] = "default",
                             ![s].at = IF c.op = "default" \/ (c.op = "create" /\ first)
                                       THEN "clear" ELSE "write"]
     /\ disturbed' = (disturbed \/ AtService # {})
     /\ UNCHANGED <<address, book, loadVars>>

ClearDefaults(s) ==
  /\ task[s].at = "clear"
  /\ address' = Cleared(address)
  /\ Goes(s, "write")
  /\ UNCHANGED <<book, disturbed, loadVars>>

(* create; save() of all of an address, which brings one back that was     *)
(* deleted since; save(update_fields), which fails on it; delete           *)
WriteRow(s) ==
  LET c == task[s]
      row == IF c.was THEN "default" ELSE "plain"
  IN /\ c.at = "write"
     /\ \/ /\ c.op = "create" /\ \E id \in AddressIds : address[id] = "none"
           /\ address' = [address EXCEPT ![CHOOSE id \in AddressIds : address[id] = "none"] = row]
        \/ c.op = "update" /\ address' = [address EXCEPT ![c.id] = row]
        \/ c.op = "default" /\ c.id \in RowsOf(address) /\ address' = [address EXCEPT ![c.id] = "default"]
        \/ c.op = "delete" /\ address' = [address EXCEPT ![c.id] = "gone"]
     /\ IF c.op = "delete" /\ c.was THEN Goes(s, "next") ELSE Ended(s)
     /\ UNCHANGED <<book, disturbed, loadVars>>

(* the wrong way: another address only takes over when the page says so *)
NoSuccessor(s) == task[s].at = "next" /\ Ended(s) /\ UNCHANGED <<address, book, disturbed, loadVars>>
(* addresses.first(), by label *)
Successor(s) ==
  /\ task[s].at = "next"
  /\ \/ RowsOf(address) = {} /\ Ended(s)
     \/ \E id \in RowsOf(address) : task' = [task EXCEPT ![s].id = id, ![s].at = "mark"]
  /\ UNCHANGED <<address, book, disturbed, loadVars>>

MarkDefault(s) ==
  /\ task[s].at = "mark" /\ task[s].id \in RowsOf(address)
  /\ address' = [address EXCEPT ![task[s].id] = "default"]
  /\ Ended(s)
  /\ UNCHANGED <<book, disturbed, loadVars>>

-----------------------------------------------------------------------------
(* the wrong way: only the forms ask for the addresses again *)
RefreshesOnForms(op) == IF op \in {"create", "update"} THEN {"addresses"} ELSE {}
RefreshesBook(op) == {"addresses"}

(* onSuccess; that of an update closes whatever form is open *)
AddressSaved(s) ==
  LET op == task[s].op
  IN /\ task[s].at = "done"
     /\ task' = [task EXCEPT ![s] = NoTask]
     /\ book' = [book EXCEPT !.adding = @ /\ op # "create",
                             !.editing = IF op = "update" THEN NoAddress ELSE @]
     /\ Invalidate(RefreshesBook(op), OnBook)
     /\ UNCHANGED <<address, disturbed>>

(* refused, broken off between two statements, or its reply lost: nothing  *)
(* is asked for again                                                      *)
AddressFails(s) ==
  /\ task[s] # NoTask
  /\ disturbed' = (disturbed \/ s \in AtService)
  /\ task' = [task EXCEPT ![s] = NoTask]
  /\ Changed(IF task[s].at = "read" THEN {} ELSE {"addresses"})
  /\ UNCHANGED <<address, book, entry>>

(* read by the address book and by the checkout *)
BookLoads ==
  /\ \/ Answer("addresses", address) \/ Ends("addresses") \/ Age("addresses")
     \/ (book.open /\ Focus("addresses"))
  /\ UNCHANGED <<address, task, book, disturbed>>

-----------------------------------------------------------------------------
AddressesStart ==
  /\ address = [id \in AddressIds |-> "none"]
  /\ task = [s \in AddressSlots |-> NoTask]
  /\ book = ClosedBook(TRUE) /\ disturbed = FALSE

AddressesInit == AddressesStart /\ LoadingInit({"addresses"}, {"addresses"})

AddressesNext ==
  \/ OpenBook \/ UseForms \/ BookLoads
  \/ \E op \in {"create", "update", "delete", "default"}, id \in AddressIds \cup {NoAddress} :
       SendAddress(op, id)
  \/ \E s \in AddressSlots :
       \/ ReadRow(s) \/ ClearDefaults(s) \/ WriteRow(s) \/ Successor(s) \/ MarkDefault(s)
       \/ AddressSaved(s) \/ AddressFails(s)

AddressesSpec == AddressesInit /\ [][AddressesNext]_addressVars

-----------------------------------------------------------------------------
(* Properties                                                              *)

(* Every variable has its type. *)
AddressesTypeOK ==
  /\ address \in [AddressIds -> {"none", "gone", "plain", "default"}]
  /\ task \in [AddressSlots -> AddressTask \cup {NoTask}]
  /\ book \in [open : BOOLEAN, adding : BOOLEAN, editing : AddressIds \cup {NoAddress}]
  /\ disturbed \in BOOLEAN
  /\ LoadingTypeOK({"addresses"}, LAMBDA k : [AddressIds -> {"none", "gone", "plain", "default"}])

(* Whoever has an address has one default, after any sequence of adding,    *)
(* editing, choosing and deleting from a page that may be out of date -     *)
(* until two calls cross at the service, or one breaks off half way.        *)
OneDefault ==
  ~disturbed /\ AtService = {} /\ RowsOf(address) # {} => Cardinality(DefaultsOf(address)) = 1

(* The addresses shown as fresh, in the book and at the checkout, are the   *)
(* ones the service has - except after a call that broke off or whose reply *)
(* was lost, or a change that met a request under way.                      *)
AddressesFollow ==
  /\ Fresh("addresses") /\ ~untold["addresses"]
  /\ \A s \in AddressSlots : task[s] = NoTask \/ task[s].at = "read"
  => entry["addresses"].data = address
=============================================================================
