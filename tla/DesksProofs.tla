------------------------------ MODULE DesksProofs ------------------------------
(***************************************************************************)
(* What the pages leave the service with when their calls cross: one       *)
(* default address, files imported whole, applications decided once, rates *)
(* as entered and banners as switched - for any number of calls.           *)
(*                                                                         *)
(* The end of the module puts these and the pages of PagesProofs together: *)
(* of every desk of Desks the invariant holds.                             *)
(***************************************************************************)
EXTENDS PagesProofs, ReturnsProofs

-----------------------------------------------------------------------------
(* The address book                                                        *)

AddressStates == {"none", "gone", "plain", "default"}
BookKeys == {"addresses"}
BookDatas == [k \in BookKeys |-> [AddressIds -> AddressStates]]
BookTruths == [k \in BookKeys |-> address]

(* a call has been at the service, and is not yet heard of *)
Crossing == \E s \in AddressSlots : task[s] # NoTask /\ task[s].at # "read"
BookPending == IF Crossing THEN BookKeys ELSE {}

AddressTypes ==
  /\ address \in [AddressIds -> AddressStates]
  /\ task \in [AddressSlots -> AddressTask \cup {NoTask}]
  /\ \A s \in AddressSlots : task[s] # NoTask /\ task[s].at # "done" /\ task[s].op # "create" =>
       task[s].id \in AddressIds
  /\ book \in [open : BOOLEAN, adding : BOOLEAN, editing : AddressIds \cup {NoAddress}]
  /\ disturbed \in BOOLEAN

OneOf(a) == \E d \in AddressIds : DefaultsOf(a) = {d}

(* what the addresses are before each statement of the one call at work *)
Before(c, a) ==
  /\ c.at = "clear" =>
       \/ c.op = "create" /\ c.was /\ RowsOf(a) = {}
       \/ c.op = "default" /\ c.id \in RowsOf(a)
  /\ c.at = "write" =>
       \/ c.op = "create" /\ c.was /\ RowsOf(a) = {}
       \/ c.op = "create" /\ ~c.was /\ OneOf(a)
       \/ c.op = "default" /\ c.id \in RowsOf(a) /\ DefaultsOf(a) = {}
       \/ c.op \in {"update", "delete"} /\ c.id \in RowsOf(a) /\ OneOf(a)
          /\ (c.was <=> a[c.id] = "default")
  /\ c.at = "next" => DefaultsOf(a) = {}
  /\ c.at = "mark" => DefaultsOf(a) = {} /\ c.id \in RowsOf(a)

(* as long as calls do not cross, one is at work, and leaves one default *)
Kept == ~disturbed =>
  /\ \A s, t \in AtService : s = t
  /\ \A s \in AtService : Before(task[s], address)
  /\ AtService = {} => RowsOf(address) = {} \/ OneOf(address)

AddressInv ==
  AddressTypes /\ Follows(BookKeys, BookDatas, BookTruths, BookPending) /\ Kept

LEMMA BookMoves ==
  ASSUME AddressInv, AddressTypes', Kept', NEW ks \in SUBSET BookKeys,
         Changed(ks) \/ (ks = {} /\ UNCHANGED untold),
         UNCHANGED entry \/ Shows("addresses"),
         "addresses" \in ks \/ Crossing' \/ (~Crossing /\ address' = address)
  PROVE  AddressInv'
<1>1. \A k \in BookKeys \ (BookPending' \cup ks) :
        k \notin BookPending /\ BookTruths'[k] = BookTruths[k]
  BY DEF BookTruths, BookPending, BookKeys
<1>2. BookDatas' = BookDatas /\ "addresses" \in BookKeys
  BY DEF BookDatas, BookKeys
<1>3. Follows(BookKeys, BookDatas, BookTruths, BookPending)'
  BY <1>1, <1>2, MovesFollows DEF AddressInv
<1>. QED BY <1>3 DEF AddressInv

LEMMA BookLoadsStep ==
  ASSUME AddressInv, BookLoads
  PROVE  AddressInv'
<1>1. UNCHANGED <<address, task, book, disturbed>>
  BY DEF BookLoads
<1>2. AddressTypes' /\ Kept' /\ (Crossing' <=> Crossing)
  BY <1>1 DEF AddressInv, AddressTypes, Kept, AtService, Crossing
<1>3. BookPending' = BookPending /\ BookTruths' = BookTruths /\ BookDatas' = BookDatas
      /\ "addresses" \in BookKeys
  BY <1>1, <1>2 DEF BookPending, BookTruths, BookDatas, BookKeys
<1>4. CASE Answer("addresses", address)
  <2>1. address \in BookDatas["addresses"] /\ address = BookTruths["addresses"]
    BY DEF AddressInv, AddressTypes, BookDatas, BookTruths, BookKeys
  <2>. QED BY <1>2, <1>3, <1>4, <2>1, AnswerFollows DEF AddressInv
<1>5. CASE Ends("addresses")
  BY <1>2, <1>3, <1>5, EndsFollows DEF AddressInv
<1>6. CASE Age("addresses")
  BY <1>2, <1>3, <1>6, AgeFollows DEF AddressInv
<1>7. CASE Focus("addresses")
  <2>1. Shows("addresses") /\ UNCHANGED untold /\ {} \in SUBSET BookKeys
    BY <1>7 DEF Focus
  <2>. QED BY <1>1, <1>2, <2>1, BookMoves
<1>. QED BY <1>4, <1>5, <1>6, <1>7 DEF BookLoads

(* the page: no call begins or ends at the service *)
LEMMA BookPageStep ==
  ASSUME AddressInv,
         \/ OpenBook \/ UseForms
         \/ \E op \in {"create", "update", "delete", "default"}, id \in AddressIds \cup {NoAddress} :
              SendAddress(op, id)
  PROVE  AddressInv'
<1> USE DEF AddressInv, AddressTypes
<1>1. {} \in SUBSET BookKeys
  OBVIOUS
<1>2. CASE OpenBook
  <2>1. UNCHANGED <<address, task, disturbed, untold>> /\ (UNCHANGED entry \/ Shows("addresses"))
        /\ book' = ClosedBook(~book.open)
    BY <1>2 DEF OpenBook
  <2>2. AddressTypes' /\ Kept' /\ (Crossing' <=> Crossing)
    BY <2>1 DEF ClosedBook, Kept, AtService, Crossing
  <2>. QED BY <1>1, <2>1, <2>2, BookMoves
<1>3. CASE UseForms
  <2>1. UNCHANGED <<address, task, disturbed, entry, untold>>
    BY <1>3 DEF UseForms, loadVars
  <2>2. InBook \subseteq AddressIds
    BY DEF InBook, RowsOf
  <2>3. AddressTypes'
    BY <1>3, <2>1, <2>2 DEF UseForms
  <2>4. Kept' /\ (Crossing' <=> Crossing)
    BY <2>1 DEF Kept, AtService, Crossing
  <2>. QED BY <1>1, <2>1, <2>3, <2>4, BookMoves
<1>4. ASSUME NEW op \in {"create", "update", "delete", "default"},
             NEW id \in AddressIds \cup {NoAddress}, SendAddress(op, id)
      PROVE  AddressInv'
  <2> DEFINE c == [op |-> op, id |-> id, at |-> "read", was |-> FALSE]
             t == CHOOSE s \in AddressSlots : task[s] = NoTask
  <2>1. t \in AddressSlots /\ task[t] = NoTask
    BY <1>4 DEF SendAddress
  <2>2. task' = [task EXCEPT ![t] = c] /\ UNCHANGED <<address, book, disturbed, entry, untold>>
    BY <1>4 DEF SendAddress, loadVars
  <2>3. c \in AddressTask /\ c.at = "read" /\ c.op = op /\ c.id = id
    BY DEF AddressTask
  <2>4. op # "create" => id \in AddressIds
    <3>1. InBook \subseteq AddressIds
      BY DEF InBook, RowsOf
    <3>2. CASE op = "update"
      BY <1>4, <3>1, <3>2 DEF SendAddress, AddressOffers
    <3>3. CASE op \in {"delete", "default"}
      BY <1>4, <3>1, <3>3 DEF SendAddress, AddressOffers
    <3>. QED BY <3>2, <3>3
  <2> HIDE DEF c, t
  <2>5. task'[t] = c /\ \A s \in AddressSlots : s # t => task'[s] = task[s]
    BY <2>1, <2>2
  <2>6. AddressTypes'
    BY <2>2, <2>3, <2>4, <2>5
  <2>7. AtService' = AtService /\ (Crossing' <=> Crossing) /\ t \notin AtService
    BY <2>1, <2>3, <2>5 DEF AtService, Crossing, NoTask
  <2>8. Kept'
    <3>1. \A s \in AtService : task'[s] = task[s]
      BY <2>5, <2>7 DEF AtService
    <3>. QED BY <2>2, <2>7, <3>1 DEF Kept
  <2>. QED BY <1>1, <2>2, <2>6, <2>7, <2>8, BookMoves
<1>. QED BY <1>2, <1>3, <1>4

(* a statement of the one call at work: it leaves what the next one needs,  *)
(* or ends with one default                                                 *)
LEMMA ServiceStep ==
  ASSUME AddressInv, NEW s \in AddressSlots, task[s] # NoTask, task[s].at # "done",
         NEW c \in AddressTask, c.at # "read", c.at # "done" /\ c.op # "create" => c.id \in AddressIds,
         task' = [task EXCEPT ![s] = c], address' \in [AddressIds -> AddressStates],
         disturbed' = IF task[s].at = "read" THEN disturbed \/ AtService # {} ELSE disturbed,
         UNCHANGED <<book, loadVars>>,
         ~disturbed /\ (task[s].at = "read" => AtService = {}) =>
           /\ c.at = "done" => RowsOf(address') = {} \/ OneOf(address')
           /\ c.at # "done" => Before(c, address')
  PROVE  AddressInv'
<1>1. task'[s] = c /\ \A t \in AddressSlots : t # s => task'[t] = task[t]
  BY DEF AddressInv, AddressTypes
<1>2. c # NoTask
  BY DEF AddressTask, NoTask
<1>3. AddressTypes'
  BY <1>1 DEF AddressInv, AddressTypes
<1>4. Crossing'
  BY <1>1, <1>2 DEF Crossing
<1>5. Kept'
  <2> SUFFICES ASSUME ~disturbed'
               PROVE  /\ \A p, q \in AtService' : p = q
                      /\ \A p \in AtService' : Before(task'[p], address')
                      /\ AtService' = {} => RowsOf(address') = {} \/ OneOf(address')
    BY DEF Kept
  <2>1. ~disturbed /\ (task[s].at = "read" => AtService = {})
    OBVIOUS
  <2>2. task[s].at \in {"read", "clear", "write", "next", "mark"}
    BY DEF AddressInv, AddressTypes, AddressTask
  <2>3. AtService \subseteq {s}
    BY <2>1, <2>2 DEF AddressInv, Kept, AtService
  <2>4. AtService' = IF c.at = "done" THEN {} ELSE {s}
    <3>1. c.at \in {"clear", "write", "next", "mark", "done"}
      BY DEF AddressTask
    <3>2. \A t \in AddressSlots : t # s => task'[t].at \notin {"clear", "write", "next", "mark"}
      BY <1>1, <2>3 DEF AtService
    <3>. QED BY <1>1, <3>1, <3>2 DEF AtService
  <2>. QED BY <1>1, <2>1, <2>4
<1>6. {} \in SUBSET BookKeys /\ UNCHANGED <<entry, untold>>
  BY DEF loadVars
<1>. QED BY <1>3, <1>4, <1>5, <1>6, BookMoves

(* of a call, with another statement to come *)
LEMMA TaskAt ==
  ASSUME NEW c \in AddressTask, NEW to \in {"read", "clear", "write", "next", "mark", "done"}
  PROVE  LET d == [c EXCEPT !.at = to]
         IN d \in AddressTask /\ d.at = to /\ d.op = c.op /\ d.id = c.id /\ d.was = c.was
BY DEF AddressTask

LEMMA TaskEnds ==
  ASSUME NEW c \in AddressTask
  PROVE  LET d == [c EXCEPT !.id = NoAddress, !.at = "done", !.was = FALSE]
         IN d \in AddressTask /\ d.at = "done"
BY DEF AddressTask

LEMMA ReadRowStep ==
  ASSUME AddressInv, NEW s \in AddressSlots, ReadRow(s)
  PROVE  AddressInv'
<1> DEFINE c == task[s]
           first == RowsOf(address) = {}
           was == IF c.op = "create" THEN first ELSE address[c.id] = "default"
           to == IF c.op = "default" \/ (c.op = "create" /\ first) THEN "clear" ELSE "write"
           d == [c EXCEPT !.was = was, !.at = to]
<1>1. c \in AddressTask /\ c.at = "read" /\ c # NoTask /\ (c.op = "create" \/ c.id \in RowsOf(address))
  BY DEF ReadRow, AddressInv, AddressTypes, NoTask
<1>2. /\ task' = [task EXCEPT ![s] = d]
      /\ disturbed' = (disturbed \/ AtService # {}) /\ UNCHANGED <<address, book, loadVars>>
  BY DEF ReadRow, AddressInv, AddressTypes
<1>3. was \in BOOLEAN /\ to \in {"clear", "write"}
  OBVIOUS
<1>4. d \in AddressTask /\ d.at = to /\ d.op = c.op /\ d.id = c.id /\ d.was = was
  <2> HIDE DEF was, to
  <2>. QED BY <1>1, <1>3 DEF AddressTask
<1>5. RowsOf(address) \subseteq AddressIds
  BY DEF RowsOf
<1>6. ~disturbed /\ AtService = {} => Before(d, address)
  <2> SUFFICES ASSUME ~disturbed, AtService = {} PROVE Before(d, address)
    OBVIOUS
  <2>1. RowsOf(address) = {} \/ OneOf(address)
    BY DEF AddressInv, Kept
  <2>2. c.op \in {"create", "update", "delete", "default"}
    BY <1>1 DEF AddressTask
  <2> HIDE DEF d
  <2>3. CASE c.op = "create"
    BY <1>4, <2>1, <2>3 DEF Before
  <2>4. CASE c.op = "default"
    BY <1>1, <1>4, <2>4 DEF Before
  <2>5. CASE c.op \in {"update", "delete"}
    BY <1>1, <1>4, <2>1, <2>5 DEF Before
  <2>. QED BY <2>2, <2>3, <2>4, <2>5
<1>7. d.at \notin {"read", "done"} /\ (d.op # "create" => d.id \in AddressIds)
  BY <1>1, <1>3, <1>4, <1>5
<1>8. address' \in [AddressIds -> AddressStates] /\ address' = address
  BY <1>2 DEF AddressInv, AddressTypes
<1> HIDE DEF d, first, was, to
<1>. QED BY <1>1, <1>2, <1>4, <1>6, <1>7, <1>8, ServiceStep

LEMMA ClearStep ==
  ASSUME AddressInv, NEW s \in AddressSlots, ClearDefaults(s)
  PROVE  AddressInv'
<1> DEFINE c == task[s]
           d == [c EXCEPT !.at = "write"]
<1>1. c \in AddressTask /\ c.at = "clear" /\ c # NoTask
  BY DEF ClearDefaults, AddressInv, AddressTypes, NoTask
<1>2. /\ task' = [task EXCEPT ![s] = d] /\ address' = Cleared(address)
      /\ UNCHANGED <<book, disturbed, loadVars>>
  BY DEF ClearDefaults, Goes
<1>3. d \in AddressTask /\ d.at = "write" /\ d.op = c.op /\ d.id = c.id /\ d.was = c.was
  BY <1>1, TaskAt
<1>4. /\ address' \in [AddressIds -> AddressStates]
      /\ RowsOf(address') = RowsOf(address) /\ DefaultsOf(address') = {}
  BY <1>2 DEF Cleared, RowsOf, DefaultsOf, AddressInv, AddressTypes, AddressStates
<1>5. ~disturbed => Before(d, address')
  <2> SUFFICES ASSUME ~disturbed PROVE Before(d, address')
    OBVIOUS
  <2>1. Before(c, address)
    BY <1>1 DEF AddressInv, Kept, AtService
  <2> HIDE DEF d
  <2>. QED BY <1>1, <1>3, <1>4, <2>1 DEF Before
<1>6. d.op # "create" => d.id \in AddressIds
  BY <1>1, <1>3 DEF AddressInv, AddressTypes
<1> HIDE DEF d
<1>. QED BY <1>1, <1>2, <1>3, <1>4, <1>5, <1>6, ServiceStep

(* what a write leaves *)
LEMMA RowWritten ==
  ASSUME NEW a \in [AddressIds -> AddressStates], NEW id \in AddressIds
  PROVE  /\ DefaultsOf(a) \subseteq {id} => OneOf([a EXCEPT ![id] = "default"])
         /\ OneOf(a) /\ a[id] # "default" => OneOf([a EXCEPT ![id] = "plain"])
         /\ OneOf(a) /\ a[id] # "default" => OneOf([a EXCEPT ![id] = "gone"])
         /\ OneOf(a) /\ a[id] = "default" => DefaultsOf([a EXCEPT ![id] = "gone"]) = {}
         /\ DefaultsOf(a) = {} => DefaultsOf([a EXCEPT ![id] = "gone"]) = {}
<1>1. DefaultsOf([a EXCEPT ![id] = "default"]) = DefaultsOf(a) \cup {id}
  BY DEF DefaultsOf
<1>2. \A x \in {"plain", "gone"} : DefaultsOf([a EXCEPT ![id] = x]) = DefaultsOf(a) \ {id}
  BY DEF DefaultsOf
<1>3. a[id] # "default" => DefaultsOf(a) \ {id} = DefaultsOf(a)
  BY DEF DefaultsOf
<1>4. a[id] = "default" => id \in DefaultsOf(a)
  BY DEF DefaultsOf
<1>5. DefaultsOf(a) \subseteq {id} => OneOf([a EXCEPT ![id] = "default"])
  BY <1>1 DEF OneOf
<1>6. OneOf(a) /\ a[id] # "default" => OneOf([a EXCEPT ![id] = "plain"]) /\ OneOf([a EXCEPT ![id] = "gone"])
  BY <1>2, <1>3 DEF OneOf
<1>7. OneOf(a) /\ a[id] = "default" => DefaultsOf([a EXCEPT ![id] = "gone"]) = {}
  BY <1>2, <1>4 DEF OneOf
<1>8. DefaultsOf(a) = {} => DefaultsOf([a EXCEPT ![id] = "gone"]) = {}
  BY <1>2
<1>. QED BY <1>5, <1>6, <1>7, <1>8

LEMMA WriteStep ==
  ASSUME AddressInv, NEW s \in AddressSlots, WriteRow(s)
  PROVE  AddressInv'
<1> DEFINE c == task[s]
           row == IF c.was THEN "default" ELSE "plain"
           d == IF c.op = "delete" /\ c.was THEN [c EXCEPT !.at = "next"]
                ELSE [c EXCEPT !.id = NoAddress, !.at = "done", !.was = FALSE]
<1>1. c \in AddressTask /\ c.at = "write" /\ c # NoTask /\ (c.op # "create" => c.id \in AddressIds)
  BY DEF WriteRow, AddressInv, AddressTypes, NoTask
<1>2. task' = [task EXCEPT ![s] = d] /\ UNCHANGED <<book, disturbed, loadVars>>
  BY DEF WriteRow, Goes, Ended
<1>3. /\ d \in AddressTask /\ d.at \in {"next", "done"}
      /\ d.at = "next" => c.op = "delete" /\ c.was /\ d.id = c.id
      /\ d.at = "done" => ~(c.op = "delete" /\ c.was)
  BY <1>1, TaskAt, TaskEnds
<1> HIDE DEF d
<1>4. PICK id \in AddressIds :
        \/ c.op = "create" /\ address[id] = "none" /\ address' = [address EXCEPT ![id] = row]
        \/ c.op = "update" /\ id = c.id /\ address' = [address EXCEPT ![id] = row]
        \/ c.op = "default" /\ id = c.id /\ address' = [address EXCEPT ![id] = "default"]
        \/ c.op = "delete" /\ id = c.id /\ address' = [address EXCEPT ![id] = "gone"]
  BY <1>1 DEF WriteRow
<1>5. address' \in [AddressIds -> AddressStates] /\ address \in [AddressIds -> AddressStates]
  BY <1>4 DEF AddressInv, AddressTypes, AddressStates
<1>6. ASSUME ~disturbed
      PROVE  IF d.at = "done" THEN OneOf(address') ELSE DefaultsOf(address') = {}
  <2>1. Before(c, address)
    BY <1>1, <1>6 DEF AddressInv, Kept, AtService
  <2>2. DefaultsOf(address) \subseteq RowsOf(address)
    BY DEF DefaultsOf, RowsOf
  <2>3. OneOf(address) /\ address[id] = "default" => DefaultsOf(address) \subseteq {id}
    BY <1>4 DEF OneOf, DefaultsOf
  <2>4. CASE c.op = "create"
    BY <1>1, <1>3, <1>4, <1>5, <2>1, <2>2, <2>4, RowWritten DEF Before
  <2>5. CASE c.op = "update"
    <3>1. d.at = "done" /\ id = c.id /\ OneOf(address) /\ (c.was <=> address[id] = "default")
      BY <1>1, <1>3, <1>4, <2>1, <2>5 DEF Before
    <3>2. address' = [address EXCEPT ![id] = IF c.was THEN "default" ELSE "plain"]
      BY <1>4, <2>5
    <3>3. CASE c.was
      BY <1>5, <2>3, <3>1, <3>2, <3>3, RowWritten
    <3>4. CASE ~c.was
      BY <1>5, <3>1, <3>2, <3>4, RowWritten
    <3>. QED BY <3>3, <3>4
  <2>6. CASE c.op = "default"
    BY <1>1, <1>3, <1>4, <1>5, <2>1, <2>6, RowWritten DEF Before
  <2>7. CASE c.op = "delete"
    <3>1. id = c.id /\ OneOf(address) /\ (c.was <=> address[id] = "default")
      BY <1>1, <1>4, <2>1, <2>7 DEF Before
    <3>2. address' = [address EXCEPT ![id] = "gone"]
      BY <1>4, <2>7
    <3>3. d.at = "next" <=> c.was
      BY <1>1, <2>7 DEF d, AddressTask
    <3>. QED BY <1>3, <1>5, <3>1, <3>2, <3>3, RowWritten
  <2>. QED BY <1>4, <2>4, <2>5, <2>6, <2>7
<1>7. ~disturbed /\ d.at = "next" => Before(d, address')
  BY <1>6 DEF Before
<1>. QED BY <1>1, <1>2, <1>3, <1>5, <1>6, <1>7, ServiceStep

LEMMA SuccessorStep ==
  ASSUME AddressInv, NEW s \in AddressSlots, Successor(s) \/ MarkDefault(s)
  PROVE  AddressInv'
<1> DEFINE c == task[s]
           over == [c EXCEPT !.id = NoAddress, !.at = "done", !.was = FALSE]
<1>1. c \in AddressTask /\ c.at \in {"next", "mark"} /\ c # NoTask /\ UNCHANGED <<book, disturbed, loadVars>>
  BY DEF Successor, MarkDefault, AddressInv, AddressTypes, NoTask
<1>2. over \in AddressTask /\ over.at = "done"
  BY <1>1, TaskEnds
<1>3. RowsOf(address) \subseteq AddressIds /\ address \in [AddressIds -> AddressStates]
  BY DEF RowsOf, AddressInv, AddressTypes
<1>4. ~disturbed => Before(c, address)
  BY <1>1 DEF AddressInv, Kept, AtService
<1> HIDE DEF over
<1>5. CASE Successor(s) /\ RowsOf(address) = {} /\ Ended(s)
  <2>1. task' = [task EXCEPT ![s] = over] /\ address' = address
    BY <1>5 DEF Successor, Ended, over
  <2>. QED BY <1>1, <1>2, <1>3, <1>5, <2>1, ServiceStep
<1>6. ASSUME NEW id \in RowsOf(address), Successor(s), task' = [task EXCEPT ![s].id = id, ![s].at = "mark"]
      PROVE  AddressInv'
  <2> DEFINE d == [c EXCEPT !.id = id, !.at = "mark"]
  <2>1. task' = [task EXCEPT ![s] = d] /\ address' = address /\ c.at = "next"
    BY <1>6 DEF Successor, AddressInv, AddressTypes
  <2>2. d \in AddressTask /\ d.at = "mark" /\ d.id = id
    BY <1>1, <1>3 DEF AddressTask
  <2>3. ~disturbed => Before(d, address)
    BY <1>4, <2>1, <2>2 DEF Before
  <2> HIDE DEF d
  <2>. QED BY <1>1, <1>3, <2>1, <2>2, <2>3, ServiceStep
<1>7. CASE MarkDefault(s)
  <2>1. /\ c.at = "mark" /\ c.id \in RowsOf(address)
        /\ address' = [address EXCEPT ![c.id] = "default"] /\ task' = [task EXCEPT ![s] = over]
    BY <1>7 DEF MarkDefault, Ended, over
  <2>2. address' \in [AddressIds -> AddressStates]
    BY <1>3, <2>1 DEF AddressStates
  <2>3. ~disturbed => OneOf(address')
    <3>1. ~disturbed => DefaultsOf(address) \subseteq {c.id}
      BY <1>4, <2>1 DEF Before
    <3>. QED BY <1>3, <2>1, <3>1, RowWritten
  <2>. QED BY <1>1, <1>2, <2>1, <2>2, <2>3, ServiceStep
<1>. QED BY <1>5, <1>6, <1>7 DEF Successor

(* a call ends for the page: with its answer, or unheard of *)
LEMMA AddressEnds ==
  ASSUME AddressInv, NEW s \in AddressSlots, AddressSaved(s) \/ AddressFails(s)
  PROVE  AddressInv'
<1>1. task[s] # NoTask /\ task' = [task EXCEPT ![s] = NoTask] /\ UNCHANGED address
  BY DEF AddressSaved, AddressFails, NoTask
<1>2. task'[s] = NoTask /\ \A t \in AddressSlots : t # s => task'[t] = task[t]
  BY <1>1 DEF AddressInv, AddressTypes
<1>3. AtService' = AtService \ {s}
  BY <1>2 DEF AtService, NoTask
<1>4. disturbed' = (disturbed \/ s \in AtService)
  BY DEF AddressSaved, AddressFails, AtService, AddressInv, AddressTypes
<1>5. Kept'
  <2> SUFFICES ASSUME ~disturbed' PROVE Kept'
    BY DEF Kept
  <2>1. AtService' = AtService /\ ~disturbed /\ \A t \in AtService : task'[t] = task[t]
    BY <1>2, <1>3, <1>4 DEF AtService
  <2>. QED BY <1>1, <2>1 DEF AddressInv, Kept
<1>6. AddressTypes'
  <2>1. book' \in [open : BOOLEAN, adding : BOOLEAN, editing : AddressIds \cup {NoAddress}]
    <3>1. CASE AddressFails(s)
      BY <3>1 DEF AddressFails, AddressInv, AddressTypes
    <3>2. CASE AddressSaved(s)
      <4> DEFINE adding == book.adding /\ task[s].op # "create"
                 editing == IF task[s].op = "update" THEN NoAddress ELSE book.editing
      <4>1. book' = [book EXCEPT !.adding = adding, !.editing = editing]
        BY <3>2 DEF AddressSaved
      <4>2. adding \in BOOLEAN /\ editing \in AddressIds \cup {NoAddress}
        BY DEF AddressInv, AddressTypes
      <4> HIDE DEF adding, editing
      <4>. QED BY <4>1, <4>2 DEF AddressInv, AddressTypes
    <3>. QED BY <3>1, <3>2
  <2>. QED BY <1>1, <1>2, <1>4, <2>1 DEF AddressInv, AddressTypes
<1>7. CASE AddressFails(s)
  <2> DEFINE ks == IF task[s].at = "read" THEN {} ELSE {"addresses"}
  <2>1. Changed(ks) /\ UNCHANGED entry /\ ks \in SUBSET BookKeys
    BY <1>7 DEF AddressFails, BookKeys
  <2>2. "addresses" \in ks \/ Crossing' \/ ~Crossing
    BY <1>1, <1>2 DEF Crossing
  <2> HIDE DEF ks
  <2>. QED BY <1>1, <1>5, <1>6, <2>1, <2>2, BookMoves
<1>8. CASE AddressSaved(s)
  <2>1. Invalidate(BookKeys, OnBook)
    BY <1>8 DEF AddressSaved, RefreshesBook, BookKeys
  <2>2. BookTruths' = BookTruths /\ BookDatas' = BookDatas /\ BookPending \subseteq BookPending' \cup BookKeys
    BY <1>1 DEF BookTruths, BookDatas, BookPending
  <2>3. Follows(BookKeys, BookDatas, BookTruths, BookPending)'
    BY <2>1, <2>2, InvalidateFollows DEF AddressInv
  <2>. QED BY <1>5, <1>6, <2>3 DEF AddressInv
<1>. QED BY <1>7, <1>8

LEMMA AddressesStep == AddressInv /\ [AddressesNext]_addressVars => AddressInv'
<1> SUFFICES ASSUME AddressInv, [AddressesNext]_addressVars PROVE AddressInv'
  OBVIOUS
<1>1. CASE UNCHANGED addressVars
  <2>1. UNCHANGED <<address, task, book, disturbed, entry, untold>> /\ {} \in SUBSET BookKeys
    BY <1>1 DEF addressVars, loadVars
  <2>2. AddressTypes' /\ Kept' /\ (Crossing' <=> Crossing)
    BY <2>1 DEF AddressInv, AddressTypes, Kept, AtService, Crossing
  <2>. QED BY <2>1, <2>2, BookMoves
<1>2. CASE AddressesNext
  BY <1>2, BookLoadsStep, BookPageStep, ReadRowStep, ClearStep, WriteStep, SuccessorStep,
     AddressEnds DEF AddressesNext
<1>. QED BY <1>1, <1>2

LEMMA AddressesBegin == AddressesInit => AddressInv
<1> SUFFICES ASSUME AddressesInit PROVE AddressInv
  OBVIOUS
<1>1. AddressTypes
  BY DEF AddressesInit, AddressesStart, AddressTypes, AddressStates, ClosedBook
<1>2. Kept
  BY DEF AddressesInit, AddressesStart, Kept, AtService, NoTask, RowsOf
<1>3. Follows(BookKeys, BookDatas, BookTruths, BookPending)
  BY InitFollows DEF AddressesInit, BookKeys
<1>. QED BY <1>1, <1>2, <1>3 DEF AddressInv

LEMMA AddressesShow == AddressInv => AddressesTypeOK /\ OneDefault /\ AddressesFollow
<1> SUFFICES ASSUME AddressInv PROVE AddressesTypeOK /\ OneDefault /\ AddressesFollow
  OBVIOUS
<1>1. OneDefault
  BY FS_Singleton DEF AddressInv, Kept, OneDefault, OneOf
<1>2. ASSUME Fresh("addresses"), ~untold["addresses"],
             \A s \in AddressSlots : task[s] = NoTask \/ task[s].at = "read"
      PROVE  entry["addresses"].data = address
  <2>1. "addresses" \in BookKeys \ BookPending
    BY <1>2 DEF BookPending, BookKeys, Crossing
  <2>2. entry["addresses"].data = BookTruths["addresses"]
    BY <1>2, <2>1, FreshFollows DEF AddressInv
  <2>. QED BY <2>2 DEF BookTruths, BookKeys
<1>3. /\ DOMAIN entry = {"addresses"} /\ entry["addresses"] \in Entry([AddressIds -> AddressStates])
      /\ untold \in [{"addresses"} -> BOOLEAN]
  BY DEF AddressInv, Follows, Loads, BookKeys, BookDatas
<1>4. LoadingTypeOK({"addresses"}, LAMBDA k : [AddressIds -> {"none", "gone", "plain", "default"}])
  BY <1>3 DEF LoadingTypeOK, AddressStates
<1>. QED BY <1>1, <1>2, <1>4
     DEF AddressInv, AddressTypes, AddressStates, AddressesTypeOK, AddressesFollow

(* As long as no two calls cross at the service and none breaks off there,  *)
(* whoever has an address has one default whenever no call is at work, of   *)
(* any number of addresses: set_default_address, delete_address.            *)
THEOREM OneAddressIsDefault == AddressesSpec => []OneDefault
BY AddressesBegin, AddressesStep, AddressesShow, PTL DEF AddressesSpec

(* Between calls the address book shown as fresh is what the service has,   *)
(* also after calls that crossed or broke off, if the page heard of them.   *)
THEOREM AddressBookIsTrue == AddressesSpec => [](AddressesTypeOK /\ AddressesFollow)
BY AddressesBegin, AddressesStep, AddressesShow, PTL DEF AddressesSpec

-----------------------------------------------------------------------------
(* The import of products                                                  *)

(* the preview under way, unless another file was picked meanwhile, is that *)
(* of the file the modal holds; and so is the one shown                     *)
ShownIsPicked == ~hurried =>
  /\ \A s, t \in Own("preview") : s = t
  /\ \A s \in Own("preview") : upload[s].file = modal.file /\ modal.step \in {"pick", "success"}
  /\ modal.step = "preview" => modal.preview.valid /\ modal.preview.of = modal.file

(* one import at a time has created its file, but for what is left of it    *)
OneAtWork == ~torn =>
  /\ \A s, t \in Writing : s = t
  /\ Writing = {} => catalogue = UNION imported
  /\ \A s \in Writing :
       /\ upload[s].left \subseteq upload[s].file /\ upload[s].left \cap catalogue = {}
       /\ catalogue = (UNION imported) \cup (upload[s].file \ upload[s].left)

UploadInv == UploadTypeOK /\ ShownIsPicked /\ OneAtWork

(* a preview that the modal waits for *)
IsOwn(c) == c # NoUpload /\ c.op = "preview" /\ c.here

(* the call s goes to c, and the others are as they were *)
LEMMA UploadCallIs ==
  ASSUME UploadInv, NEW s \in UploadSlots, NEW c \in UploadCall \cup {NoUpload},
         upload' = [upload EXCEPT ![s] = c]
  PROVE  /\ upload' \in [UploadSlots -> UploadCall \cup {NoUpload}]
         /\ upload'[s] = c /\ \A t \in UploadSlots \ {s} : upload'[t] = upload[t]
         /\ IsOwn(c) => Own("preview")' = Own("preview") \cup {s}
         /\ ~IsOwn(c) => Own("preview")' = Own("preview") \ {s}
         /\ Writing' = IF c.at = "writing" THEN Writing \cup {s} ELSE Writing \ {s}
<1>1. upload'[s] = c /\ \A t \in UploadSlots \ {s} : upload'[t] = upload[t]
  BY DEF UploadInv, UploadTypeOK
<1>2. upload' \in [UploadSlots -> UploadCall \cup {NoUpload}]
  BY DEF UploadInv, UploadTypeOK
<1>3. /\ IsOwn(c) => Own("preview")' = Own("preview") \cup {s}
      /\ ~IsOwn(c) => Own("preview")' = Own("preview") \ {s}
  BY <1>1 DEF Own, IsOwn
<1>4. Writing' = IF c.at = "writing" THEN Writing \cup {s} ELSE Writing \ {s}
  BY <1>1 DEF Writing
<1>. QED BY <1>1, <1>2, <1>3, <1>4

LEMMA SendsStep ==
  ASSUME UploadInv, NEW op \in {"preview", "confirm"}, NEW f \in Files, Sends(op, f)
  PROVE  \E s \in UploadSlots :
           /\ upload[s] = NoUpload /\ s \notin Writing /\ Writing' = Writing
           /\ upload' \in [UploadSlots -> UploadCall \cup {NoUpload}]
           /\ upload'[s].file = f /\ \A t \in UploadSlots \ {s} : upload'[t] = upload[t]
           /\ Own("preview")' = IF op = "preview" THEN Own("preview") \cup {s} ELSE Own("preview")
<1> DEFINE c == [op |-> op, file |-> f, at |-> "sent", left |-> {}, ok |-> FALSE, here |-> TRUE]
           s == CHOOSE s \in UploadSlots : upload[s] = NoUpload
<1>1. s \in UploadSlots /\ upload[s] = NoUpload /\ upload' = [upload EXCEPT ![s] = c]
  BY DEF Sends
<1>2. c \in UploadCall /\ c.op = op /\ c.at = "sent" /\ c.here /\ c.file = f /\ c # NoUpload
  BY DEF UploadCall, NoUpload
<1> HIDE DEF c, s
<1>3. s \notin Writing /\ s \notin Own("preview")
  BY <1>1 DEF Writing, Own, NoUpload
<1>4. /\ upload' \in [UploadSlots -> UploadCall \cup {NoUpload}] /\ upload'[s] = c
      /\ \A t \in UploadSlots \ {s} : upload'[t] = upload[t]
      /\ Own("preview")' = IF op = "preview" THEN Own("preview") \cup {s} ELSE Own("preview")
      /\ Writing' = Writing
  <2>1. IsOwn(c) <=> op = "preview"
    BY <1>2 DEF IsOwn
  <2>2. /\ upload' \in [UploadSlots -> UploadCall \cup {NoUpload}]
        /\ upload'[s] = c /\ \A t \in UploadSlots \ {s} : upload'[t] = upload[t]
        /\ IsOwn(c) => Own("preview")' = Own("preview") \cup {s}
        /\ ~IsOwn(c) => Own("preview")' = Own("preview") \ {s}
        /\ Writing' = IF c.at = "writing" THEN Writing \cup {s} ELSE Writing \ {s}
    BY <1>1, <1>2, UploadCallIs
  <2>3. Writing' = Writing
    BY <1>2, <1>3, <2>2
  <2>. QED BY <1>3, <2>1, <2>2, <2>3
<1>. QED BY <1>1, <1>2, <1>3, <1>4

LEMMA ModalStep ==
  ASSUME UploadInv,
         OpenUpload \/ CloseUpload \/ Back \/ Confirm \/ \E f \in Files : Pick(f)
  PROVE  UploadInv'
<1>1. CASE OpenUpload \/ Back
  <2>1. /\ modal' = [Closed EXCEPT !.step = "pick"] /\ modal.step \in {"closed", "preview", "errors"}
        /\ UNCHANGED <<catalogue, imported, upload, hurried, torn>>
    BY <1>1 DEF OpenUpload, Back, Closed
  <2>2. modal'.step = "pick" /\ UploadTypeOK'
    BY <2>1 DEF UploadInv, UploadTypeOK, Closed
  <2>3. ShownIsPicked' /\ OneAtWork'
    BY <2>1, <2>2 DEF UploadInv, ShownIsPicked, OneAtWork, Own, Writing
  <2>. QED BY <2>2, <2>3 DEF UploadInv
<1>2. CASE CloseUpload
  <2> DEFINE gone(s) == IF upload[s] = NoUpload THEN NoUpload ELSE [upload[s] EXCEPT !.here = FALSE]
  <2>1. /\ modal' = Closed /\ upload' = [s \in UploadSlots |-> gone(s)] /\ hurried' = FALSE
        /\ UNCHANGED <<catalogue, imported, torn>>
    BY <1>2 DEF CloseUpload
  <2>2. ASSUME NEW s \in UploadSlots
        PROVE  /\ gone(s) \in UploadCall \cup {NoUpload} /\ (gone(s) # NoUpload => ~gone(s).here)
               /\ gone(s).at = upload[s].at
               /\ upload[s].at = "writing" => gone(s).file = upload[s].file /\ gone(s).left = upload[s].left
    BY DEF UploadInv, UploadTypeOK, UploadCall, NoUpload
  <2> HIDE DEF gone
  <2>3. Own("preview")' = {} /\ Writing' = Writing
        /\ \A s \in Writing : upload'[s].file = upload[s].file /\ upload'[s].left = upload[s].left
    BY <2>1, <2>2 DEF Own, Writing
  <2>4. UploadTypeOK' /\ modal'.step = "closed"
    BY <2>1, <2>2 DEF UploadInv, UploadTypeOK, Closed
  <2>5. ShownIsPicked' /\ OneAtWork'
    BY <2>1, <2>3, <2>4 DEF UploadInv, ShownIsPicked, OneAtWork
  <2>. QED BY <2>4, <2>5 DEF UploadInv
<1>3. CASE Confirm
  <2>1. /\ modal.file \in Files /\ Sends("confirm", modal.file)
        /\ UNCHANGED <<catalogue, imported, modal, hurried, torn>>
    BY <1>3 DEF Confirm, UploadInv, UploadTypeOK
  <2>2. PICK s \in UploadSlots :
          /\ s \notin Writing /\ Writing' = Writing /\ upload[s] = NoUpload
          /\ upload' \in [UploadSlots -> UploadCall \cup {NoUpload}]
          /\ \A t \in UploadSlots \ {s} : upload'[t] = upload[t]
          /\ Own("preview")' = Own("preview")
    BY <2>1, SendsStep
  <2>3. s \notin Own("preview")
    BY <2>2 DEF Own
  <2>. QED BY <2>1, <2>2, <2>3 DEF UploadInv, UploadTypeOK, ShownIsPicked, OneAtWork, Own, Writing
<1>4. ASSUME NEW f \in Files, Pick(f)
      PROVE  UploadInv'
  <2>1. /\ modal.step = "pick" /\ Sends("preview", f) /\ modal' = [modal EXCEPT !.file = f]
        /\ hurried' = (hurried \/ Own("preview") # {})
        /\ UNCHANGED <<catalogue, imported, torn>>
    BY <1>4 DEF Pick
  <2>2. PICK s \in UploadSlots :
          /\ s \notin Writing /\ Writing' = Writing /\ upload'[s].file = f
          /\ upload' \in [UploadSlots -> UploadCall \cup {NoUpload}]
          /\ \A t \in UploadSlots \ {s} : upload'[t] = upload[t]
          /\ Own("preview")' = Own("preview") \cup {s}
    BY <2>1, SendsStep
  <2>3. UploadTypeOK' /\ modal'.step = "pick" /\ modal'.file = f
    BY <2>1, <2>2 DEF UploadInv, UploadTypeOK
  <2>4. ShownIsPicked'
    BY <2>1, <2>2, <2>3 DEF ShownIsPicked
  <2>5. OneAtWork'
    BY <2>1, <2>2 DEF UploadInv, OneAtWork, Writing
  <2>. QED BY <2>3, <2>4, <2>5 DEF UploadInv
<1>. QED BY <1>1, <1>2, <1>3, <1>4

(* the service: only an import that runs changes the catalogue *)
LEMMA ImportStep ==
  ASSUME UploadInv, NEW s \in UploadSlots,
         \/ Previewed(s) \/ StartImport(s) \/ EndImport(s) \/ ImportRaises(s)
         \/ \E k \in Skus : CreateOne(s, k)
  PROVE  UploadInv'
<1> DEFINE c == upload[s]
<1>1. c \in UploadCall /\ c # NoUpload /\ UNCHANGED <<modal, hurried>>
  BY DEF Previewed, StartImport, EndImport, ImportRaises, CreateOne, Writing, UploadInv,
         UploadTypeOK, NoUpload
<1>2. ASSUME NEW d \in UploadCall \cup {NoUpload}, upload' = [upload EXCEPT ![s] = d],
             d = NoUpload \/ (d.op = c.op /\ d.file = c.file /\ d.here = c.here)
      PROVE  ShownIsPicked'
  <2>1. /\ upload'[s] = d /\ \A t \in UploadSlots \ {s} : upload'[t] = upload[t]
        /\ Own("preview")' \subseteq Own("preview")
    <3>1. IsOwn(d) => s \in Own("preview")
      BY <1>1, <1>2 DEF Own, IsOwn
    <3>2. /\ upload'[s] = d /\ \A t \in UploadSlots \ {s} : upload'[t] = upload[t]
          /\ IsOwn(d) => Own("preview")' = Own("preview") \cup {s}
          /\ ~IsOwn(d) => Own("preview")' = Own("preview") \ {s}
      BY <1>2, UploadCallIs
    <3>. QED BY <3>1, <3>2
  <2>2. \A t \in Own("preview")' : upload'[t].file = upload[t].file
    BY <1>2, <2>1 DEF Own
  <2>. QED BY <1>1, <2>1, <2>2 DEF UploadInv, ShownIsPicked
<1>3. CASE Previewed(s)
  <2> DEFINE d == [c EXCEPT !.at = "done", !.ok = Valid(c.file)]
  <2>1. upload' = [upload EXCEPT ![s] = d] /\ c.at = "sent" /\ UNCHANGED <<catalogue, imported, torn>>
    BY <1>3 DEF Previewed, UploadInv, UploadTypeOK
  <2>2. d \in UploadCall /\ d.op = c.op /\ d.file = c.file /\ d.here = c.here /\ d.at = "done"
    <3>1. Valid(c.file) \in BOOLEAN
      BY DEF Valid
    <3>. QED BY <1>1, <3>1 DEF UploadCall
  <2> HIDE DEF d
  <2>3. UploadTypeOK' /\ Writing' = Writing /\ s \notin Writing
        /\ \A t \in UploadSlots \ {s} : upload'[t] = upload[t]
    BY <1>1, <2>1, <2>2, UploadCallIs DEF UploadInv, UploadTypeOK, Writing
  <2>4. OneAtWork'
    BY <2>1, <2>3 DEF UploadInv, OneAtWork, Writing
  <2>. QED BY <1>2, <2>1, <2>2, <2>3, <2>4 DEF UploadInv
<1>4. CASE StartImport(s)
  <2> DEFINE d == [c EXCEPT !.at = "writing", !.left = c.file]
  <2>1. /\ upload' = [upload EXCEPT ![s] = d] /\ c.at = "sent" /\ c.file \cap catalogue = {}
        /\ torn' = (torn \/ Writing # {}) /\ UNCHANGED <<catalogue, imported>>
    BY <1>4 DEF StartImport, Starts, Valid, UploadInv, UploadTypeOK
  <2>2. d \in UploadCall /\ d.op = c.op /\ d.file = c.file /\ d.here = c.here /\ d.at = "writing" /\ d.left = c.file
    BY <1>1 DEF UploadCall, Files
  <2> HIDE DEF d
  <2>3. UploadTypeOK' /\ Writing' = Writing \cup {s} /\ upload'[s] = d
    BY <1>1, <2>1, <2>2, UploadCallIs DEF UploadInv, UploadTypeOK
  <2>4. OneAtWork'
    <3> SUFFICES ASSUME ~torn, Writing = {} PROVE OneAtWork'
      BY <2>1 DEF OneAtWork
    <3>1. catalogue = UNION imported /\ d.left \cap catalogue = {} /\ d.file \ d.left = {}
      BY <2>1, <2>2 DEF UploadInv, OneAtWork
    <3>2. Writing' = {s} /\ upload'[s] = d /\ UNCHANGED <<catalogue, imported>>
      BY <2>1, <2>3
    <3>3. d.left \subseteq d.file /\ catalogue = (UNION imported) \cup (d.file \ d.left)
      BY <2>2, <3>1
    <3>. QED BY <3>1, <3>2, <3>3 DEF OneAtWork
  <2>. QED BY <1>2, <2>1, <2>2, <2>3, <2>4 DEF UploadInv
<1>5. ASSUME NEW k \in Skus, CreateOne(s, k)
      PROVE  UploadInv'
  <2> DEFINE d == [c EXCEPT !.left = c.left \ {k}]
  <2>1. /\ s \in Writing /\ k \in c.left \ catalogue /\ catalogue' = catalogue \cup {k}
        /\ upload' = [upload EXCEPT ![s] = d] /\ UNCHANGED <<imported, torn>>
    BY <1>5 DEF CreateOne, UploadInv, UploadTypeOK
  <2>2. /\ d \in UploadCall /\ d.op = c.op /\ d.file = c.file /\ d.here = c.here /\ d.at = c.at
        /\ d.left = c.left \ {k}
    BY <1>1 DEF UploadCall
  <2> HIDE DEF d
  <2>3. /\ UploadTypeOK' /\ Writing' = Writing /\ upload'[s] = d
    BY <1>1, <2>1, <2>2, UploadCallIs DEF UploadInv, UploadTypeOK, Writing
  <2>4. OneAtWork'
    <3> SUFFICES ASSUME ~torn PROVE OneAtWork'
      BY <2>1 DEF OneAtWork
    <3>1. /\ Writing = {s} /\ c.left \subseteq c.file /\ c.left \cap catalogue = {}
          /\ catalogue = (UNION imported) \cup (c.file \ c.left)
      BY <2>1 DEF UploadInv, OneAtWork
    <3>2. /\ d.left \subseteq d.file /\ d.left \cap catalogue' = {}
          /\ catalogue' = (UNION imported) \cup (d.file \ d.left)
      BY <2>1, <2>2, <3>1
    <3>. QED BY <2>1, <2>3, <3>1, <3>2 DEF OneAtWork
  <2>. QED BY <1>2, <2>1, <2>2, <2>3, <2>4 DEF UploadInv
<1>6. CASE EndImport(s)
  <2> DEFINE d == [c EXCEPT !.at = "done", !.ok = TRUE]
  <2>1. /\ s \in Writing /\ c.left = {} /\ upload' = [upload EXCEPT ![s] = d]
        /\ imported' = imported \cup {c.file} /\ UNCHANGED <<catalogue, torn>>
    BY <1>6 DEF EndImport, UploadInv, UploadTypeOK
  <2>2. d \in UploadCall /\ d.op = c.op /\ d.file = c.file /\ d.here = c.here /\ d.at = "done" /\ c.file \in Files
    BY <1>1 DEF UploadCall
  <2> HIDE DEF d
  <2>3. UploadTypeOK' /\ Writing' = Writing \ {s}
    BY <1>1, <2>1, <2>2, UploadCallIs DEF UploadInv, UploadTypeOK
  <2>4. OneAtWork'
    BY <2>1, <2>3 DEF UploadInv, OneAtWork
  <2>. QED BY <1>2, <2>1, <2>2, <2>3, <2>4 DEF UploadInv
<1>7. CASE ImportRaises(s)
  <2>1. /\ s \in Writing /\ c.left \cap catalogue # {} /\ upload' = [upload EXCEPT ![s] = NoUpload]
        /\ UNCHANGED <<catalogue, imported, torn>>
    BY <1>7 DEF ImportRaises
  <2>2. UploadTypeOK'
    BY <1>1, <2>1, UploadCallIs DEF UploadInv, UploadTypeOK
  <2>3. torn
    BY <2>1 DEF UploadInv, OneAtWork
  <2>4. OneAtWork'
    BY <2>1, <2>3 DEF OneAtWork
  <2>. QED BY <1>2, <2>1, <2>2, <2>4 DEF UploadInv
<1>. QED BY <1>3, <1>4, <1>5, <1>6, <1>7

(* a call ends for the page: with its answer, or unheard of *)
LEMMA UploadEnds ==
  ASSUME UploadInv, NEW s \in UploadSlots, UploadAnswered(s) \/ UploadFails(s)
  PROVE  UploadInv'
<1> DEFINE c == upload[s]
<1>1. /\ c \in UploadCall /\ c # NoUpload /\ upload' = [upload EXCEPT ![s] = NoUpload]
      /\ UNCHANGED <<catalogue, imported, hurried>>
  BY DEF UploadAnswered, UploadFails, UploadInv, UploadTypeOK, NoUpload
<1>2. /\ upload' \in [UploadSlots -> UploadCall \cup {NoUpload}]
      /\ \A t \in UploadSlots \ {s} : upload'[t] = upload[t]
      /\ Own("preview")' = Own("preview") \ {s} /\ Writing' = Writing \ {s}
  BY <1>1, UploadCallIs DEF NoUpload, IsOwn
<1>3. torn' = (torn \/ c.at = "writing") /\ torn' \in BOOLEAN
  BY DEF UploadAnswered, UploadFails, UploadInv, UploadTypeOK
<1>4. OneAtWork'
  <2> SUFFICES ASSUME ~torn' PROVE OneAtWork'
    BY DEF OneAtWork
  <2>1. ~torn /\ s \notin Writing
    BY <1>3 DEF Writing
  <2>. QED BY <1>1, <1>2, <2>1 DEF UploadInv, OneAtWork, Writing
<1>5. CASE modal' = modal
  <2>1. UploadTypeOK'
    BY <1>1, <1>2, <1>3, <1>5 DEF UploadInv, UploadTypeOK
  <2>2. ShownIsPicked'
    BY <1>1, <1>2, <1>5 DEF UploadInv, ShownIsPicked, Own
  <2>. QED BY <1>4, <2>1, <2>2 DEF UploadInv
<1>6. CASE UploadAnswered(s) /\ c.here /\ c.op = "confirm"
  <2>1. modal' = [modal EXCEPT !.step = "success"]
    BY <1>6 DEF UploadAnswered
  <2>2. UploadTypeOK' /\ modal'.step = "success" /\ modal'.file = modal.file
    BY <1>1, <1>2, <1>3, <2>1 DEF UploadInv, UploadTypeOK
  <2>3. ShownIsPicked'
    BY <1>1, <1>2, <2>2 DEF UploadInv, ShownIsPicked, Own
  <2>. QED BY <1>4, <2>2, <2>3 DEF UploadInv
<1>7. CASE UploadAnswered(s) /\ c.here /\ c.op = "preview"
  <2>1. modal' = [modal EXCEPT !.preview = [of |-> c.file, valid |-> c.ok],
                               !.step = IF c.ok THEN "preview" ELSE "errors"]
    BY <1>7 DEF UploadAnswered
  <2>2. [of |-> c.file, valid |-> c.ok] \in [of : Files, valid : BOOLEAN]
    BY <1>1 DEF UploadCall
  <2>3. /\ UploadTypeOK' /\ modal'.file = modal.file
        /\ modal'.preview.of = c.file /\ modal'.preview.valid = c.ok
        /\ modal'.step = IF c.ok THEN "preview" ELSE "errors"
    BY <1>1, <1>2, <1>3, <2>1, <2>2 DEF UploadInv, UploadTypeOK
  <2>4. s \in Own("preview")
    BY <1>1, <1>7 DEF Own
  <2>5. ShownIsPicked'
    BY <1>1, <1>2, <2>3, <2>4 DEF UploadInv, ShownIsPicked
  <2>. QED BY <1>4, <2>3, <2>5 DEF UploadInv
<1>8. c.op \in {"preview", "confirm"}
  BY <1>1 DEF UploadCall
<1>. QED BY <1>5, <1>6, <1>7, <1>8 DEF UploadAnswered, UploadFails

LEMMA UploadStep == UploadInv /\ [UploadNext]_uploadVars => UploadInv'
<1> SUFFICES ASSUME UploadInv, [UploadNext]_uploadVars PROVE UploadInv'
  OBVIOUS
<1>1. CASE UNCHANGED uploadVars
  BY <1>1 DEF uploadVars, UploadInv, UploadTypeOK, ShownIsPicked, OneAtWork, Own, Writing
<1>2. CASE UploadNext
  BY <1>2, ModalStep, ImportStep, UploadEnds DEF UploadNext
<1>. QED BY <1>1, <1>2

LEMMA UploadBegins == UploadInit => UploadInv
<1> SUFFICES ASSUME UploadInit PROVE UploadInv
  OBVIOUS
<1>1. UploadTypeOK
  BY DEF UploadInit, UploadTypeOK, Closed
<1>2. Own("preview") = {} /\ Writing = {} /\ modal.step = "closed"
  BY DEF UploadInit, Own, Writing, NoUpload, Closed
<1>3. ShownIsPicked /\ OneAtWork
  BY <1>2 DEF UploadInit, ShownIsPicked, OneAtWork
<1>. QED BY <1>1, <1>3 DEF UploadInv

LEMMA UploadShows == UploadInv => UploadTypeOK /\ ImportsWhatIsShown /\ ImportedWhole
BY DEF UploadInv, ShownIsPicked, OneAtWork, ImportsWhatIsShown, ImportedWhole

(* The file that Import would send is the one whose products are listed,    *)
(* unless another was picked during its preview.                            *)
THEOREM ImportsAreAsShown == UploadSpec => [](UploadTypeOK /\ ImportsWhatIsShown)
BY UploadShows, UploadBegins, UploadStep, PTL DEF UploadSpec

(* Files are imported whole or not at all, until an import dies half way or *)
(* two run at once, although the service creates product after product.     *)
THEOREM ImportsAreWhole == UploadSpec => []ImportedWhole
BY UploadShows, UploadBegins, UploadStep, PTL DEF UploadSpec

-----------------------------------------------------------------------------
(* Applications and rates                                                  *)

ListKeys == {"applicants"}
ListDatas == [k \in ListKeys |-> [Applicants -> Applicant]]

PanelCall == [s : Applicants, to : Decided, sure : BOOLEAN]
RulingCall == [at : {"sent", "done"}, s : Applicants, sure : BOOLEAN]

ApplicationTypes ==
  /\ applicant \in [Applicants -> Applicant]
  /\ panel \in PanelCall \cup {NoPanel} /\ ruling \in [Decided -> RulingCall \cup {NoRuling}]
  /\ outdated \in BOOLEAN
  /\ cell \in [Applicants -> Rates \cup {NotEdited}]
  /\ saving \in [RateSlots -> Saving \cup {NoSaving}]
  /\ entered \in [Applicants -> Rates] /\ muddled \in [Applicants -> BOOLEAN]
  /\ Loads(ListKeys, ListDatas)

(* no decision was taken that the page is still to hear of *)
Undone == \A to \in Decided : ruling[to].at # "done"

(* the lists that show every application decided as it is, and whether the *)
(* page has one when it thinks so                                           *)
ListsNow == {x \in [Applicants -> Applicant] :
  \A s \in Applicants : x[s].status = applicant[s].status}
ListTells == Tells(entry["applicants"], untold["applicants"], outdated, ListsNow)

(* one decision is under way, on an application still undecided if its      *)
(* panel was sure of it, as is that of a panel still open                   *)
RulingsKept ==
  /\ \A a, b \in Decided : ruling[a] # NoRuling /\ ruling[b] # NoRuling => a = b
  /\ \A to \in Decided : ruling[to].at = "sent" /\ ruling[to].sure =>
       applicant[ruling[to].s].status = "PENDING"
  /\ Undone /\ panel # NoPanel /\ panel.sure => applicant[panel.s].status = "PENDING"
  /\ Undone => ListTells

(* the rate of each supplier: one call at most, of the rate entered last *)
RatesKept == \A s \in Applicants : ~muddled[s] =>
  /\ \A t, u \in Entering(s) : t = u
  /\ Entering(s) = {} => applicant[s].rate = entered[s]
  /\ \A t \in Entering(s) :
       /\ saving[t].rate = entered[s]
       /\ saving[t].at = "done" => applicant[s].rate = entered[s]

ApplicationInv == ApplicationTypes /\ RulingsKept /\ RatesKept

(* the list after a step of the cache alone *)
LEMMA ListIs ==
  ASSUME ApplicationTypes
  PROVE  /\ DOMAIN entry = ListKeys /\ "applicants" \in ListKeys
         /\ entry["applicants"] \in Entry([Applicants -> Applicant])
         /\ untold["applicants"] \in BOOLEAN
         /\ \A s \in InList : Listed(s) \in Applicant
<1>1. /\ entry = [k \in ListKeys |-> entry[k]] /\ "applicants" \in ListKeys
      /\ entry["applicants"] \in Entry([Applicants -> Applicant])
      /\ untold["applicants"] \in BOOLEAN
  BY DEF ApplicationTypes, Loads, ListKeys, ListDatas
<1>2. DOMAIN entry = ListKeys
  BY <1>1
<1>3. \A s \in InList : Listed(s) \in Applicant
  BY <1>1, <1>2 DEF InList, Listed, Has, Entry
<1>. QED BY <1>1, <1>2, <1>3

(* the rates are as they were where neither they nor their calls change *)
LEMMA RatesRest ==
  ASSUME RatesKept, UNCHANGED <<saving, entered, muddled>>,
         \A s \in Applicants : applicant'[s].rate = applicant[s].rate
  PROVE  RatesKept'
BY DEF RatesKept, Entering

(* and so are the decisions *)
LEMMA RulingsRest ==
  ASSUME RulingsKept, ApplicationTypes, UNCHANGED <<panel, ruling>>,
         \A s \in Applicants : applicant'[s].status = applicant[s].status,
         Undone /\ ListTells =>
           ListTells'
  PROVE  RulingsKept'
<1>1. Undone' <=> Undone
  BY DEF Undone
<1>2. \A to \in Decided : ruling[to].at = "sent" => ruling[to].s \in Applicants
  BY DEF ApplicationTypes, RulingCall, NoRuling
<1>3. panel # NoPanel => panel.s \in Applicants
  BY DEF ApplicationTypes, PanelCall
<1>. QED BY <1>1, <1>2, <1>3 DEF RulingsKept

LEMMA ListsRest ==
  ASSUME \A s \in Applicants : applicant'[s].status = applicant[s].status
  PROVE  ListsNow' = ListsNow
BY DEF ListsNow

(* nothing is loaded and no decision taken *)
LEMMA ListRest ==
  ASSUME UNCHANGED <<entry, untold, outdated>>,
         \A s \in Applicants : applicant'[s].status = applicant[s].status
  PROVE  ListTells => ListTells'
BY ListsRest DEF ListTells

LEMMA ApplicationsLoadStep ==
  ASSUME ApplicationInv, ApplicationsLoad
  PROVE  ApplicationInv'
<1>1. UNCHANGED <<applicant, panel, ruling, rateVars>>
  BY DEF ApplicationsLoad
<1>2. /\ Loads(ListKeys, ListDatas) /\ "applicants" \in ListKeys /\ outdated \in BOOLEAN
      /\ applicant \in ListDatas["applicants"] /\ applicant \in ListsNow
      /\ ListKeys' = ListKeys /\ ListDatas' = ListDatas /\ ListsNow' = ListsNow
  BY <1>1, ListsRest DEF ApplicationInv, ApplicationTypes, ListKeys, ListDatas, ListsNow
<1>3. outdated' \in BOOLEAN /\ Loads(ListKeys, ListDatas)' /\ (ListTells => ListTells')
  <2>1. \/ /\ Answer("applicants", applicant) \/ Age("applicants") \/ Focus("applicants")
           /\ outdated' = outdated
        \/ /\ Ends("applicants")
           /\ outdated' = (outdated /\ (entry'["applicants"].stale \/ untold["applicants"]))
    BY DEF ApplicationsLoad
  <2>. QED BY <1>2, <2>1, LoadTells DEF ListTells
<1>4. ApplicationTypes' /\ RatesKept'
  BY <1>1, <1>3, RatesRest DEF ApplicationInv, ApplicationTypes, rateVars
<1>5. RulingsKept'
  BY <1>1, <1>3, RulingsRest DEF ApplicationInv
<1>. QED BY <1>4, <1>5 DEF ApplicationInv

(* the page hears that something was set, or will not be told *)
LEMMA ListHears ==
  ASSUME ApplicationInv,
         \/ Invalidate({"applicants"}, {"applicants"})
         \/ Changed({"applicants"}) /\ (UNCHANGED entry \/ Shows("applicants")),
         outdated' \/ UNCHANGED <<applicant, outdated>>
  PROVE  Loads(ListKeys, ListDatas)' /\ (outdated' \/ ListTells => ListTells')
<1>1. /\ Loads(ListKeys, ListDatas) /\ "applicants" \in ListKeys
      /\ ListKeys' = ListKeys /\ ListDatas' = ListDatas
  BY DEF ApplicationInv, ApplicationTypes, ListKeys, ListDatas
<1>2. ASSUME NEW G, NEW now, now \/ Tells(entry["applicants"], untold["applicants"], now, G)
      PROVE  /\ Loads(ListKeys, ListDatas)'
             /\ Tells(entry'["applicants"], untold'["applicants"], now, G)
  BY <1>1, <1>2, InvalidateTells, UnheardTells
<1>3. Loads(ListKeys, ListDatas)'
  BY <1>2
<1>4. ASSUME outdated' \/ ListTells
      PROVE  ListTells'
  <2>1. outdated' \/ Tells(entry["applicants"], untold["applicants"], outdated', ListsNow')
    BY <1>4, ListsRest DEF ListTells
  <2>. QED BY <1>2, <2>1 DEF ListTells
<1>. QED BY <1>3, <1>4

LEMMA UsePanelStep ==
  ASSUME ApplicationInv, UsePanel
  PROVE  ApplicationInv'
<1>1. UNCHANGED <<applicant, ruling, outdated, rateVars, loadVars>>
  BY DEF UsePanel
<1>2. \/ panel' = NoPanel
      \/ \E s \in InList, to \in Decided :
           Listed(s).status = "PENDING" /\ panel' = [s |-> s, to |-> to, sure |-> ~outdated]
  BY DEF UsePanel
<1>3. panel' \in PanelCall \cup {NoPanel}
  <2>1. \A s \in InList, to \in Decided : [s |-> s, to |-> to, sure |-> ~outdated] \in PanelCall
    BY DEF InList, PanelCall
  <2>. QED BY <1>2, <2>1
<1>4. Undone /\ panel' # NoPanel /\ panel'.sure => applicant[panel'.s].status = "PENDING"
  <2> SUFFICES ASSUME Undone, panel' # NoPanel, panel'.sure PROVE applicant[panel'.s].status = "PENDING"
    OBVIOUS
  <2>1. PICK s \in InList, to \in Decided :
          Listed(s).status = "PENDING" /\ panel' = [s |-> s, to |-> to, sure |-> ~outdated]
    BY <1>2
  <2>2. panel'.s = s /\ ~outdated
    BY <2>1
  <2>3. entry["applicants"].data # NoData /\ s \in Applicants
    BY <2>1 DEF InList, Has
  <2>. QED BY <2>1, <2>2, <2>3 DEF ApplicationInv, RulingsKept, ListTells, Tells, ListsNow, Listed
<1>5. ApplicationTypes' /\ RatesKept'
  BY <1>1, <1>3, RatesRest DEF ApplicationInv, ApplicationTypes, rateVars, loadVars, Loads, ListDatas
<1>6. RulingsKept'
  BY <1>1, <1>4, ListRest DEF ApplicationInv, RulingsKept, Undone, loadVars
<1>. QED BY <1>5, <1>6 DEF ApplicationInv

(* the call of a decision goes to c: it is the only one *)
LEMMA RulingIs ==
  ASSUME ApplicationInv, NEW to \in Decided, NEW c \in RulingCall \cup {NoRuling},
         ruling' = [ruling EXCEPT ![to] = c]
  PROVE  /\ ruling' \in [Decided -> RulingCall \cup {NoRuling}] /\ ruling'[to] = c
         /\ \A d \in Decided \ {to} : ruling'[d] = ruling[d]
         /\ \A d \in Decided \ {to} : ruling[to] # NoRuling => ruling'[d] = NoRuling
BY DEF ApplicationInv, ApplicationTypes, RulingsKept

LEMMA ConfirmRulingStep ==
  ASSUME ApplicationInv, NEW to \in Decided, ConfirmRuling(to)
  PROVE  ApplicationInv'
<1> DEFINE c == [at |-> "sent", s |-> panel.s, sure |-> panel.sure]
<1>1. /\ panel # NoPanel /\ ruling = [d \in Decided |-> NoRuling] /\ ruling' = [ruling EXCEPT ![to] = c]
      /\ UNCHANGED <<applicant, panel, outdated, rateVars, loadVars>>
  BY DEF ConfirmRuling, CanConfirm
<1>2. c \in RulingCall /\ c.at = "sent" /\ c.s = panel.s /\ c.sure = panel.sure
  BY <1>1 DEF ApplicationInv, ApplicationTypes, PanelCall, RulingCall
<1> HIDE DEF c
<1>3. /\ ruling' \in [Decided -> RulingCall \cup {NoRuling}] /\ ruling'[to] = c
      /\ \A d \in Decided \ {to} : ruling'[d] = NoRuling
  BY <1>1, <1>2, RulingIs
<1>4. ApplicationTypes' /\ RatesKept'
  BY <1>1, <1>3, RatesRest DEF ApplicationInv, ApplicationTypes, rateVars, loadVars, Loads, ListDatas
<1>5. Undone /\ Undone'
  BY <1>1, <1>2, <1>3 DEF Undone, NoRuling
<1>6. RulingsKept'
  BY <1>1, <1>2, <1>3, <1>5, ListRest DEF ApplicationInv, RulingsKept, NoRuling, loadVars
<1>. QED BY <1>4, <1>6 DEF ApplicationInv

LEMMA RulingHandledStep ==
  ASSUME ApplicationInv, NEW to \in Decided, RulingHandled(to)
  PROVE  ApplicationInv'
<1> DEFINE c == [ruling[to] EXCEPT !.at = "done"]
           s == ruling[to].s
           x == [applicant[s] EXCEPT !.status = to]
<1>1. /\ ruling[to].at = "sent" /\ applicant' = [applicant EXCEPT ![s] = x]
      /\ ruling' = [ruling EXCEPT ![to] = c] /\ UNCHANGED <<panel, outdated, rateVars, loadVars>>
  BY DEF RulingHandled, ApplicationInv, ApplicationTypes
<1>2. s \in Applicants /\ c \in RulingCall /\ c.at = "done"
  BY <1>1 DEF ApplicationInv, ApplicationTypes, RulingCall, NoRuling
<1>3. x \in Applicant /\ x.rate = applicant[s].rate
  BY <1>2 DEF ApplicationInv, ApplicationTypes, Applicant
<1> HIDE DEF c, s, x
<1>4. /\ ruling' \in [Decided -> RulingCall \cup {NoRuling}] /\ ruling'[to] = c
      /\ ruling[to] # NoRuling => \A d \in Decided \ {to} : ruling'[d] = NoRuling
  BY <1>1, <1>2, RulingIs
<1>5. applicant' \in [Applicants -> Applicant] /\ \A r \in Applicants : applicant'[r].rate = applicant[r].rate
  BY <1>1, <1>2, <1>3 DEF ApplicationInv, ApplicationTypes
<1>6. ApplicationTypes' /\ RatesKept'
  BY <1>1, <1>4, <1>5, RatesRest DEF ApplicationInv, ApplicationTypes, rateVars, loadVars, Loads, ListDatas
<1>7. ~Undone' /\ ruling[to] # NoRuling
  BY <1>1, <1>2, <1>4 DEF Undone, NoRuling
<1>8. RulingsKept'
  BY <1>2, <1>4, <1>7 DEF RulingsKept, NoRuling
<1>. QED BY <1>6, <1>8 DEF ApplicationInv

LEMMA RulingSucceededStep ==
  ASSUME ApplicationInv, NEW to \in Decided, RulingSucceeded(to)
  PROVE  ApplicationInv'
<1>1. /\ ruling[to].at = "done" /\ ruling' = [ruling EXCEPT ![to] = NoRuling] /\ panel' = NoPanel
      /\ outdated' = TRUE /\ Invalidate({"applicants"}, {"applicants"}) /\ UNCHANGED <<applicant, rateVars>>
  BY DEF RulingSucceeded
<1>2. /\ ruling' \in [Decided -> RulingCall \cup {NoRuling}]
      /\ \A d \in Decided : ruling'[d] = NoRuling
  <2>1. ruling[to] # NoRuling
    BY <1>1 DEF NoRuling
  <2>. QED BY <1>1, <2>1, RulingIs
<1>3. Loads(ListKeys, ListDatas)' /\ ListTells'
  BY <1>1, ListHears
<1>4. ApplicationTypes' /\ RatesKept'
  BY <1>1, <1>2, <1>3, RatesRest DEF ApplicationInv, ApplicationTypes, rateVars
<1>5. RulingsKept'
  BY <1>1, <1>2, <1>3 DEF RulingsKept, NoRuling
<1>. QED BY <1>4, <1>5 DEF ApplicationInv

LEMMA UnsureIs ==
  ASSUME ApplicationTypes
  PROVE  /\ Unsure(panel) \in PanelCall \cup {NoPanel}
         /\ Unsure(panel) # NoPanel => ~Unsure(panel).sure
BY DEF ApplicationTypes, Unsure, PanelCall

LEMMA RulingFailsStep ==
  ASSUME ApplicationInv, NEW to \in Decided, RulingFails(to)
  PROVE  ApplicationInv'
<1>1. /\ ruling[to].at \in {"sent", "done"} /\ ruling' = [ruling EXCEPT ![to] = NoRuling]
      /\ UNCHANGED <<applicant, entry, rateVars>>
  BY DEF RulingFails
<1>2. /\ ruling' \in [Decided -> RulingCall \cup {NoRuling}]
      /\ \A d \in Decided : ruling'[d] = NoRuling
  <2>1. ruling[to] # NoRuling
    BY <1>1 DEF NoRuling
  <2>. QED BY <1>1, <2>1, RulingIs
<1>3. RatesKept' /\ NoRuling.at = "idle"
  BY <1>1, RatesRest DEF ApplicationInv, rateVars, NoRuling
<1>4. CASE ruling[to].at = "done"
  <2>1. Changed({"applicants"}) /\ outdated' = TRUE /\ panel' = Unsure(panel)
    BY <1>4 DEF RulingFails
  <2>3. Loads(ListKeys, ListDatas)' /\ ListTells'
    BY <1>1, <2>1, ListHears
  <2>4. panel' \in PanelCall \cup {NoPanel} /\ (panel' # NoPanel => ~panel'.sure)
    BY <2>1, UnsureIs DEF ApplicationInv
  <2>5. ApplicationTypes'
    BY <1>1, <1>2, <2>1, <2>3, <2>4 DEF ApplicationInv, ApplicationTypes, rateVars
  <2>6. RulingsKept'
    BY <1>2, <1>3, <2>3, <2>4 DEF RulingsKept
  <2>. QED BY <1>3, <2>5, <2>6 DEF ApplicationInv
<1>5. CASE ruling[to].at = "sent"
  <2>1. UNCHANGED <<untold, outdated, panel>>
    BY <1>5 DEF RulingFails
  <2>2. Undone
    <3>1. \A d \in Decided \ {to} : ruling[d] = NoRuling
      BY <1>5 DEF ApplicationInv, RulingsKept, NoRuling
    <3>. QED BY <1>3, <1>5, <3>1 DEF Undone
  <2>3. ApplicationTypes'
    BY <1>1, <1>2, <2>1 DEF ApplicationInv, ApplicationTypes, rateVars, Loads, ListDatas
  <2>4. RulingsKept'
    BY <1>1, <1>2, <1>3, <2>1, <2>2, ListRest DEF ApplicationInv, RulingsKept
  <2>. QED BY <1>3, <2>3, <2>4 DEF ApplicationInv
<1>. QED BY <1>1, <1>4, <1>5

LEMMA LeaveApplicationsStep ==
  ASSUME ApplicationInv, LeaveApplications
  PROVE  ApplicationInv'
<1>1. /\ panel' = NoPanel /\ ruling' = [to \in Decided |-> NoRuling] /\ Shows("applicants")
      /\ UNCHANGED <<applicant, rateVars>>
  BY DEF LeaveApplications
<1>2. \/ Changed({"applicants"}) /\ outdated' = TRUE
      \/ Undone /\ UNCHANGED <<untold, outdated>>
  BY DEF LeaveApplications, Undone
<1>3. outdated' \in BOOLEAN /\ Loads(ListKeys, ListDatas)' /\ ListTells'
  <2>1. CASE Changed({"applicants"}) /\ outdated' = TRUE
    BY <1>1, <2>1, ListHears
  <2>2. CASE Undone /\ UNCHANGED <<untold, outdated>>
    <3>1. /\ Loads(ListKeys, ListDatas) /\ "applicants" \in ListKeys /\ outdated \in BOOLEAN
          /\ ListKeys' = ListKeys /\ ListDatas' = ListDatas /\ ListsNow' = ListsNow
      BY <1>1, ListsRest DEF ApplicationInv, ApplicationTypes, ListKeys, ListDatas
    <3>2. Tells(entry["applicants"], untold["applicants"], outdated, ListsNow)
      BY <2>2 DEF ApplicationInv, RulingsKept, ListTells
    <3>3. /\ Loads(ListKeys, ListDatas)'
          /\ Tells(entry'["applicants"], untold'["applicants"], outdated, ListsNow)
      BY <1>1, <2>2, <3>1, <3>2, UnheardTells
    <3>. QED BY <2>2, <3>1, <3>3 DEF ListTells
  <2>. QED BY <1>2, <2>1, <2>2
<1>4. ApplicationTypes' /\ RatesKept'
  BY <1>1, <1>3, RatesRest DEF ApplicationInv, ApplicationTypes, rateVars
<1>5. RulingsKept'
  BY <1>1, <1>3 DEF RulingsKept, NoRuling
<1>. QED BY <1>4, <1>5 DEF ApplicationInv

LEMMA RuledElsewhereStep ==
  ASSUME ApplicationInv, NEW s \in Applicants, RuledElsewhere(s)
  PROVE  ApplicationInv'
<1> DEFINE unsure(to) == [ruling[to] EXCEPT !.sure = FALSE]
<1>1. /\ ruling' = [to \in Decided |-> unsure(to)] /\ outdated' = TRUE /\ panel' = Unsure(panel)
      /\ Changed({"applicants"}) /\ UNCHANGED <<entry, rateVars>>
  BY DEF RuledElsewhere
<1>2. ASSUME NEW to \in Decided
      PROVE  /\ unsure(to) \in RulingCall \cup {NoRuling} /\ ~unsure(to).sure
             /\ unsure(to) # NoRuling => ruling[to] # NoRuling
  <2>1. CASE ruling[to] \in RulingCall
    <3>1. ruling[to] # NoRuling
      BY <2>1 DEF RulingCall, NoRuling
    <3>2. unsure(to) \in RulingCall /\ unsure(to).sure = FALSE
      BY <2>1 DEF RulingCall
    <3>. QED BY <3>1, <3>2
  <2>2. CASE ruling[to] = NoRuling
    <3>1. /\ NoRuling = [f \in {"at", "sure"} |-> NoRuling[f]] /\ NoRuling["sure"] = FALSE
      BY DEF NoRuling
    <3>2. [NoRuling EXCEPT !.sure = FALSE] = NoRuling
      BY <3>1
    <3>3. unsure(to) = NoRuling /\ ~NoRuling.sure
      BY <2>2, <3>1, <3>2
    <3>. QED BY <3>3
  <2>. QED BY <2>1, <2>2 DEF ApplicationInv, ApplicationTypes
<1> HIDE DEF unsure
<1>3. /\ ruling' \in [Decided -> RulingCall \cup {NoRuling}]
      /\ \A to \in Decided : ~ruling'[to].sure /\ (ruling'[to] # NoRuling => ruling[to] # NoRuling)
  BY <1>1, <1>2
<1>4. PICK to \in Decided : applicant' = [applicant EXCEPT ![s].status = to]
  BY DEF RuledElsewhere
<1>5. /\ applicant' \in [Applicants -> Applicant]
      /\ \A r \in Applicants : applicant'[r].rate = applicant[r].rate
  <2> DEFINE x == [applicant[s] EXCEPT !.status = to]
  <2>1. applicant' = [applicant EXCEPT ![s] = x]
    BY <1>4 DEF ApplicationInv, ApplicationTypes
  <2>2. x \in Applicant /\ x.rate = applicant[s].rate
    BY DEF ApplicationInv, ApplicationTypes, Applicant
  <2> HIDE DEF x
  <2>. QED BY <2>1, <2>2 DEF ApplicationInv, ApplicationTypes
<1>6. Loads(ListKeys, ListDatas)' /\ ListTells'
  BY <1>1, ListHears
<1>8. panel' \in PanelCall \cup {NoPanel} /\ (panel' # NoPanel => ~panel'.sure)
  BY <1>1, UnsureIs DEF ApplicationInv
<1>9. ApplicationTypes'
  BY <1>1, <1>3, <1>5, <1>6, <1>8 DEF ApplicationInv, ApplicationTypes, rateVars
<1>10. RulingsKept'
  BY <1>3, <1>6, <1>8 DEF ApplicationInv, RulingsKept
<1>11. RatesKept'
  BY <1>1, <1>5, RatesRest DEF ApplicationInv, rateVars
<1>. QED BY <1>9, <1>10, <1>11 DEF ApplicationInv

(* the call t goes to c *)
LEMMA SavingIs ==
  ASSUME ApplicationTypes, NEW t \in RateSlots, NEW c \in Saving \cup {NoSaving},
         saving' = [saving EXCEPT ![t] = c]
  PROVE  /\ saving' \in [RateSlots -> Saving \cup {NoSaving}] /\ saving'[t] = c
         /\ \A u \in RateSlots \ {t} : saving'[u] = saving[u]
         /\ \A s \in Applicants : Entering(s)' =
              IF c # NoSaving /\ c.s = s THEN Entering(s) \cup {t} ELSE Entering(s) \ {t}
<1>1. /\ saving' \in [RateSlots -> Saving \cup {NoSaving}] /\ saving'[t] = c
      /\ \A u \in RateSlots \ {t} : saving'[u] = saving[u]
  BY DEF ApplicationTypes
<1>. QED BY <1>1 DEF Entering

(* the rows of another page, or typing in the cells *)
LEMMA EditRateStep ==
  ASSUME ApplicationInv, NEW s \in Rated, EditRate(s)
  PROVE  ApplicationInv'
<1>1. /\ s \in Applicants
      /\ UNCHANGED <<applicant, rulingVars, entered, muddled, loadVars>>
  BY ApplicationsAssumption DEF EditRate
<1>2. cell' \in [Applicants -> Rates \cup {NotEdited}]
  <2>1. \A r \in Rates \cup {NotEdited} :
          [cell EXCEPT ![s] = r] \in [Applicants -> Rates \cup {NotEdited}]
    BY <1>1 DEF ApplicationInv, ApplicationTypes
  <2>2. s \in InList => Listed(s).rate \in Rates
    BY ListIs DEF ApplicationInv, Applicant
  <2>. QED BY <2>1, <2>2 DEF EditRate
<1>3. /\ saving' \in [RateSlots -> Saving \cup {NoSaving}]
      /\ \A t \in RateSlots :
           /\ saving'[t] = NoSaving <=> saving[t] = NoSaving
           /\ saving[t] # NoSaving => /\ saving'[t].s = saving[t].s /\ saving'[t].at = saving[t].at
                                      /\ saving'[t].rate = saving[t].rate
  <2>1. CASE UNCHANGED saving
    BY <2>1 DEF ApplicationInv, ApplicationTypes
  <2> DEFINE gone(t) == [saving[t] EXCEPT !.here = FALSE]
             new(t) == IF saving[t] # NoSaving /\ saving[t].s = s THEN gone(t) ELSE saving[t]
  <2>2. ASSUME NEW t \in RateSlots, saving[t] # NoSaving
        PROVE  /\ gone(t) \in Saving /\ gone(t) # NoSaving /\ gone(t).s = saving[t].s
               /\ gone(t).at = saving[t].at /\ gone(t).rate = saving[t].rate
    <3>1. saving[t] \in Saving
      BY <2>2 DEF ApplicationInv, ApplicationTypes
    <3>2. /\ gone(t) \in Saving /\ gone(t).s = saving[t].s
          /\ gone(t).at = saving[t].at /\ gone(t).rate = saving[t].rate
      BY <3>1 DEF Saving
    <3>3. gone(t) # NoSaving
      BY <3>2 DEF Saving, NoSaving
    <3>. QED BY <3>2, <3>3
  <2> HIDE DEF gone
  <2>3. CASE saving' = [t \in RateSlots |-> new(t)]
    BY <2>2, <2>3 DEF ApplicationInv, ApplicationTypes
  <2>. QED BY <2>1, <2>3 DEF EditRate, gone
<1>4. ApplicationTypes'
  BY <1>1, <1>2, <1>3 DEF ApplicationInv, ApplicationTypes, rulingVars, loadVars, Loads, ListDatas
<1>5. RulingsKept'
  BY <1>1, RulingsRest, ListRest DEF ApplicationInv, rulingVars, loadVars
<1>6. \A r \in Applicants : Entering(r)' = Entering(r)
  BY <1>3 DEF Entering
<1>7. RatesKept'
  BY <1>1, <1>3, <1>6 DEF ApplicationInv, RatesKept, Entering
<1>. QED BY <1>4, <1>5, <1>7 DEF ApplicationInv

LEMMA SaveRateStep ==
  ASSUME ApplicationInv, NEW s \in Rated, SaveRate(s)
  PROVE  ApplicationInv'
<1> DEFINE c == [at |-> "sent", s |-> s, rate |-> cell[s], here |-> TRUE]
           t == CHOOSE t \in RateSlots : saving[t] = NoSaving
<1>1. /\ s \in Applicants /\ t \in RateSlots /\ saving[t] = NoSaving /\ cell[s] # NotEdited
      /\ saving' = [saving EXCEPT ![t] = c] /\ entered' = [entered EXCEPT ![s] = cell[s]]
      /\ muddled' = [muddled EXCEPT ![s] = @ \/ Entering(s) # {}]
      /\ UNCHANGED <<applicant, rulingVars, cell, loadVars>>
  BY ApplicationsAssumption DEF SaveRate
<1>2. cell[s] \in Rates
  BY <1>1 DEF ApplicationInv, ApplicationTypes
<1>3. c \in Saving /\ c # NoSaving /\ c.s = s /\ c.rate = cell[s] /\ c.at = "sent"
  BY <1>1, <1>2 DEF Saving, NoSaving
<1> HIDE DEF c, t
<1>4. /\ saving' \in [RateSlots -> Saving \cup {NoSaving}] /\ saving'[t] = c
      /\ \A u \in RateSlots \ {t} : saving'[u] = saving[u]
      /\ \A r \in Applicants : Entering(r)' = IF c # NoSaving /\ c.s = r THEN Entering(r) \cup {t} ELSE Entering(r) \ {t}
  BY <1>1, <1>3, SavingIs DEF ApplicationInv
<1>5. \A r \in Applicants : t \notin Entering(r)
  BY <1>1 DEF Entering
<1>6. /\ \A r \in Applicants \ {s} : Entering(r)' = Entering(r)
      /\ Entering(s)' = Entering(s) \cup {t}
  <2>1. ASSUME NEW r \in Applicants PROVE Entering(r)' = IF s = r THEN Entering(r) \cup {t} ELSE Entering(r) \ {t}
    BY <1>3, <1>4
  <2>2. \A r \in Applicants : Entering(r) \ {t} = Entering(r)
    BY <1>5
  <2>. QED BY <1>1, <2>1, <2>2
<1>7. /\ entered' \in [Applicants -> Rates] /\ entered'[s] = cell[s]
      /\ muddled' \in [Applicants -> BOOLEAN] /\ (~muddled'[s] => Entering(s) = {})
      /\ \A r \in Applicants \ {s} : entered'[r] = entered[r] /\ muddled'[r] = muddled[r]
  BY <1>1, <1>2 DEF ApplicationInv, ApplicationTypes
<1>8. ApplicationTypes'
  BY <1>1, <1>4, <1>7 DEF ApplicationInv, ApplicationTypes, rulingVars, loadVars, Loads, ListDatas
<1>9. RulingsKept'
  BY <1>1, RulingsRest, ListRest DEF ApplicationInv, rulingVars, loadVars
<1>10. RatesKept'
  <2> SUFFICES ASSUME NEW r \in Applicants, ~muddled'[r]
               PROVE  /\ \A u, v \in Entering(r)' : u = v
                      /\ Entering(r)' = {} => applicant'[r].rate = entered'[r]
                      /\ \A u \in Entering(r)' :
                           /\ saving'[u].rate = entered'[r]
                           /\ saving'[u].at = "done" => applicant'[r].rate = entered'[r]
    BY DEF RatesKept
  <2>1. CASE r = s
    BY <1>3, <1>4, <1>6, <1>7, <2>1
  <2>2. CASE r # s
    <3>1. \A u \in Entering(r) : saving'[u] = saving[u]
      BY <1>4, <1>5 DEF Entering
    <3>. QED BY <1>1, <1>6, <1>7, <2>2, <3>1 DEF ApplicationInv, RatesKept
  <2>. QED BY <2>1, <2>2
<1>. QED BY <1>8, <1>9, <1>10 DEF ApplicationInv

LEMMA RateHandledStep ==
  ASSUME ApplicationInv, NEW t \in RateSlots, RateHandled(t)
  PROVE  ApplicationInv'
<1> DEFINE s == saving[t].s
           c == [saving[t] EXCEPT !.at = "done"]
           x == [applicant[s] EXCEPT !.rate = saving[t].rate]
<1>1. /\ saving[t].at = "sent" /\ applicant' = [applicant EXCEPT ![s] = x]
      /\ saving' = [saving EXCEPT ![t] = c]
      /\ UNCHANGED <<rulingVars, cell, entered, muddled, loadVars>>
  BY DEF RateHandled, Saves, ApplicationInv, ApplicationTypes
<1>2. saving[t] \in Saving /\ saving[t] # NoSaving /\ s \in Applicants /\ saving[t].rate \in Rates
  BY <1>1 DEF ApplicationInv, ApplicationTypes, Saving, NoSaving
<1>3. c \in Saving /\ c.at = "done" /\ c.s = s /\ c.rate = saving[t].rate
  BY <1>2 DEF Saving
<1>4. x \in Applicant /\ x.status = applicant[s].status /\ x.rate = saving[t].rate
  BY <1>2 DEF ApplicationInv, ApplicationTypes, Applicant
<1>5. c # NoSaving /\ t \in Entering(s) /\ \A r \in Applicants \ {s} : t \notin Entering(r)
  BY <1>2, <1>3 DEF NoSaving, Entering
<1> HIDE DEF c, s, x
<1>6. /\ saving' \in [RateSlots -> Saving \cup {NoSaving}] /\ saving'[t] = c
      /\ \A u \in RateSlots \ {t} : saving'[u] = saving[u]
      /\ \A r \in Applicants : Entering(r)' = IF c # NoSaving /\ c.s = r THEN Entering(r) \cup {t} ELSE Entering(r) \ {t}
  BY <1>1, <1>3, SavingIs DEF ApplicationInv
<1>7. \A r \in Applicants : Entering(r)' = Entering(r)
  <2>1. ASSUME NEW r \in Applicants
        PROVE  Entering(r)' = IF s = r THEN Entering(r) \cup {t} ELSE Entering(r) \ {t}
    BY <1>3, <1>5, <1>6
  <2>2. ASSUME NEW r \in Applicants
        PROVE  IF s = r THEN Entering(r) \cup {t} = Entering(r) ELSE Entering(r) \ {t} = Entering(r)
    BY <1>5
  <2>. QED BY <2>1, <2>2
<1>8. /\ applicant' \in [Applicants -> Applicant] /\ applicant'[s] = x
      /\ \A r \in Applicants \ {s} : applicant'[r] = applicant[r]
  BY <1>1, <1>2, <1>4 DEF ApplicationInv, ApplicationTypes
<1>9. ApplicationTypes'
  BY <1>1, <1>6, <1>8 DEF ApplicationInv, ApplicationTypes, rulingVars, loadVars, Loads, ListDatas
<1>10. RulingsKept'
  <2>1. \A r \in Applicants : applicant'[r].status = applicant[r].status
    BY <1>4, <1>8
  <2>. QED BY <1>1, <2>1, RulingsRest, ListRest DEF ApplicationInv, rulingVars, loadVars
<1>11. RatesKept'
  <2> SUFFICES ASSUME NEW r \in Applicants, ~muddled[r]
               PROVE  /\ \A u, v \in Entering(r) : u = v
                      /\ Entering(r) = {} => applicant'[r].rate = entered[r]
                      /\ \A u \in Entering(r) :
                           /\ saving'[u].rate = entered[r]
                           /\ saving'[u].at = "done" => applicant'[r].rate = entered[r]
    BY <1>1, <1>7 DEF RatesKept
  <2>1. /\ \A u, v \in Entering(r) : u = v
        /\ Entering(r) = {} => applicant[r].rate = entered[r]
        /\ \A u \in Entering(r) :
             /\ saving[u].rate = entered[r]
             /\ saving[u].at = "done" => applicant[r].rate = entered[r]
    BY DEF ApplicationInv, RatesKept
  <2>2. CASE r = s
    BY <1>3, <1>4, <1>5, <1>6, <1>8, <2>1, <2>2
  <2>3. CASE r # s
    <3>1. \A u \in Entering(r) : saving'[u] = saving[u]
      BY <1>5, <1>6, <2>3 DEF Entering
    <3>. QED BY <1>8, <2>1, <2>3, <3>1
  <2>. QED BY <2>2, <2>3
<1>. QED BY <1>9, <1>10, <1>11 DEF ApplicationInv

LEMMA RateEnds ==
  ASSUME ApplicationInv, NEW t \in RateSlots, RateSaved(t) \/ RateFails(t)
  PROVE  ApplicationInv'
<1> DEFINE s == saving[t].s
<1>1. /\ saving[t] # NoSaving /\ saving' = [saving EXCEPT ![t] = NoSaving]
      /\ UNCHANGED <<applicant, rulingVars, entered>>
  BY DEF RateSaved, RateFails, NoSaving, rulingVars
<1>2. s \in Applicants /\ saving[t].at \in {"sent", "done"} /\ t \in Entering(s)
      /\ \A r \in Applicants \ {s} : t \notin Entering(r)
  BY <1>1 DEF ApplicationInv, ApplicationTypes, Saving, Entering
<1>3. /\ saving' \in [RateSlots -> Saving \cup {NoSaving}]
      /\ \A u \in RateSlots \ {t} : saving'[u] = saving[u]
      /\ \A r \in Applicants : Entering(r)' = Entering(r) \ {t}
  BY <1>1, SavingIs DEF ApplicationInv
<1>4. \/ saving[t].at = "done" /\ UNCHANGED muddled
      \/ muddled' = [muddled EXCEPT ![s] = TRUE]
  BY DEF RateSaved, RateFails
<1>5. muddled' \in [Applicants -> BOOLEAN]
  BY <1>4 DEF ApplicationInv, ApplicationTypes
<1>6. RatesKept'
  <2> HIDE DEF s
  <2> SUFFICES ASSUME NEW r \in Applicants, ~muddled'[r]
               PROVE  /\ \A u, v \in Entering(r) \ {t} : u = v
                      /\ Entering(r) \ {t} = {} => applicant[r].rate = entered[r]
                      /\ \A u \in Entering(r) \ {t} :
                           /\ saving'[u].rate = entered[r]
                           /\ saving'[u].at = "done" => applicant[r].rate = entered[r]
    BY <1>1, <1>3 DEF RatesKept
  <2>1. ~muddled[r] /\ (r = s => saving[t].at = "done")
    BY <1>2, <1>4 DEF ApplicationInv, ApplicationTypes
  <2>2. /\ \A u, v \in Entering(r) : u = v
        /\ Entering(r) = {} => applicant[r].rate = entered[r]
        /\ \A u \in Entering(r) :
             /\ saving[u].rate = entered[r]
             /\ saving[u].at = "done" => applicant[r].rate = entered[r]
    BY <2>1 DEF ApplicationInv, RatesKept
  <2>3. \A u \in Entering(r) \ {t} : saving'[u] = saving[u]
    BY <1>3 DEF Entering
  <2>. QED BY <1>2, <2>1, <2>2, <2>3
<1>7. CASE RateSaved(t)
  <2>1. Invalidate({"applicants"}, {"applicants"}) /\ UNCHANGED <<panel, ruling, outdated>>
    BY <1>7 DEF RateSaved, rulingVars
  <2>2. cell' \in [Applicants -> Rates \cup {NotEdited}]
    BY <1>2, <1>7 DEF RateSaved, ApplicationInv, ApplicationTypes
  <2>3. Loads(ListKeys, ListDatas)' /\ (ListTells => ListTells')
    BY <1>1, <2>1, ListHears
  <2>4. ApplicationTypes'
    BY <1>1, <1>3, <1>5, <2>1, <2>2, <2>3 DEF ApplicationInv, ApplicationTypes
  <2>5. RulingsKept'
    BY <1>1, <2>1, <2>3, RulingsRest DEF ApplicationInv
  <2>. QED BY <1>6, <2>4, <2>5 DEF ApplicationInv
<1>8. CASE RateFails(t)
  <2>1. UNCHANGED <<cell, entry, panel, ruling, outdated>> /\ (Changed({"applicants"}) \/ UNCHANGED untold)
    BY <1>8 DEF RateFails, rulingVars
  <2>3. Loads(ListKeys, ListDatas)' /\ (ListTells => ListTells')
    <3>1. CASE Changed({"applicants"})
      BY <1>1, <2>1, <3>1, ListHears
    <3>2. CASE UNCHANGED untold
      BY <1>1, <2>1, <3>2, ListRest DEF ApplicationInv, ApplicationTypes, Loads, ListDatas
    <3>. QED BY <2>1, <3>1, <3>2
  <2>4. ApplicationTypes'
    BY <1>1, <1>3, <1>5, <2>1, <2>3 DEF ApplicationInv, ApplicationTypes
  <2>5. RulingsKept'
    BY <1>1, <2>1, <2>3, RulingsRest DEF ApplicationInv
  <2>. QED BY <1>6, <2>4, <2>5 DEF ApplicationInv
<1>. QED BY <1>7, <1>8

LEMMA ApplicationsStep ==
  ApplicationInv /\ [RulingsNext \/ RatesNext]_applicationVars => ApplicationInv'
<1> SUFFICES ASSUME ApplicationInv, [RulingsNext \/ RatesNext]_applicationVars PROVE ApplicationInv'
  OBVIOUS
<1>1. CASE UNCHANGED applicationVars
  <2>1. /\ UNCHANGED <<applicant, panel, ruling, outdated, cell, saving, entered, muddled, entry, untold>>
    BY <1>1 DEF applicationVars, rulingVars, rateVars, loadVars
  <2>2. ApplicationTypes' /\ RatesKept'
    BY <2>1, RatesRest DEF ApplicationInv, ApplicationTypes, Loads, ListDatas
  <2>3. RulingsKept'
    BY <2>1, RulingsRest, ListRest DEF ApplicationInv
  <2>. QED BY <2>2, <2>3 DEF ApplicationInv
<1>2. CASE RulingsNext
  BY <1>2, ApplicationsLoadStep, UsePanelStep, ConfirmRulingStep, RulingHandledStep,
     RulingSucceededStep, RulingFailsStep, LeaveApplicationsStep, RuledElsewhereStep DEF RulingsNext
<1>3. CASE RatesNext
  BY <1>3, ApplicationsLoadStep, EditRateStep, SaveRateStep, RateHandledStep, RateEnds DEF RatesNext
<1>. QED BY <1>1, <1>2, <1>3

LEMMA ApplicationsBegin == ApplicationsInit => ApplicationInv
<1> SUFFICES ASSUME ApplicationsInit PROVE ApplicationInv
  OBVIOUS
<1>1. /\ applicant \in [Applicants -> Applicant] /\ panel = NoPanel
      /\ ruling = [to \in Decided |-> NoRuling] /\ outdated = FALSE
      /\ cell = [s \in Applicants |-> NotEdited] /\ saving = [t \in RateSlots |-> NoSaving]
      /\ entered = [s \in Applicants |-> applicant[s].rate]
      /\ muddled = [s \in Applicants |-> FALSE]
  BY DEF ApplicationsInit, ApplicationsStart
<1>2. Follows(ListKeys, ListDatas, [k \in ListKeys |-> applicant], {})
  BY InitFollows DEF ApplicationsInit, ListKeys
<1>3. ApplicationTypes
  BY <1>1, <1>2 DEF ApplicationTypes, Applicant, Follows
<1>4. entry["applicants"].fetch # "read" /\ entry["applicants"].data = NoData
  BY DEF ApplicationsInit, LoadingInit, Empty, Observed
<1>5. RulingsKept
  BY <1>1, <1>4 DEF RulingsKept, NoRuling, ListTells, Tells
<1>6. RatesKept
  BY <1>1 DEF RatesKept, Entering
<1>. QED BY <1>3, <1>5, <1>6 DEF ApplicationInv

LEMMA ApplicationsShow == ApplicationInv => ApplicationsTypeOK /\ RateAsEntered
<1> SUFFICES ASSUME ApplicationInv PROVE ApplicationsTypeOK /\ RateAsEntered
  OBVIOUS
<1>1. RateAsEntered
  BY DEF ApplicationInv, RatesKept, RateAsEntered
<1>2. /\ DOMAIN entry = {"applicants"} /\ entry["applicants"] \in Entry([Applicants -> Applicant])
      /\ untold \in [{"applicants"} -> BOOLEAN]
  BY DEF ApplicationInv, ApplicationTypes, Loads, ListKeys, ListDatas
<1>3. LoadingTypeOK({"applicants"}, LAMBDA k : [Applicants -> Applicant])
  BY <1>2 DEF LoadingTypeOK
<1>. QED BY <1>1, <1>3 DEF ApplicationInv, ApplicationTypes, ApplicationsTypeOK, PanelCall, RulingCall

(* However many calls set rates, of however many suppliers, a rate is the   *)
(* one entered last, unless two were under way at once or one was refused.  *)
THEOREM RatesAreAsEntered == ApplicationsSpec => [](ApplicationsTypeOK /\ RateAsEntered)
BY ApplicationsBegin, ApplicationsStep, ApplicationsShow, PTL DEF ApplicationsSpec

LEMMA DecisionStep ==
  ASSUME ApplicationInv, NEW to \in Decided,
         ruling[to].sure /\ ruling'[to].at = "done" /\ ruling[to].at = "sent"
  PROVE  applicant[ruling[to].s].status = "PENDING"
BY DEF ApplicationInv, RulingsKept

(* The service takes any decision on any application, yet one that its      *)
(* panel was sure of is never taken of an application already decided.      *)
THEOREM DecisionsArePending == ApplicationsSpec => DecidedWhilePending
<1>1. ApplicationInv => \A to \in Decided :
        ruling[to].sure /\ ruling'[to].at = "done" /\ ruling[to].at = "sent"
          => applicant[ruling[to].s].status = "PENDING"
  BY DecisionStep
<1>. QED BY <1>1, ApplicationsBegin, ApplicationsStep, PTL DEF ApplicationsSpec, DecidedWhilePending

-----------------------------------------------------------------------------
(* Banners                                                                 *)

BannerKeys == {"banners"}
BannerRow == [at : {"none", "there", "gone"}, active : BOOLEAN]
BannerDatas == [k \in BannerKeys |-> [BannerIds -> BannerRow]]

UpdateCall == [at : {"sent", "done"}, b : BannerIds, active : BOOLEAN, last : BOOLEAN, keeps : BOOLEAN]
OpenForm == [at : {"open"}, b : BannerIds \cup {NewBanner}, active : BOOLEAN, keeps : BOOLEAN]

BannerTypes ==
  /\ banner \in [BannerIds -> BannerRow] /\ editor \in OpenForm \cup {NoEditor}
  /\ update \in [BannerSlots -> UpdateCall \cup {NoUpdate}]
  /\ creating \in {"idle", "sent", "done"}
  /\ deleting \in [BannerIds -> {"idle", "sent", "done"}] /\ behindList \in BOOLEAN
  /\ Loads(BannerKeys, BannerDatas)
  /\ \A b \in BannerIds \cap Edited : banner[b].at # "none"

(* a banner that is there, and of whose updates the page has heard all      *)
Calm(b) == banner[b].at = "there" /\ \A t \in Under(b) : update[t].at # "done"

(* the lists that show every such banner on or off as it is *)
RowsNow == {x \in [BannerIds -> BannerRow] :
  \A b \in BannerIds \cap Edited : Calm(b) => x[b].active = banner[b].active}
RowsTell == Tells(entry["banners"], untold["banners"], behindList, RowsNow)

(* an update that keeps is the only one of its banner, and sends what it is *)
UpdateKept(t) ==
  /\ update[t].b \in Edited
  /\ update[t].keeps =>
       /\ Under(update[t].b) = {t}
       /\ update[t].at = "sent" /\ banner[update[t].b].at = "there" =>
            update[t].active = banner[update[t].b].active
UpdatesKept == \A t \in BannerSlots : update[t] # NoUpdate => UpdateKept(t)

(* so does the form, when it is saved with no update of its banner under way *)
FormKept == editor # NoEditor =>
  /\ editor.b # NewBanner => editor.b \in Edited
  /\ editor.keeps => /\ editor.b \in BannerIds \cap Edited
                     /\ Calm(editor.b) => editor.active = banner[editor.b].active

BannerInv == BannerTypes /\ RowsTell /\ UpdatesKept /\ FormKept

LEMMA NoUpdateIs == NoUpdate \notin UpdateCall /\ NoEditor \notin OpenForm
BY DEF NoUpdate, UpdateCall, NoEditor, OpenForm

(* nothing that tells the banners apart changes *)
LEMMA SwitchesRest ==
  ASSUME BannerInv, UNCHANGED <<banner, update>>
  PROVE  /\ RowsNow' = RowsNow /\ UpdatesKept'
         /\ \A b : Calm(b)' <=> Calm(b)
         /\ UNCHANGED editor => FormKept'
<1>1. \A b : Under(b)' = Under(b)
  BY DEF Under
<1>2. \A b : Calm(b)' <=> Calm(b)
  BY <1>1 DEF Calm
<1>3. RowsNow' = RowsNow
  BY <1>2 DEF RowsNow
<1>4. UpdatesKept'
  BY <1>1 DEF BannerInv, UpdatesKept, UpdateKept
<1>5. UNCHANGED editor => FormKept'
  BY <1>2 DEF BannerInv, FormKept
<1>. QED BY <1>2, <1>3, <1>4, <1>5

LEMMA RowsAre ==
  ASSUME BannerTypes
  PROVE  /\ DOMAIN entry = BannerKeys /\ "banners" \in BannerKeys
         /\ entry["banners"] \in Entry([BannerIds -> BannerRow])
         /\ Rows \subseteq BannerIds /\ \A b \in Rows : Shown(b) \in BOOLEAN
         /\ Rows # {} => entry["banners"].data # NoData
<1>1. /\ entry = [k \in BannerKeys |-> entry[k]] /\ "banners" \in BannerKeys
      /\ entry["banners"] \in Entry([BannerIds -> BannerRow])
  BY DEF BannerTypes, Loads, BannerKeys, BannerDatas
<1>2. DOMAIN entry = BannerKeys
  BY <1>1
<1>3. Rows # {} => entry["banners"].data # NoData
  BY DEF Rows, Has
<1>4. Rows # {} => entry["banners"].data \in [BannerIds -> BannerRow]
  BY <1>1, <1>3 DEF Entry
<1>5. Rows \subseteq BannerIds /\ \A b \in Rows : Shown(b) \in BOOLEAN
  BY <1>4 DEF Rows, Shown, BannerRow
<1>. QED BY <1>1, <1>2, <1>3, <1>5

LEMMA BannersLoadStep ==
  ASSUME BannerInv, BannersLoad
  PROVE  BannerInv'
<1>1. UNCHANGED <<banner, editor, update, creating, deleting>>
  BY DEF BannersLoad
<1>2. /\ Loads(BannerKeys, BannerDatas) /\ "banners" \in BannerKeys /\ behindList \in BOOLEAN
      /\ banner \in BannerDatas["banners"] /\ banner \in RowsNow
      /\ BannerKeys' = BannerKeys /\ BannerDatas' = BannerDatas /\ RowsNow' = RowsNow
  BY <1>1, SwitchesRest DEF BannerInv, BannerTypes, BannerKeys, BannerDatas, RowsNow
<1>3. behindList' \in BOOLEAN /\ Loads(BannerKeys, BannerDatas)' /\ RowsTell'
  <2>1. \/ /\ Answer("banners", banner) \/ Age("banners") \/ Focus("banners")
           /\ behindList' = behindList
        \/ /\ Ends("banners")
           /\ behindList' = (behindList /\ (entry'["banners"].stale \/ untold["banners"]))
    BY DEF BannersLoad
  <2>. QED BY <1>2, <2>1, LoadTells DEF BannerInv, RowsTell
<1>4. BannerTypes'
  BY <1>1, <1>3 DEF BannerInv, BannerTypes
<1>. QED BY <1>1, <1>3, <1>4, SwitchesRest DEF BannerInv

(* the page hears of a change, or will not be told *)
LEMMA RowsHear ==
  ASSUME BannerInv, behindList',
         \/ Invalidate({"banners"}, {"banners"})
         \/ Changed({"banners"}) /\ (UNCHANGED entry \/ Shows("banners"))
  PROVE  Loads(BannerKeys, BannerDatas)' /\ RowsTell'
<1>1. /\ Loads(BannerKeys, BannerDatas) /\ "banners" \in BannerKeys
      /\ BannerKeys' = BannerKeys /\ BannerDatas' = BannerDatas
  BY DEF BannerInv, BannerTypes, BannerKeys, BannerDatas
<1>. QED BY <1>1, InvalidateTells, UnheardTells DEF RowsTell

(* nothing is loaded *)
LEMMA RowsRest ==
  ASSUME BannerInv, UNCHANGED <<entry, untold, behindList>>
  PROVE  Loads(BannerKeys, BannerDatas)' /\ (RowsNow \subseteq RowsNow' => RowsTell')
BY DEF BannerInv, BannerTypes, RowsTell, Tells, Loads, BannerDatas

LEMMA UseFormStep ==
  ASSUME BannerInv, UseForm
  PROVE  BannerInv'
<1>1. UNCHANGED <<banner, update, creating, deleting, behindList, entry, untold>>
  BY DEF UseForm, loadVars
<1>2. ASSUME NEW b \in BannerIds \cup {NewBanner}, NEW active \in BOOLEAN, NEW keeps \in BOOLEAN,
             editor' = Form(b, active, keeps)
      PROVE  editor' \in OpenForm /\ editor'.b = b /\ editor'.active = active /\ editor'.keeps = keeps
  BY <1>2 DEF OpenForm, Form
<1>3. editor' \in OpenForm \cup {NoEditor} /\ FormKept'
  <2>1. CASE editor' = NoEditor
    BY <2>1 DEF FormKept
  <2>2. CASE editor' = Form(NewBanner, TRUE, FALSE)
    <3>1. editor' \in OpenForm /\ editor'.b = NewBanner /\ ~editor'.keeps
      BY <1>2, <2>2
    <3>. QED BY <3>1 DEF FormKept
  <2>3. CASE \E b \in Rows \cap Edited : editor' = Form(b, Shown(b), ~behindList)
    <3>1. PICK b \in Rows \cap Edited : editor' = Form(b, Shown(b), ~behindList)
      BY <2>3
    <3>2. b \in BannerIds /\ Shown(b) \in BOOLEAN /\ entry["banners"].data # NoData
      BY RowsAre DEF BannerInv
    <3>3. (~behindList) \in BOOLEAN
      BY Zenon
    <3>4. /\ editor' \in OpenForm /\ editor'.b = b /\ editor'.active = Shown(b)
          /\ editor'.keeps = ~behindList
      BY <1>2, <3>1, <3>2, <3>3
    <3>5. ~behindList /\ Calm(b) => Shown(b) = banner[b].active
      BY <3>2 DEF BannerInv, RowsTell, Tells, RowsNow, Shown
    <3>6. Calm(b)' <=> Calm(b)
      BY <1>1, SwitchesRest
    <3>. QED BY <1>1, <3>2, <3>4, <3>5, <3>6 DEF FormKept
  <2>4. CASE editor # NoEditor /\ editor.b # NewBanner /\ editor' = [editor EXCEPT !.active = ~@, !.keeps = FALSE]
    <3> DEFINE off == ~editor.active
    <3>1. editor \in OpenForm /\ editor.b \in Edited /\ editor' = [editor EXCEPT !.active = off, !.keeps = FALSE]
      BY <2>4 DEF BannerInv, BannerTypes, FormKept
    <3>2. off \in BOOLEAN
      BY Zenon
    <3> HIDE DEF off
    <3>3. editor' \in OpenForm /\ editor'.b = editor.b /\ editor'.keeps = FALSE
      BY <3>1, <3>2 DEF OpenForm
    <3>. QED BY <3>1, <3>3 DEF FormKept
  <2>. QED BY <2>1, <2>2, <2>3, <2>4 DEF UseForm
<1>4. RowsTell' /\ UpdatesKept' /\ Loads(BannerKeys, BannerDatas)'
  BY <1>1, RowsRest, SwitchesRest
<1>. QED BY <1>1, <1>3, <1>4 DEF BannerInv, BannerTypes

(* an update is sent: the others of its banner do not keep it any more *)
LEMMA UpdatesStep ==
  ASSUME BannerInv, NEW b \in BannerIds \cap Edited, NEW active \in BOOLEAN, NEW keeps \in BOOLEAN,
         keeps /\ Calm(b) => active = banner[b].active,
         Updates(b, active, keeps), UNCHANGED <<banner, editor, behindList, loadVars>>
  PROVE  /\ update' \in [BannerSlots -> UpdateCall \cup {NoUpdate}]
         /\ Loads(BannerKeys, BannerDatas)' /\ RowsTell' /\ UpdatesKept' /\ FormKept'
<1> DEFINE t == CHOOSE t \in BannerSlots : update[t] = NoUpdate
           k == keeps /\ Under(b) = {}
           c == [at |-> "sent", b |-> b, active |-> active, last |-> TRUE, keeps |-> k]
           older(u) == [update[u] EXCEPT !.last = FALSE, !.keeps = @ /\ update[u].b # b]
           new(u) == IF u = t THEN c ELSE IF update[u] = NoUpdate THEN NoUpdate ELSE older(u)
<1>1. t \in BannerSlots /\ update[t] = NoUpdate /\ update' = [u \in BannerSlots |-> new(u)]
  BY DEF Updates
<1>2. k \in BOOLEAN /\ (k => keeps /\ Under(b) = {})
  <2>1. k \in BOOLEAN
    BY Zenon
  <2>. QED BY <2>1
<1> HIDE DEF k
<1>3. c \in UpdateCall /\ c.at = "sent" /\ c.b = b /\ c.active = active /\ c.keeps = k
  BY <1>2 DEF UpdateCall
<1>4. ASSUME NEW u \in BannerSlots, update[u] # NoUpdate
      PROVE  /\ older(u) \in UpdateCall /\ older(u).at = update[u].at /\ older(u).b = update[u].b
             /\ older(u).active = update[u].active
             /\ older(u).keeps => update[u].keeps /\ update[u].b # b
  <2> DEFINE was == update[u]
             still == was.keeps /\ was.b # b
  <2>1. was \in UpdateCall
    BY <1>4 DEF BannerInv, BannerTypes
  <2>2. still \in BOOLEAN /\ (still => was.keeps /\ was.b # b)
    <3>1. still \in BOOLEAN
      BY Zenon
    <3>. QED BY <3>1
  <2>3. older(u) = [was EXCEPT !.last = FALSE, !.keeps = still]
    OBVIOUS
  <2> HIDE DEF was, still
  <2>4. [was EXCEPT !.last = FALSE, !.keeps = still] \in UpdateCall
    BY <2>1, <2>2 DEF UpdateCall
  <2>5. older(u) \in UpdateCall /\ older(u).at = was.at /\ older(u).b = was.b
        /\ older(u).active = was.active /\ older(u).keeps = still
    BY <2>1, <2>3, <2>4 DEF UpdateCall
  <2>. QED BY <2>2, <2>5 DEF was
<1> HIDE DEF t, c, older
<1>5. /\ update' \in [BannerSlots -> UpdateCall \cup {NoUpdate}] /\ update'[t] = c
      /\ \A u \in BannerSlots \ {t} :
           update'[u] = IF update[u] = NoUpdate THEN NoUpdate ELSE older(u)
  BY <1>1, <1>3, <1>4
<1>6. ASSUME NEW u \in BannerSlots \ {t}
      PROVE  /\ update'[u] = NoUpdate <=> update[u] = NoUpdate
             /\ update[u] # NoUpdate => /\ update'[u].at = update[u].at /\ update'[u].b = update[u].b
                                        /\ update'[u].active = update[u].active
                                        /\ update'[u].keeps => update[u].keeps /\ update[u].b # b
  BY <1>4, <1>5, NoUpdateIs
<1>7. /\ Under(b)' = Under(b) \cup {t} /\ \A d : d # b => Under(d)' = Under(d)
  <2>1. c # NoUpdate
    BY <1>3, NoUpdateIs
  <2>. QED BY <1>1, <1>3, <1>5, <1>6, <2>1 DEF Under
<1>8. \A d : Calm(d)' <=> Calm(d)
  <2>1. \A d : \A u \in Under(d) : u # t /\ u \in BannerSlots
    BY <1>1 DEF Under
  <2>2. \A d : \A u \in Under(d) : update'[u].at = update[u].at
    BY <1>6, <2>1 DEF Under
  <2>3. \A d : \A u \in Under(d)' : u \in Under(d) \/ u = t
    BY <1>7
  <2>. QED BY <1>3, <1>5, <1>7, <2>2, <2>3 DEF Calm
<1>9. RowsNow' = RowsNow
  BY <1>8 DEF RowsNow
<1>10. Loads(BannerKeys, BannerDatas)' /\ RowsTell'
  BY <1>9, RowsRest DEF loadVars
<1>11. FormKept'
  BY <1>8 DEF BannerInv, FormKept
<1>12. ASSUME NEW u \in BannerSlots, u = t
       PROVE  UpdateKept(u)'
  <2>1. /\ update'[u].b = b /\ update'[u].active = active /\ update'[u].keeps = k
        /\ banner' = banner
    BY <1>3, <1>5, <1>12
  <2>2. ASSUME k
        PROVE  /\ Under(b)' = {u}
               /\ banner[b].at = "there" => active = banner[b].active
    <3>1. keeps /\ Under(b) = {}
      BY <1>2, <2>2
    <3>2. banner[b].at = "there" => Calm(b)
      BY <3>1 DEF Calm
    <3>. QED BY <1>7, <1>12, <3>1, <3>2
  <2>. QED BY <2>1, <2>2 DEF UpdateKept
<1>13. ASSUME NEW u \in BannerSlots \ {t}, update'[u] # NoUpdate
       PROVE  UpdateKept(u)'
  <2>1. UpdateKept(u)
    BY <1>6, <1>13 DEF BannerInv, UpdatesKept
  <2>2. banner' = banner
    OBVIOUS
  <2>. QED BY <1>6, <1>7, <1>13, <2>1, <2>2 DEF UpdateKept
<1>14. UpdatesKept'
  <2>1. ASSUME NEW u \in BannerSlots, update'[u] # NoUpdate PROVE UpdateKept(u)'
    BY <1>12, <1>13, <2>1
  <2>. QED BY <2>1 DEF UpdatesKept
<1>. QED BY <1>5, <1>10, <1>11, <1>14

LEMMA BannerSendsStep ==
  ASSUME BannerInv,
         SaveForm \/ \E b \in BannerIds : Toggle(b) \/ DeleteBanner(b)
  PROVE  BannerInv'
<1>1. ASSUME NEW b \in BannerIds, Toggle(b)
      PROVE  BannerInv'
  <2>1. /\ b \in Rows \cap Edited /\ Updates(b, ~Shown(b), FALSE)
        /\ UNCHANGED <<banner, editor, creating, deleting, behindList, loadVars>>
    BY <1>1 DEF Toggle
  <2>2. (~Shown(b)) \in BOOLEAN
    BY Zenon
  <2>3. /\ update' \in [BannerSlots -> UpdateCall \cup {NoUpdate}]
        /\ Loads(BannerKeys, BannerDatas)' /\ RowsTell' /\ UpdatesKept' /\ FormKept'
    BY <2>1, <2>2, UpdatesStep
  <2>. QED BY <2>1, <2>3 DEF BannerInv, BannerTypes
<1>2. ASSUME NEW b \in BannerIds, DeleteBanner(b)
      PROVE  BannerInv'
  <2>1. /\ deleting' = [deleting EXCEPT ![b] = "sent"]
        /\ UNCHANGED <<banner, editor, update, creating, behindList, entry, untold>>
    BY <1>2 DEF DeleteBanner, loadVars
  <2>. QED BY <2>1, RowsRest, SwitchesRest DEF BannerInv, BannerTypes
<1>3. CASE SaveForm /\ editor.b = NewBanner
  <2>1. creating' = "sent" /\ UNCHANGED <<banner, editor, update, deleting, behindList, entry, untold>>
    BY <1>3 DEF SaveForm, loadVars
  <2>. QED BY <2>1, RowsRest, SwitchesRest DEF BannerInv, BannerTypes
<1>4. CASE SaveForm /\ editor.b # NewBanner
  <2>1. /\ editor # NoEditor /\ Updates(editor.b, editor.active, editor.keeps)
        /\ UNCHANGED <<banner, editor, creating, deleting, behindList, loadVars>>
    BY <1>4 DEF SaveForm
  <2>2. /\ editor.b \in BannerIds \cap Edited /\ editor.active \in BOOLEAN /\ editor.keeps \in BOOLEAN
        /\ editor.keeps /\ Calm(editor.b) => editor.active = banner[editor.b].active
    BY <1>4, <2>1 DEF BannerInv, BannerTypes, OpenForm, FormKept
  <2>3. /\ update' \in [BannerSlots -> UpdateCall \cup {NoUpdate}]
        /\ Loads(BannerKeys, BannerDatas)' /\ RowsTell' /\ UpdatesKept' /\ FormKept'
    BY <2>1, <2>2, UpdatesStep
  <2>. QED BY <2>1, <2>3 DEF BannerInv, BannerTypes
<1>. QED BY <1>1, <1>2, <1>3, <1>4

(* the service handles the update t *)
LEMMA BannerUpdatedStep ==
  ASSUME BannerInv, NEW t \in BannerSlots, BannerUpdated(t)
  PROVE  BannerInv'
<1>1. update[t] \in UpdateCall /\ update[t].at = "sent" /\ update[t] # NoUpdate
  BY DEF BannerUpdated, BannerInv, BannerTypes, NoUpdate
<1>2. PICK b \in BannerIds \cap Edited : b = update[t].b /\ update[t].active \in BOOLEAN
  BY <1>1 DEF UpdateCall, BannerInv, UpdatesKept, UpdateKept
<1> DEFINE c == [update[t] EXCEPT !.at = "done"]
           x == [banner[b] EXCEPT !.active = update[t].active]
<1>3. /\ banner' = [banner EXCEPT ![b] = x] /\ update' = [update EXCEPT ![t] = c]
      /\ banner[b].at = "there" /\ UNCHANGED <<editor, creating, deleting, behindList, entry, untold>>
  BY <1>1, <1>2 DEF BannerUpdated, BannerInv, BannerTypes, loadVars
<1>4. /\ c \in UpdateCall /\ c # NoUpdate /\ c.at = "done" /\ c.b = b /\ c.keeps = update[t].keeps
  <2>1. /\ c \in UpdateCall /\ c.at = "done" /\ c.b = b /\ c.keeps = update[t].keeps
    BY <1>1, <1>2 DEF UpdateCall
  <2>. QED BY <2>1, NoUpdateIs
<1>5. x \in BannerRow /\ x.at = "there"
  BY <1>2, <1>3 DEF BannerInv, BannerTypes, BannerRow
<1> HIDE DEF c, x
<1>6. /\ update' \in [BannerSlots -> UpdateCall \cup {NoUpdate}] /\ update'[t] = c
      /\ \A u \in BannerSlots \ {t} : update'[u] = update[u]
      /\ banner' \in [BannerIds -> BannerRow] /\ banner'[b] = x
      /\ \A d \in BannerIds \ {b} : banner'[d] = banner[d]
  BY <1>2, <1>3, <1>4, <1>5 DEF BannerInv, BannerTypes
<1>7. (\A d : Under(d)' = Under(d)) /\ t \in Under(b)
  BY <1>1, <1>2, <1>4, <1>6 DEF Under
<1>8. ~Calm(b)' /\ \A d \in BannerIds \ {b} : Calm(d)' <=> Calm(d)
  <2>1. ~Calm(b)'
    BY <1>4, <1>6, <1>7 DEF Calm
  <2>2. ASSUME NEW d \in BannerIds \ {b} PROVE Calm(d)' <=> Calm(d)
    <3>1. \A u \in Under(d) : u \in BannerSlots \ {t}
      BY <1>2 DEF Under
    <3>2. \A u \in Under(d) : update'[u] = update[u]
      BY <1>6, <3>1
    <3>3. Under(d)' = Under(d) /\ banner'[d] = banner[d]
      BY <1>6, <1>7
    <3>. QED BY <3>2, <3>3 DEF Calm
  <2>. QED BY <2>1, <2>2
<1>9. RowsNow \subseteq RowsNow'
  BY <1>6, <1>8 DEF RowsNow
<1>10. RowsTell' /\ Loads(BannerKeys, BannerDatas)'
  BY <1>3, <1>9, RowsRest
<1>11. BannerTypes'
  BY <1>2, <1>3, <1>5, <1>6, <1>10 DEF BannerInv, BannerTypes
<1>12. FormKept'
  BY <1>3, <1>6, <1>8 DEF BannerInv, FormKept
<1>13. ASSUME NEW u \in BannerSlots, update'[u] # NoUpdate
       PROVE  UpdateKept(u)'
  <2>1. CASE u = t
    <3>1. UpdateKept(t)
      BY <1>1 DEF BannerInv, UpdatesKept
    <3>2. b \in Edited /\ (c.keeps => Under(b) = {t})
      BY <1>2, <1>4, <3>1 DEF UpdateKept
    <3>3. update'[u] = c /\ \A d : Under(d)' = Under(d)
      BY <1>6, <1>7, <2>1
    <3>. QED BY <1>4, <2>1, <3>2, <3>3 DEF UpdateKept
  <2>2. CASE u # t
    <3>1. update'[u] = update[u] /\ UpdateKept(u)
      BY <1>6, <1>13, <2>2 DEF BannerInv, UpdatesKept
    <3>2. update[u].keeps => update[u].b # b
      BY <1>7, <2>2, <3>1 DEF UpdateKept
    <3>3. update[u].b \in BannerIds
      BY <1>13, <3>1 DEF BannerInv, BannerTypes, UpdateCall
    <3>. QED BY <1>6, <1>7, <3>1, <3>2, <3>3 DEF UpdateKept
  <2>. QED BY <2>1, <2>2
<1>14. UpdatesKept'
  BY <1>13 DEF UpdatesKept
<1>. QED BY <1>10, <1>11, <1>12, <1>14 DEF BannerInv

(* the service makes or deletes a banner: it was not there, or is not any   *)
(* more                                                                     *)
LEMMA BannerMadeStep ==
  ASSUME BannerInv, BannerCreated \/ \E b \in BannerIds : BannerDeleted(b)
  PROVE  BannerInv'
<1>1. PICK b \in BannerIds, x \in BannerRow :
        /\ banner' = [banner EXCEPT ![b] = x] /\ x.at # "none"
        /\ x.at = "gone" \/ banner[b].at = "none"
  <2>1. CASE BannerCreated
    <3>1. [at |-> "there", active |-> TRUE] \in BannerRow
      BY DEF BannerRow
    <3>. QED BY <2>1, <3>1 DEF BannerCreated
  <2>2. CASE \E b \in BannerIds : BannerDeleted(b)
    <3>1. [at |-> "gone", active |-> FALSE] \in BannerRow
      BY DEF BannerRow
    <3>. QED BY <2>2, <3>1 DEF BannerDeleted
  <2>. QED BY <2>1, <2>2
<1>2. /\ creating' \in {"idle", "sent", "done"} /\ deleting' \in [BannerIds -> {"idle", "sent", "done"}]
      /\ UNCHANGED <<editor, update, behindList, entry, untold>>
  BY DEF BannerCreated, BannerDeleted, BannerInv, BannerTypes, loadVars
<1>3. /\ banner' \in [BannerIds -> BannerRow] /\ banner'[b] = x
      /\ \A d \in BannerIds \ {b} : banner'[d] = banner[d]
  BY <1>1 DEF BannerInv, BannerTypes
<1>4. b \in Edited => x.at = "gone"
  BY <1>1 DEF BannerInv, BannerTypes
<1>5. \A d : Under(d)' = Under(d)
  BY <1>2 DEF Under
<1>6. \A d \in BannerIds \cap Edited :
        Calm(d)' => Calm(d) /\ banner'[d] = banner[d]
  BY <1>2, <1>3, <1>4, <1>5 DEF Calm
<1>7. RowsNow \subseteq RowsNow'
  BY <1>6 DEF RowsNow
<1>8. RowsTell' /\ Loads(BannerKeys, BannerDatas)'
  BY <1>2, <1>7, RowsRest
<1>9. BannerTypes'
  BY <1>1, <1>2, <1>3, <1>8 DEF BannerInv, BannerTypes
<1>10. FormKept'
  BY <1>2, <1>6 DEF BannerInv, FormKept
<1>11. ASSUME NEW u \in BannerSlots, update'[u] # NoUpdate
       PROVE  UpdateKept(u)'
  <2>1. update'[u] = update[u] /\ UpdateKept(u) /\ update[u].b \in BannerIds
    BY <1>2, <1>11 DEF BannerInv, UpdatesKept, BannerTypes, UpdateCall
  <2>2. banner'[update[u].b].at = "there" => banner'[update[u].b] = banner[update[u].b]
    BY <1>3, <1>4, <2>1 DEF UpdateKept
  <2>. QED BY <1>5, <2>1, <2>2 DEF UpdateKept
<1>12. UpdatesKept'
  BY <1>11 DEF UpdatesKept
<1>. QED BY <1>8, <1>9, <1>10, <1>12 DEF BannerInv

(* an update ends for the page *)
LEMMA UpdateGone ==
  ASSUME BannerInv, NEW t \in BannerSlots, update[t] # NoUpdate,
         update' = [update EXCEPT ![t] = NoUpdate], UNCHANGED banner
  PROVE  /\ update' \in [BannerSlots -> UpdateCall \cup {NoUpdate}] /\ UpdatesKept'
         /\ update[t].at # "done" => \A d : Calm(d)' <=> Calm(d)
<1>1. /\ update' \in [BannerSlots -> UpdateCall \cup {NoUpdate}] /\ update'[t] = NoUpdate
      /\ \A u \in BannerSlots \ {t} : update'[u] = update[u]
  BY DEF BannerInv, BannerTypes
<1>2. \A d : Under(d)' = Under(d) \ {t}
  BY <1>1 DEF Under
<1>3. ASSUME NEW u \in BannerSlots, update'[u] # NoUpdate
      PROVE  UpdateKept(u)'
  <2>1. u # t /\ update'[u] = update[u] /\ UpdateKept(u)
    BY <1>1, <1>3 DEF BannerInv, UpdatesKept
  <2>. QED BY <1>2, <2>1 DEF UpdateKept
<1>4. ASSUME update[t].at # "done", NEW d
      PROVE  Calm(d)' <=> Calm(d)
  <2>1. \A u \in Under(d) : u = t \/ update'[u] = update[u]
    BY <1>1 DEF Under
  <2>2. Under(d)' = Under(d) \ {t} /\ banner' = banner
    BY <1>2
  <2>. QED BY <1>4, <2>1, <2>2 DEF Calm
<1>. QED BY <1>1, <1>3, <1>4 DEF UpdatesKept

LEMMA BannerHears ==
  ASSUME BannerInv,
         \/ CreateSucceeded
         \/ \E t \in BannerSlots : UpdateSucceeded(t)
         \/ \E b \in BannerIds : DeleteSucceeded(b)
  PROVE  BannerInv'
<1>1. behindList' = TRUE /\ Invalidate({"banners"}, {"banners"}) /\ UNCHANGED banner
  BY DEF CreateSucceeded, UpdateSucceeded, DeleteSucceeded, Refetch
<1>2. Loads(BannerKeys, BannerDatas)' /\ RowsTell'
  BY <1>1, RowsHear
<1>3. /\ update' \in [BannerSlots -> UpdateCall \cup {NoUpdate}] /\ UpdatesKept'
      /\ editor' = NoEditor \/ (UNCHANGED editor /\ FormKept')
  <2>1. ASSUME NEW t \in BannerSlots, UpdateSucceeded(t)
        PROVE  /\ update' \in [BannerSlots -> UpdateCall \cup {NoUpdate}] /\ UpdatesKept'
               /\ editor' = NoEditor
    <3>1. update[t] # NoUpdate /\ update' = [update EXCEPT ![t] = NoUpdate] /\ editor' = NoEditor
      BY <2>1 DEF UpdateSucceeded, NoUpdate, Closes
    <3>. QED BY <1>1, <3>1, UpdateGone
  <2>2. CASE CreateSucceeded
    BY <1>1, <2>2, SwitchesRest DEF CreateSucceeded, BannerInv, BannerTypes
  <2>3. CASE \E b \in BannerIds : DeleteSucceeded(b)
    BY <1>1, <2>3, SwitchesRest DEF DeleteSucceeded, BannerInv, BannerTypes
  <2>. QED BY <2>1, <2>2, <2>3
<1>4. FormKept'
  BY <1>3 DEF FormKept
<1>5. /\ creating' \in {"idle", "sent", "done"} /\ deleting' \in [BannerIds -> {"idle", "sent", "done"}]
  BY DEF CreateSucceeded, UpdateSucceeded, DeleteSucceeded, BannerInv, BannerTypes
<1>6. BannerTypes'
  BY <1>1, <1>2, <1>3, <1>5 DEF BannerInv, BannerTypes
<1>. QED BY <1>2, <1>3, <1>4, <1>6 DEF BannerInv

(* the form is not sure of what it shows any more *)
LEMMA UnheardForm ==
  ASSUME BannerInv, Unheard
  PROVE  editor' \in OpenForm \cup {NoEditor} /\ FormKept'
<1>1. CASE editor = NoEditor
  BY <1>1 DEF Unheard, FormKept
<1>2. CASE editor # NoEditor
  <2>1. editor \in OpenForm /\ editor' = [editor EXCEPT !.keeps = FALSE]
    BY <1>2 DEF Unheard, BannerInv, BannerTypes
  <2>2. editor' \in OpenForm /\ editor'.b = editor.b /\ editor'.keeps = FALSE
    BY <2>1 DEF OpenForm
  <2>. QED BY <1>2, <2>2 DEF BannerInv, FormKept
<1>. QED BY <1>1, <1>2

LEMMA BannerFailsStep ==
  ASSUME BannerInv, BannerCallFails
  PROVE  BannerInv'
<1>1. UNCHANGED <<banner, entry>>
  BY DEF BannerCallFails
<1>2. /\ creating' \in {"idle", "sent", "done"} /\ deleting' \in [BannerIds -> {"idle", "sent", "done"}]
      /\ \/ UNCHANGED update /\ (Unheard \/ UNCHANGED <<untold, behindList, editor>>)
         \/ \E t \in BannerSlots :
              /\ update[t] # NoUpdate /\ update' = [update EXCEPT ![t] = NoUpdate]
              /\ Unheard \/ (update[t].at # "done" /\ UNCHANGED <<untold, behindList, editor>>)
  BY DEF BannerCallFails, BannerInv, BannerTypes
<1>3. /\ update' \in [BannerSlots -> UpdateCall \cup {NoUpdate}] /\ UpdatesKept'
      /\ Unheard \/ /\ UNCHANGED <<untold, behindList, editor>>
                    /\ \A d : Calm(d)' <=> Calm(d)
  <2>1. CASE UNCHANGED update
    BY <1>1, <1>2, <2>1, SwitchesRest, UpdateGone DEF BannerInv, BannerTypes
  <2>2. ASSUME NEW t \in BannerSlots, update[t] # NoUpdate, update' = [update EXCEPT ![t] = NoUpdate],
               Unheard \/ (update[t].at # "done" /\ UNCHANGED <<untold, behindList, editor>>)
        PROVE  /\ update' \in [BannerSlots -> UpdateCall \cup {NoUpdate}] /\ UpdatesKept'
               /\ Unheard \/ /\ UNCHANGED <<untold, behindList, editor>>
                             /\ \A d : Calm(d)' <=> Calm(d)
    BY <1>1, <2>2, UpdateGone
  <2>. QED BY <1>2, <2>1, <2>2
<1>4. CASE Unheard
  <2>1. behindList' = TRUE /\ Loads(BannerKeys, BannerDatas)' /\ RowsTell'
    BY <1>1, <1>4, RowsHear DEF Unheard
  <2>2. editor' \in OpenForm \cup {NoEditor} /\ FormKept'
    BY <1>4, UnheardForm
  <2>. QED BY <1>1, <1>2, <1>3, <2>1, <2>2 DEF BannerInv, BannerTypes
<1>5. CASE /\ UNCHANGED <<untold, behindList, editor>>
           /\ \A d : Calm(d)' <=> Calm(d)
  <2>1. RowsNow' = RowsNow
    BY <1>1, <1>5 DEF RowsNow
  <2>2. RowsTell' /\ Loads(BannerKeys, BannerDatas)'
    BY <1>1, <1>5, <2>1, RowsRest
  <2>3. FormKept'
    BY <1>1, <1>5 DEF BannerInv, FormKept
  <2>. QED BY <1>1, <1>2, <1>3, <1>5, <2>2, <2>3 DEF BannerInv, BannerTypes
<1>. QED BY <1>3, <1>4, <1>5

LEMMA BannerElsewhereStep ==
  ASSUME BannerInv, NEW b \in BannerIds, BannerElsewhere(b)
  PROVE  BannerInv'
<1> DEFINE drop(t) == [update[t] EXCEPT !.keeps = FALSE]
<1>1. /\ update' = [t \in BannerSlots |-> IF t \in Under(b) THEN drop(t) ELSE update[t]]
      /\ Unheard /\ UNCHANGED <<creating, deleting, entry>>
  BY DEF BannerElsewhere
<1>2. PICK x \in BannerRow : banner' = [banner EXCEPT ![b] = x] /\ x.at # "none"
  <2> DEFINE on == ~banner[b].active
  <2>1. CASE banner' = [banner EXCEPT ![b] = [at |-> "there", active |-> ~@.active]]
    <3>1. banner' = [banner EXCEPT ![b] = [at |-> "there", active |-> on]]
      BY <2>1 DEF BannerInv, BannerTypes
    <3>2. on \in BOOLEAN
      BY Zenon
    <3> HIDE DEF on
    <3>3. [at |-> "there", active |-> on] \in BannerRow
      BY <3>2 DEF BannerRow
    <3>. QED BY <3>1, <3>3
  <2>2. CASE banner' = [banner EXCEPT ![b] = [at |-> "gone", active |-> FALSE]]
    <3>1. [at |-> "gone", active |-> FALSE] \in BannerRow
      BY DEF BannerRow
    <3>. QED BY <2>2, <3>1
  <2>3. CASE banner' = [banner EXCEPT ![b] = [at |-> "there", active |-> TRUE]]
    <3>1. [at |-> "there", active |-> TRUE] \in BannerRow
      BY DEF BannerRow
    <3>. QED BY <2>3, <3>1
  <2>. QED BY <2>1, <2>2, <2>3 DEF BannerElsewhere
<1>3. /\ banner' \in [BannerIds -> BannerRow] /\ banner'[b].at # "none"
      /\ \A d \in BannerIds \ {b} : banner'[d] = banner[d]
  BY <1>2 DEF BannerInv, BannerTypes
<1>4. ASSUME NEW t \in Under(b)
      PROVE  /\ drop(t) \in UpdateCall /\ drop(t).keeps = FALSE /\ drop(t).b = update[t].b
  BY DEF Under, BannerInv, BannerTypes, UpdateCall
<1> HIDE DEF drop
<1>5. ASSUME NEW t \in BannerSlots
      PROVE  /\ update'[t] \in UpdateCall \cup {NoUpdate}
             /\ update'[t] # NoUpdate <=> update[t] # NoUpdate
             /\ update'[t] # NoUpdate => update'[t].b = update[t].b
             /\ IF t \in Under(b) THEN ~update'[t].keeps ELSE update'[t] = update[t]
  <2>1. CASE t \in Under(b)
    <3>1. update[t] # NoUpdate /\ update'[t] = drop(t)
      BY <1>1, <2>1 DEF Under
    <3>. QED BY <1>4, <2>1, <3>1, NoUpdateIs
  <2>2. CASE t \notin Under(b)
    BY <1>1, <2>2 DEF BannerInv, BannerTypes
  <2>. QED BY <2>1, <2>2
<1>6. \A d : Under(d)' = Under(d)
  BY <1>5 DEF Under
<1>7. ASSUME NEW t \in BannerSlots, update'[t] # NoUpdate
      PROVE  UpdateKept(t)'
  <2>1. update[t] # NoUpdate /\ UpdateKept(t) /\ update'[t].b = update[t].b
    BY <1>5, <1>7 DEF BannerInv, UpdatesKept
  <2>2. CASE t \in Under(b)
    BY <1>5, <2>1, <2>2 DEF UpdateKept
  <2>3. CASE t \notin Under(b)
    <3>1. update'[t] = update[t]
      BY <1>5, <2>3
    <3>2. update[t].b \in BannerIds \ {b}
      BY <2>1, <2>3 DEF Under, BannerInv, BannerTypes, UpdateCall
    <3>3. banner'[update[t].b] = banner[update[t].b]
      BY <1>3, <3>2
    <3>. QED BY <1>6, <2>1, <3>1, <3>3 DEF UpdateKept
  <2>. QED BY <2>2, <2>3
<1>8. update' \in [BannerSlots -> UpdateCall \cup {NoUpdate}] /\ UpdatesKept'
  <2>1. update' = [t \in BannerSlots |-> update'[t]]
    BY <1>1
  <2>. QED BY <1>5, <1>7, <2>1 DEF UpdatesKept
<1>9. behindList' = TRUE /\ Loads(BannerKeys, BannerDatas)' /\ RowsTell'
  BY <1>1, RowsHear DEF Unheard
<1>10. BannerTypes'
  <2>1. \A d \in BannerIds \cap Edited : banner'[d].at # "none"
    BY <1>3 DEF BannerInv, BannerTypes
  <2>. QED BY <1>1, <1>3, <1>8, <1>9, <2>1, UnheardForm DEF BannerInv, BannerTypes
<1>. QED BY <1>1, <1>8, <1>9, <1>10, UnheardForm DEF BannerInv

LEMMA LeaveBannersStep ==
  ASSUME BannerInv, LeaveBanners
  PROVE  BannerInv'
<1>1. /\ editor' = NoEditor /\ update' = [t \in BannerSlots |-> NoUpdate]
      /\ creating' = "idle" /\ deleting' = [b \in BannerIds |-> "idle"]
      /\ Shows("banners") /\ UNCHANGED banner
  BY DEF LeaveBanners
<1>2. UpdatesKept' /\ FormKept' /\ \A d : Under(d)' = {}
  BY <1>1 DEF UpdatesKept, FormKept, Under
<1>3. behindList' \in BOOLEAN /\ Loads(BannerKeys, BannerDatas)' /\ RowsTell'
  <2>1. CASE Changed({"banners"}) /\ behindList' = TRUE
    BY <1>1, <2>1, RowsHear
  <2>2. CASE UNCHANGED <<untold, behindList>> /\ \A t \in BannerSlots : update[t].at # "done"
    <3>1. RowsNow' = RowsNow
      BY <1>1, <1>2, <2>2 DEF RowsNow, Calm, Under
    <3>2. /\ Loads(BannerKeys, BannerDatas) /\ "banners" \in BannerKeys /\ behindList \in BOOLEAN
          /\ BannerKeys' = BannerKeys /\ BannerDatas' = BannerDatas
          /\ Tells(entry["banners"], untold["banners"], behindList, RowsNow)
      BY DEF BannerInv, BannerTypes, BannerKeys, BannerDatas, RowsTell
    <3>3. /\ Loads(BannerKeys, BannerDatas)'
          /\ Tells(entry'["banners"], untold'["banners"], behindList, RowsNow)
      BY <1>1, <2>2, <3>2, UnheardTells
    <3>. QED BY <2>2, <3>1, <3>2, <3>3 DEF RowsTell
  <2>. QED BY <2>1, <2>2 DEF LeaveBanners
<1>4. BannerTypes'
  BY <1>1, <1>3 DEF BannerInv, BannerTypes
<1>. QED BY <1>2, <1>3, <1>4 DEF BannerInv

LEMMA BannersStep == BannerInv /\ [BannersNext]_bannersVars => BannerInv'
<1> SUFFICES ASSUME BannerInv, [BannersNext]_bannersVars PROVE BannerInv'
  OBVIOUS
<1>1. CASE UNCHANGED bannersVars
  <2>1. UNCHANGED <<banner, editor, update, creating, deleting, behindList, entry, untold>>
    BY <1>1 DEF bannersVars, bannerVars, loadVars
  <2>. QED BY <2>1, RowsRest, SwitchesRest DEF BannerInv, BannerTypes
<1>2. CASE BannersNext
  BY <1>2, BannersLoadStep, UseFormStep, BannerSendsStep, BannerUpdatedStep, BannerMadeStep,
     BannerHears, BannerFailsStep, BannerElsewhereStep, LeaveBannersStep DEF BannersNext
<1>. QED BY <1>1, <1>2

LEMMA BannersBegin == BannersInit => BannerInv
<1> SUFFICES ASSUME BannersInit PROVE BannerInv
  OBVIOUS
<1>1. PICK b \in BannerIds \ Edited :
        banner = [c \in BannerIds |-> [at |-> IF c = b THEN "none" ELSE "there", active |-> TRUE]]
  BY DEF BannersInit, BannersStart
<1>2. /\ editor = NoEditor /\ update = [t \in BannerSlots |-> NoUpdate]
      /\ creating = "idle" /\ deleting = [c \in BannerIds |-> "idle"] /\ behindList = FALSE
  BY DEF BannersInit, BannersStart
<1>3. Follows(BannerKeys, BannerDatas, [k \in BannerKeys |-> banner], {})
  BY InitFollows DEF BannersInit, BannerKeys
<1>4. BannerTypes
  BY <1>1, <1>2, <1>3 DEF BannerTypes, BannerRow, Follows
<1>5. entry["banners"].fetch # "read" /\ entry["banners"].data = NoData
  BY DEF BannersInit, LoadingInit, Empty, Observed
<1>. QED BY <1>2, <1>4, <1>5 DEF BannerInv, RowsTell, Tells, UpdatesKept, FormKept

LEMMA BannersShow == BannerInv => BannersTypeOK
<1> SUFFICES ASSUME BannerInv PROVE BannersTypeOK
  OBVIOUS
<1>1. /\ DOMAIN entry = {"banners"} /\ entry["banners"] \in Entry([BannerIds -> BannerRow])
      /\ untold \in [{"banners"} -> BOOLEAN]
  BY DEF BannerInv, BannerTypes, Loads, BannerKeys, BannerDatas
<1>2. LoadingTypeOK({"banners"}, LAMBDA k : [BannerIds -> [at : {"none", "there", "gone"}, active : BOOLEAN]])
  BY <1>1 DEF LoadingTypeOK, BannerRow
<1>. QED BY <1>2 DEF BannerInv, BannerTypes, BannersTypeOK, BannerRow, UpdateCall, OpenForm

LEMMA KeptSwitch ==
  ASSUME BannerInv, BannersNext, NEW t \in BannerSlots,
         update[t] # NoUpdate /\ update[t].at = "sent" /\ update'[t].at = "done" /\ update[t].keeps
  PROVE  banner'[update[t].b].active = banner[update[t].b].active
<1>1. ASSUME NEW u \in BannerSlots, update[u] # NoUpdate, update' = [update EXCEPT ![u] = NoUpdate]
      PROVE  FALSE
  <2>1. update'[t] \in {update[t], NoUpdate}
    BY <1>1 DEF BannerInv, BannerTypes
  <2>. QED BY <2>1 DEF NoUpdate
<1>2. ASSUME NEW b, NEW active, NEW keeps, Updates(b, active, keeps)
      PROVE  FALSE
  <2> DEFINE older == [update[t] EXCEPT !.last = FALSE, !.keeps = @ /\ update[t].b # b]
             s == CHOOSE s \in BannerSlots : update[s] = NoUpdate
  <2>1. s \in BannerSlots /\ update[s] = NoUpdate
    BY <1>2 DEF Updates
  <2>2. update'[t] = older
    BY <1>2, <2>1 DEF Updates
  <2>3. older.at = "sent"
    BY DEF BannerInv, BannerTypes, UpdateCall
  <2> HIDE DEF older
  <2>. QED BY <2>2, <2>3
<1>3. UNCHANGED update => FALSE
  OBVIOUS
<1>4. ASSUME NEW u \in BannerSlots, BannerUpdated(u)
      PROVE  banner'[update[t].b].active = banner[update[t].b].active
  <2>1. u = t
    BY <1>4 DEF BannerUpdated, BannerInv, BannerTypes
  <2>2. UpdateKept(t) /\ update[t].b \in BannerIds
    BY DEF BannerInv, UpdatesKept, BannerTypes, UpdateCall
  <2>3. banner'[update[t].b].active = update[t].active /\ banner[update[t].b].at = "there"
    BY <1>4, <2>1, <2>2 DEF BannerUpdated, BannerInv, BannerTypes, BannerRow
  <2>. QED BY <2>2, <2>3 DEF UpdateKept
<1>5. BannersLoad \/ UseForm \/ BannerCreated \/ CreateSucceeded => UNCHANGED update
  BY DEF BannersLoad, UseForm, BannerCreated, CreateSucceeded
<1>6. SaveForm => UNCHANGED update \/ \E b, active, keeps : Updates(b, active, keeps)
  BY DEF SaveForm
<1>7. ASSUME NEW b \in BannerIds, Toggle(b) \/ DeleteBanner(b) \/ BannerDeleted(b) \/ DeleteSucceeded(b)
      PROVE  UNCHANGED update \/ \E active, keeps : Updates(b, active, keeps)
  BY <1>7 DEF Toggle, DeleteBanner, BannerDeleted, DeleteSucceeded
<1>8. ASSUME NEW u \in BannerSlots, UpdateSucceeded(u)
      PROVE  update[u] # NoUpdate /\ update' = [update EXCEPT ![u] = NoUpdate]
  BY <1>8 DEF UpdateSucceeded, NoUpdate
<1>9. BannerCallFails => UNCHANGED update \/ \E u \in BannerSlots :
        update[u] # NoUpdate /\ update' = [update EXCEPT ![u] = NoUpdate]
  BY DEF BannerCallFails
<1>10. LeaveBanners => FALSE
  <2>1. LeaveBanners => update'[t] = NoUpdate
    BY DEF LeaveBanners
  <2>. QED BY <2>1 DEF NoUpdate
<1>11. ASSUME NEW b \in BannerIds, BannerElsewhere(b)
       PROVE  FALSE
  <2> DEFINE drop == [update[t] EXCEPT !.keeps = FALSE]
  <2>1. update'[t] \in {drop, update[t]}
    BY <1>11 DEF BannerElsewhere
  <2>2. drop.at = "sent"
    BY DEF BannerInv, BannerTypes, UpdateCall
  <2> HIDE DEF drop
  <2>. QED BY <2>1, <2>2
<1>. QED BY <1>1, <1>2, <1>3, <1>4, <1>5, <1>6, <1>7, <1>8, <1>9, <1>10, <1>11 DEF BannersNext

(* The types, whatever is done to the banners; and a form that is saved     *)
(* without a touch on its box leaves its banner on or off as it was.        *)
THEOREM FormsKeepSwitches == BannersSpec => []BannersTypeOK /\ FormKeepsSwitch
<1>1. BannerInv /\ [BannersNext]_bannersVars => \A t \in BannerSlots :
        LET u == update[t]
        IN u # NoUpdate /\ u.at = "sent" /\ update'[t].at = "done" /\ u.keeps
             => banner'[u.b].active = banner[u.b].active
  BY KeptSwitch DEF bannersVars, bannerVars
<1>. QED BY <1>1, BannersBegin, BannersStep, BannersShow, PTL DEF BannersSpec, FormKeepsSwitch

-----------------------------------------------------------------------------
(* All desks.  The one at work keeps its invariant, and the others are as   *)
(* they began; nothing of theirs is loaded, so nothing is shown as fresh.   *)

ReturnsDesks == {"asking", "deciding", "refunding"}
RulingDesks == {"rulings", "rates"}
KeysAt(d) ==
  IF d = "orders" THEN OrderKeys ELSE IF d = "addresses" THEN BookKeys
  ELSE IF d = "bell" THEN BellKeys ELSE IF d = "preferences" THEN PrefKeys
  ELSE IF d = "products" THEN Tabs ELSE IF d \in RulingDesks THEN ListKeys
  ELSE IF d = "banners" THEN BannerKeys ELSE {}

AtWork ==
  /\ desk = "orders" => PageInv
  /\ desk = "addresses" => AddressInv
  /\ desk = "bell" => BellInv
  /\ desk = "preferences" => PrefInv
  /\ desk = "products" => ProductInv
  /\ desk \in RulingDesks => ApplicationInv
  /\ desk = "banners" => BannerInv

Resting ==
  /\ desk # "orders" => PageStart
  /\ desk # "addresses" => AddressesStart
  /\ desk # "bell" => BellStart
  /\ desk # "preferences" => PreferencesStart
  /\ desk # "products" => ProductsStart
  /\ desk \notin RulingDesks => ApplicationsStart
  /\ desk # "banners" => BannersStart

DeskInv ==
  /\ desk \in ReturnsDesks \cup RulingDesks \cup
       {"orders", "addresses", "bell", "preferences", "products", "uploads", "banners"}
  /\ DOMAIN entry = KeysAt(desk)
  /\ AtWork /\ Resting /\ UploadInv /\ ReturnInv

LEMMA DesksBegin == DesksInit => DeskInv
<1> SUFFICES ASSUME DesksInit PROVE DeskInv
  OBVIOUS
<1>1. desk \in ReturnsDesks \cup RulingDesks \cup
       {"orders", "addresses", "bell", "preferences", "products", "uploads", "banners"}
  BY DesksAssumption DEF DesksInit, AllDesks, ReturnsDesks, RulingDesks
<1>2. Resting /\ UploadInit /\ ReturnsInit
  BY DEF DesksInit, Resting
<1>3. UploadInv /\ ReturnInv
  BY <1>2, UploadBegins, ReturnBegins
<1>4. CASE desk = "orders"
  <2>1. PageInit
    BY <1>4 DEF DesksInit, PageInit
  <2>. QED BY <1>1, <1>2, <1>3, <1>4, <2>1, PageStarts
       DEF DeskInv, AtWork, KeysAt, RulingDesks, PageInit, LoadingInit
<1>5. CASE desk = "addresses"
  <2>1. AddressesInit
    BY <1>5 DEF DesksInit, AddressesInit
  <2>. QED BY <1>1, <1>2, <1>3, <1>5, <2>1, AddressesBegin
       DEF DeskInv, AtWork, KeysAt, RulingDesks, AddressesInit, LoadingInit, BookKeys
<1>6. CASE desk = "bell"
  <2>1. BellInit
    BY <1>6 DEF DesksInit, BellInit
  <2>. QED BY <1>1, <1>2, <1>3, <1>6, <2>1, BellStarts
       DEF DeskInv, AtWork, KeysAt, RulingDesks, BellInit, LoadingInit
<1>7. CASE desk = "preferences"
  <2>1. PreferencesInit
    BY <1>7 DEF DesksInit, PreferencesInit
  <2>. QED BY <1>1, <1>2, <1>3, <1>7, <2>1, PrefStarts
       DEF DeskInv, AtWork, KeysAt, RulingDesks, PreferencesInit, LoadingInit, PrefKeys
<1>8. CASE desk = "products"
  <2>1. ProductsInit
    BY <1>8 DEF DesksInit, ProductsInit
  <2>. QED BY <1>1, <1>2, <1>3, <1>8, <2>1, ProductsStarts
       DEF DeskInv, AtWork, KeysAt, RulingDesks, ProductsInit, LoadingInit
<1>9. CASE desk \in RulingDesks
  <2>1. ApplicationsInit
    BY <1>9 DEF DesksInit, ApplicationsInit, RulingDesks
  <2>. QED BY <1>1, <1>2, <1>3, <1>9, <2>1, ApplicationsBegin
       DEF DeskInv, AtWork, KeysAt, RulingDesks, ApplicationsInit, LoadingInit, ListKeys
<1>10. CASE desk = "banners"
  <2>1. BannersInit
    BY <1>10 DEF DesksInit, BannersInit
  <2>. QED BY <1>1, <1>2, <1>3, <1>10, <2>1, BannersBegin
       DEF DeskInv, AtWork, KeysAt, RulingDesks, BannersInit, LoadingInit, BannerKeys
<1>11. CASE desk \in ReturnsDesks \cup {"uploads"}
  <2>1. LoadingInit({}, {})
    BY <1>11 DEF DesksInit, ReturnsDesks
  <2>. QED BY <1>1, <1>2, <1>3, <1>11, <2>1
       DEF DeskInv, AtWork, KeysAt, RulingDesks, ReturnsDesks, LoadingInit
<1>. QED BY <1>1, <1>4, <1>5, <1>6, <1>7, <1>8, <1>9, <1>10, <1>11

(* what nobody works on stays as it began *)
LEMMA Rests ==
  /\ PageStart /\ UNCHANGED ownOrders => PageStart'
  /\ AddressesStart /\ UNCHANGED ownAddresses => AddressesStart'
  /\ BellStart /\ UNCHANGED ownBell => BellStart'
  /\ PreferencesStart /\ UNCHANGED ownPreferences => PreferencesStart'
  /\ ProductsStart /\ UNCHANGED ownProducts => ProductsStart'
  /\ ApplicationsStart /\ UNCHANGED <<ownRulings, rateVars>> => ApplicationsStart'
  /\ BannersStart /\ UNCHANGED bannerVars => BannersStart'
<1>1. PageStart /\ UNCHANGED ownOrders => PageStart'
  BY DEF PageStart, ownOrders
<1>2. AddressesStart /\ UNCHANGED ownAddresses => AddressesStart'
  BY DEF AddressesStart, ownAddresses
<1>3. BellStart /\ UNCHANGED ownBell => BellStart'
  BY DEF BellStart, ownBell
<1>4. PreferencesStart /\ UNCHANGED ownPreferences => PreferencesStart'
  BY DEF PreferencesStart, ownPreferences
<1>5. ProductsStart /\ UNCHANGED ownProducts => ProductsStart'
  BY DEF ProductsStart, ownProducts
<1>6. ApplicationsStart /\ UNCHANGED <<ownRulings, rateVars>> => ApplicationsStart'
  BY DEF ApplicationsStart, ownRulings, rulingVars, rateVars
<1>7. BannersStart /\ UNCHANGED bannerVars => BannersStart'
  BY DEF BannersStart, bannerVars
<1>. QED BY <1>1, <1>2, <1>3, <1>4, <1>5, <1>6, <1>7

LEMMA ReturnsDesksAct == ReturnsDesk => ReturnsNext
<1>1. DecidesPlainly => SupplierNext
  BY DEF DecidesPlainly, SupplierNext
<1>2. RefundsPlainly => AdminNext
  <2> DEFINE c == CHOOSE c \in Calls : TRUE
  <2>1. c \in Calls /\ 0 \in Typed
    BY DesksAssumption
  <2>2. SUFFICES ASSUME RefundsPlainly PROVE AdminNext
    OBVIOUS
  <2>3. \/ \E r \in ReturnIds : ClaimRefund(c, r, 0)
        \/ call[c] # NoCall /\ (Book(c) \/ Charge(c) \/ Reverse(c) \/ Finish(c))
    BY <2>2 DEF RefundsPlainly
  <2> HIDE DEF c
  <2>. QED BY <2>1, <2>3 DEF AdminNext
<1>. QED BY <1>1, <1>2 DEF ReturnsDesk, ReturnsNext

(* what a step of each desk does, and whom it leaves alone *)
LEMMA DesksAct ==
  ASSUME DesksNext
  PROVE  /\ desk' = desk
         /\ \/ /\ desk \in ReturnsDesks /\ ReturnsNext
               /\ UNCHANGED <<ownOrders, ownAddresses, ownBell, ownPreferences, ownProducts>>
               /\ UNCHANGED <<uploadVars, ownRulings, rateVars, bannerVars, loadVars>>
            \/ /\ desk = "orders" /\ PageNext
               /\ UNCHANGED <<ownAddresses, ownBell, ownPreferences, ownProducts>>
               /\ UNCHANGED <<retVars, uploadVars, ownRulings, rateVars, bannerVars>>
            \/ /\ desk = "addresses" /\ AddressesNext
               /\ UNCHANGED <<ownOrders, ownBell, ownPreferences, ownProducts>>
               /\ UNCHANGED <<retVars, uploadVars, ownRulings, rateVars, bannerVars>>
            \/ /\ desk = "bell" /\ BellNext
               /\ UNCHANGED <<ownOrders, ownAddresses, ownPreferences, ownProducts>>
               /\ UNCHANGED <<retVars, uploadVars, ownRulings, rateVars, bannerVars>>
            \/ /\ desk = "preferences" /\ PreferencesNext
               /\ UNCHANGED <<ownOrders, ownAddresses, ownBell, ownProducts>>
               /\ UNCHANGED <<retVars, uploadVars, ownRulings, rateVars, bannerVars>>
            \/ /\ desk = "products" /\ ProductsNext
               /\ UNCHANGED <<ownOrders, ownAddresses, ownBell, ownPreferences>>
               /\ UNCHANGED <<retVars, uploadVars, ownRulings, rateVars, bannerVars>>
            \/ /\ desk = "uploads" /\ UploadNext
               /\ UNCHANGED <<ownOrders, ownAddresses, ownBell, ownPreferences, ownProducts>>
               /\ UNCHANGED <<retVars, ownRulings, rateVars, bannerVars, loadVars>>
            \/ /\ desk \in RulingDesks /\ (RulingsNext \/ RatesNext)
               /\ UNCHANGED <<ownOrders, ownAddresses, ownBell, ownPreferences, ownProducts>>
               /\ UNCHANGED <<retVars, uploadVars, bannerVars>>
            \/ /\ desk = "banners" /\ BannersNext
               /\ UNCHANGED <<ownOrders, ownAddresses, ownBell, ownPreferences, ownProducts>>
               /\ UNCHANGED <<retVars, uploadVars, ownRulings, rateVars>>
<1>1. ReturnsDesk => desk \in ReturnsDesks /\ ReturnsNext
  BY ReturnsDesksAct DEF ReturnsDesk, ReturnsDesks
<1> DEFINE O == UNCHANGED ownOrders
           A == UNCHANGED ownAddresses
           B == UNCHANGED ownBell
           P == UNCHANGED ownPreferences
           S == UNCHANGED ownProducts
<1>2. UNCHANGED ownOthers => A /\ B /\ P /\ S /\ UNCHANGED <<uploadVars, ownAdmin>>
  BY DEF ownOthers
<1>3. UNCHANGED ownAdmin => UNCHANGED <<ownRulings, rateVars, bannerVars>>
  BY DEF ownAdmin
<1>. QED BY <1>1, <1>2, <1>3 DEF DesksNext, RulingDesks

LEMMA OthersStay ==
  ASSUME DeskInv
  PROVE  /\ UNCHANGED retVars => ReturnInv'
         /\ UNCHANGED uploadVars => UploadInv'
<1>. QED BY ReturnSteps, UploadStep DEF DeskInv

LEMMA DesksStep == DeskInv /\ [DesksNext]_deskVars => DeskInv'
<1> SUFFICES ASSUME DeskInv, [DesksNext]_deskVars PROVE DeskInv'
  OBVIOUS
<1>1. ASSUME desk = "orders", [PageNext]_pageVars
      PROVE  PageInv' /\ DOMAIN entry' = OrderKeys
  <2>1. PageInv'
    BY <1>1, PageStep DEF DeskInv, AtWork
  <2>. QED BY <2>1 DEF PageInv, Follows, Loads
<1>2. ASSUME desk = "addresses", [AddressesNext]_addressVars
      PROVE  AddressInv' /\ DOMAIN entry' = BookKeys
  <2>1. AddressInv'
    BY <1>2, AddressesStep DEF DeskInv, AtWork
  <2>. QED BY <2>1 DEF AddressInv, Follows, Loads
<1>3. ASSUME desk = "bell", [BellNext]_bellVars
      PROVE  BellInv' /\ DOMAIN entry' = BellKeys
  <2>1. BellInv'
    BY <1>3, BellStep DEF DeskInv, AtWork
  <2>. QED BY <2>1 DEF BellInv, Follows, Loads
<1>4. ASSUME desk = "preferences", [PreferencesNext]_preferenceVars
      PROVE  PrefInv' /\ DOMAIN entry' = PrefKeys
  <2>1. PrefInv'
    BY <1>4, PrefStep DEF DeskInv, AtWork
  <2>. QED BY <2>1 DEF PrefInv, Follows, Loads
<1>5. ASSUME desk = "products", [ProductsNext]_productVars
      PROVE  ProductInv' /\ DOMAIN entry' = Tabs
  <2>1. ProductInv'
    BY <1>5, ProductsStep DEF DeskInv, AtWork
  <2>. QED BY <2>1 DEF ProductInv, Follows, Loads
<1>6. ASSUME desk \in RulingDesks, [RulingsNext \/ RatesNext]_applicationVars
      PROVE  ApplicationInv' /\ DOMAIN entry' = ListKeys
  <2>1. ApplicationInv'
    BY <1>6, ApplicationsStep DEF DeskInv, AtWork
  <2>. QED BY <2>1 DEF ApplicationInv, ApplicationTypes, Loads
<1>7. ASSUME desk = "banners", [BannersNext]_bannersVars
      PROVE  BannerInv' /\ DOMAIN entry' = BannerKeys
  <2>1. BannerInv'
    BY <1>7, BannersStep DEF DeskInv, AtWork
  <2>. QED BY <2>1 DEF BannerInv, BannerTypes, Loads
<1> DEFINE rested == /\ desk # "orders" => UNCHANGED ownOrders
                     /\ desk # "addresses" => UNCHANGED ownAddresses
                     /\ desk # "bell" => UNCHANGED ownBell
                     /\ desk # "preferences" => UNCHANGED ownPreferences
                     /\ desk # "products" => UNCHANGED ownProducts
                     /\ desk \notin RulingDesks => UNCHANGED <<ownRulings, rateVars>>
                     /\ desk # "banners" => UNCHANGED bannerVars
<1>8. ASSUME desk' = desk, rested
      PROVE  Resting'
  BY <1>8, Rests DEF DeskInv, Resting
<1> HIDE DEF rested
<1>9. CASE UNCHANGED deskVars
  <2>1. /\ desk' = desk /\ entry' = entry /\ UNCHANGED <<retVars, uploadVars>>
        /\ UNCHANGED <<pageVars, addressVars, bellVars, preferenceVars, productVars>>
        /\ UNCHANGED <<applicationVars, bannersVars>>
    BY <1>9 DEF deskVars, ownAdmin, ownOrders, ownAddresses, ownBell, ownPreferences, ownProducts,
         ownRulings, pageVars, addressVars, bellVars, preferenceVars, productVars, applicationVars,
         bannersVars, loadVars
  <2>2. rested
    BY <1>9 DEF rested, deskVars, ownAdmin
  <2>3. AtWork'
    BY <1>1, <1>2, <1>3, <1>4, <1>5, <1>6, <1>7, <2>1 DEF AtWork
  <2>. QED BY <1>8, <2>1, <2>2, <2>3, OthersStay DEF DeskInv
<1>10. CASE DesksNext
  <2>1. desk' = desk
    BY <1>10, DesksAct
  <2>2. rested /\ Resting'
    <3>1. rested
      BY <1>10, DesksAct DEF rested, ReturnsDesks, RulingDesks
    <3>. QED BY <1>8, <2>1, <3>1
  <2>3. UploadInv' /\ ReturnInv'
    <3>1. UNCHANGED uploadVars \/ UploadNext
      BY <1>10, DesksAct
    <3>2. UNCHANGED retVars \/ ReturnsNext
      BY <1>10, DesksAct
    <3>. QED BY <3>1, <3>2, ReturnSteps, UploadStep DEF DeskInv
  <2>4. AtWork' /\ DOMAIN entry' = KeysAt(desk)
    <3>1. CASE desk \in ReturnsDesks \cup {"uploads"}
      <4>1. entry' = entry
        BY <1>10, <3>1, DesksAct DEF ReturnsDesks, RulingDesks, loadVars
      <4>. QED BY <2>1, <3>1, <4>1 DEF AtWork, DeskInv, ReturnsDesks, RulingDesks
    <3>2. CASE desk \notin ReturnsDesks \cup {"uploads"}
      <4>. QED BY <1>10, <1>1, <1>2, <1>3, <1>4, <1>5, <1>6, <1>7, <2>1, <3>2, DesksAct
               DEF AtWork, KeysAt, DeskInv, ReturnsDesks, RulingDesks
    <3>. QED BY <3>1, <3>2
  <2>. QED BY <2>1, <2>2, <2>3, <2>4 DEF DeskInv
<1>. QED BY <1>9, <1>10

(* at the desk by what was shown of it, elsewhere as nothing was done yet *)
LEMMA NothingShown ==
  ASSUME DeskInv
  PROVE  /\ desk # "orders" => \A k \in OrderKeys : ~Fresh(k)
         /\ desk # "addresses" => ~Fresh("addresses")
         /\ desk # "bell" => \A k \in BellKeys : ~Fresh(k)
         /\ desk # "preferences" => ~Fresh("prefs")
         /\ desk # "products" => \A k \in Tabs : ~Fresh(k)
BY ProductsAssumption
   DEF DeskInv, KeysAt, Fresh, Has, OrderKeys, BookKeys, BellKeys, PrefKeys, ListKeys, BannerKeys,
       Statuses, RulingDesks, ReturnsDesks

LEMMA DesksShow ==
  ASSUME DeskInv
  PROVE  /\ OrderPageFollows /\ AddressesFollow /\ NotificationsFollow /\ ProductsFollow
         /\ OneDefault /\ RateAsEntered /\ StarMeans
<1>1. OrderPageFollows
  BY NothingShown, PageShows DEF DeskInv, AtWork, OrderPageFollows
<1>2. AddressesFollow
  BY NothingShown, AddressesShow DEF DeskInv, AtWork, AddressesFollow
<1>3. BellFollows
  BY NothingShown, BellShows DEF DeskInv, AtWork, BellFollows
<1>4. PreferencesFollow
  BY NothingShown, PrefShows DEF DeskInv, AtWork, PreferencesFollow
<1>5. ProductsFollow
  BY NothingShown, ProductsShow DEF DeskInv, AtWork, ProductsFollow
<1>6. OneDefault
  <2>1. AddressesStart => OneDefault
    BY DEF AddressesStart, OneDefault, RowsOf
  <2>. QED BY <2>1, AddressesShow DEF DeskInv, AtWork, Resting
<1>7. RateAsEntered
  <2>1. ApplicationsStart => RateAsEntered
    BY DEF ApplicationsStart, RateAsEntered
  <2>. QED BY <2>1, ApplicationsShow DEF DeskInv, AtWork, Resting
<1>8. StarMeans
  <2>1. ProductsStart => StarMeans
    BY DEF ProductsStart, StarMeans
  <2>. QED BY <2>1, ProductsShow DEF DeskInv, AtWork, Resting
<1>. QED BY <1>1, <1>2, <1>3, <1>4, <1>5, <1>6, <1>7, <1>8 DEF NotificationsFollow

(* The pages of the office and of the buyer, whichever is open, show as     *)
(* fresh only what the service has, and do what their buttons offered.      *)
THEOREM DesksAreTrue ==
  DesksSpec => [](/\ OrderPageFollows /\ AddressesFollow /\ NotificationsFollow /\ ProductsFollow
                  /\ OneDefault /\ RateAsEntered /\ StarMeans)
BY DesksBegin, DesksStep, DesksShow, PTL DEF DesksSpec

(* What the returns and the import promise, they promise with the desks     *)
(* that DesksSpec gives to each actor.                                      *)
THEOREM DesksKeepPromises ==
  DesksSpec => [](/\ RestockedOnce /\ ChargedOnce /\ ClaimHeld /\ ReturnedWithinOrdered
                  /\ ImportsWhatIsShown /\ ImportedWhole)
<1>1. UploadInv => ImportsWhatIsShown /\ ImportedWhole
  BY UploadShows
<1>2. ReturnInv => RestockedOnce /\ ChargedOnce /\ ClaimHeld /\ ReturnedWithinOrdered
  BY ReturnShows
<1>3. DeskInv => UploadInv /\ ReturnInv
  BY DEF DeskInv
<1>. QED BY <1>1, <1>2, <1>3, DesksBegin, DesksStep, PTL DEF DesksSpec

(* The types of the returns and of every page, at each desk.               *)
THEOREM DesksAreTyped == DesksSpec => []DesksTypeOK
<1>1. ReturnInv => ReturnsTypeOK
  BY ReturnShows
<1>2. DeskInv => DesksTypeOK
  BY <1>1, PageShows, AddressesShow, BellShows, PrefShows, ProductsShow, UploadShows,
     ApplicationsShow, BannersShow DEF DeskInv, AtWork, DesksTypeOK, RulingDesks
<1>. QED BY <1>2, DesksBegin, DesksStep, PTL DEF DesksSpec

(* a step of any desk, to the variables that the action properties are of *)
LEMMA DesksDecide ==
  ASSUME DeskInv, DesksNext
  PROVE  /\ [ReturnsNext]_retVars
         /\ ApplicationInv \/ UNCHANGED rulingVars
         /\ (BannerInv /\ BannersNext) \/ UNCHANGED bannerVars
BY DesksAct DEF DeskInv, AtWork, RulingDesks, ReturnsDesks, ownRulings

(* A decision of a return stands, one of an application finds it pending,   *)
(* and a form keeps the switch of its banner, in every step of any desk.    *)
THEOREM DesksStandBy == DesksSpec => DecidedOnce /\ DecidedWhilePending /\ FormKeepsSwitch
<1>1. ASSUME DeskInv, [DesksNext]_deskVars
      PROVE  [\A r \in ReturnIds \ excused'.left :
        /\ ret[r].st = "REJECTED" => ret'[r].st = "REJECTED"
        /\ ret[r].st = "REFUNDED" => ret'[r].st = "REFUNDED"
        /\ ret[r].st \in {"APPROVED", "REFUNDING"} => ret'[r].st \notin {"REQUESTED", "REJECTED"}]_retVars
  <2>1. Inv /\ [ReturnsNext]_retVars
    BY <1>1, DesksDecide DEF DeskInv, ReturnInv, deskVars
  <2>. QED BY <2>1, DecisionStands DEF Stands
<1>2. ASSUME DeskInv, [DesksNext]_deskVars
      PROVE  [\A to \in Decided :
        ruling[to].sure /\ ruling'[to].at = "done" /\ ruling[to].at = "sent"
          => applicant[ruling[to].s].status = "PENDING"]_applicationVars
  <2>1. ApplicationInv \/ UNCHANGED rulingVars
    BY <1>1, <1>2, DesksDecide DEF deskVars, ownAdmin, ownRulings
  <2>. QED BY <2>1, DecisionStep DEF rulingVars
<1>3. ASSUME DeskInv, [DesksNext]_deskVars
      PROVE  [\A t \in BannerSlots :
        LET u == update[t]
        IN u # NoUpdate /\ u.at = "sent" /\ update'[t].at = "done" /\ u.keeps
             => banner'[u.b].active = banner[u.b].active]_bannersVars
  <2>1. (BannerInv /\ BannersNext) \/ UNCHANGED bannerVars
    BY <1>3, DesksDecide DEF deskVars, ownAdmin
  <2>. QED BY <2>1, KeptSwitch DEF bannerVars
<1>. QED BY <1>1, <1>2, <1>3, DesksBegin, DesksStep, PTL
     DEF DesksSpec, DecidedOnce, DecidedWhilePending, FormKeepsSwitch
================================================================================
