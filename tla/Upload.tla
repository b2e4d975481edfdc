--------------------------------- MODULE Upload ---------------------------------
(***************************************************************************)
(* Importing products from a file: the supplier picks it, is shown what    *)
(* would be created, and confirms, upon which the file is sent again.  A   *)
(* file is the set of SKUs in it, each a product of its own.               *)
(*                                                                         *)
(* The service validates the file at both calls, and creates the products  *)
(* one by one without a transaction.                                       *)
(***************************************************************************)
EXTENDS FiniteSets

CONSTANTS
  Skus,
  UploadSlots,   \* bound: calls under way together
  NoFile

Files == SUBSET Skus \ {{}}

VARIABLES
  catalogue,   \* the SKUs the service has
  imported,    \* the files whose import was answered as a success
  modal,       \* [step, file, preview]; preview: the answer [of, valid]
  upload,      \* the calls.  here: the modal that sent it is still open
  hurried,     \* a file was picked while a preview was under way
  torn         \* an import died half way, or two ran at once

uploadVars == <<catalogue, imported, modal, upload, hurried, torn>>

NoPreview == [of |-> NoFile, valid |-> FALSE]
NoUpload == [at |-> "idle"]
Closed == [step |-> "closed", file |-> NoFile, preview |-> NoPreview]
UploadCall == [op : {"preview", "confirm"}, file : Files, at : {"sent", "writing", "done"},
               left : SUBSET Skus, ok : BOOLEAN, here : BOOLEAN]

Own(op) == {s \in UploadSlots : upload[s] # NoUpload /\ upload[s].op = op /\ upload[s].here}
Sends(op, f) ==
  /\ \E s \in UploadSlots : upload[s] = NoUpload
  /\ upload' = [upload EXCEPT ![CHOOSE s \in UploadSlots : upload[s] = NoUpload] =
       [op |-> op, file |-> f, at |-> "sent", left |-> {}, ok |-> FALSE, here |-> TRUE]]

-----------------------------------------------------------------------------
(* The modal                                                               *)

OpenUpload ==
  /\ modal = Closed
  /\ modal' = [Closed EXCEPT !.step = "pick"]
  /\ UNCHANGED <<catalogue, imported, upload, hurried, torn>>

(* the cross, Cancel, or "View products": what it holds is gone *)
CloseUpload ==
  /\ modal # Closed /\ modal' = Closed
  /\ upload' = [s \in UploadSlots |->
       IF upload[s] = NoUpload THEN NoUpload ELSE [upload[s] EXCEPT !.here = FALSE]]
  /\ hurried' = FALSE
  /\ UNCHANGED <<catalogue, imported, torn>>

(* the wrong way: the file picked first stays, the other is only previewed *)
PickKeeping(f) ==
  /\ modal.step = "pick" /\ Sends("preview", f)
  /\ modal' = [modal EXCEPT !.file = IF @ = NoFile THEN f ELSE @]
  /\ hurried' = (hurried \/ Own("preview") # {})
  /\ UNCHANGED <<catalogue, imported, torn>>

(* handleFileChange: not disabled while a preview is under way *)
Pick(f) ==
  /\ modal.step = "pick" /\ Sends("preview", f)
  /\ modal' = [modal EXCEPT !.file = f]
  /\ hurried' = (hurried \/ Own("preview") # {})
  /\ UNCHANGED <<catalogue, imported, torn>>

(* also while an import of the modal is under way *)
Back ==
  /\ modal.step \in {"preview", "errors"}
  /\ modal' = [Closed EXCEPT !.step = "pick"]
  /\ UNCHANGED <<catalogue, imported, upload, hurried, torn>>

Confirm ==
  /\ modal.step = "preview" /\ modal.file # NoFile /\ Own("confirm") = {}
  /\ Sends("confirm", modal.file)
  /\ UNCHANGED <<catalogue, imported, modal, hurried, torn>>

-----------------------------------------------------------------------------
(* The service                                                             *)

Valid(f) == f \cap catalogue = {}
Writing == {s \in UploadSlots : upload[s].at = "writing"}

Previewed(s) ==
  /\ upload[s].at = "sent" /\ upload[s].op = "preview"
  /\ upload' = [upload EXCEPT ![s].at = "done", ![s].ok = Valid(upload[s].file)]
  /\ UNCHANGED <<catalogue, imported, modal, hurried, torn>>

(* the wrong way: the preview's validation is trusted *)
StartsUnchecked(f) == TRUE
Starts(f) == Valid(f)
(* refused with the errors if it is not valid any more *)
StartImport(s) ==
  /\ upload[s].at = "sent" /\ upload[s].op = "confirm" /\ Starts(upload[s].file)
  /\ upload' = [upload EXCEPT ![s].at = "writing", ![s].left = upload[s].file]
  /\ torn' = (torn \/ Writing # {})
  /\ UNCHANGED <<catalogue, imported, modal, hurried>>

CreateOne(s, k) ==
  /\ s \in Writing /\ k \in upload[s].left \ catalogue
  /\ catalogue' = catalogue \cup {k}
  /\ upload' = [upload EXCEPT ![s].left = @ \ {k}]
  /\ UNCHANGED <<imported, modal, hurried, torn>>

EndImport(s) ==
  /\ s \in Writing /\ upload[s].left = {}
  /\ upload' = [upload EXCEPT ![s].at = "done", ![s].ok = TRUE]
  /\ imported' = imported \cup {upload[s].file}
  /\ UNCHANGED <<catalogue, modal, hurried, torn>>

(* the SKU has come to exist: what was created before it stays *)
ImportRaises(s) ==
  /\ s \in Writing /\ upload[s].left \cap catalogue # {}
  /\ upload' = [upload EXCEPT ![s] = NoUpload]
  /\ UNCHANGED <<catalogue, imported, modal, hurried, torn>>

-----------------------------------------------------------------------------
(* an answer to a modal that is closed changes nothing *)
UploadAnswered(s) ==
  LET c == upload[s]
  IN /\ c.at = "done"
     /\ modal' = IF ~c.here THEN modal
                 ELSE IF c.op = "confirm" THEN [modal EXCEPT !.step = "success"]
                 ELSE [modal EXCEPT !.preview = [of |-> c.file, valid |-> c.ok],
                                    !.step = IF c.ok THEN "preview" ELSE "errors"]
     /\ upload' = [upload EXCEPT ![s] = NoUpload]
     /\ UNCHANGED <<catalogue, imported, hurried, torn>>

(* refused, died, or its reply lost *)
UploadFails(s) ==
  /\ upload[s] # NoUpload
  /\ upload' = [upload EXCEPT ![s] = NoUpload]
  /\ torn' = (torn \/ upload[s].at = "writing")
  /\ UNCHANGED <<catalogue, imported, modal, hurried>>

UploadInit ==
  /\ catalogue = {} /\ imported = {} /\ modal = Closed
  /\ upload = [s \in UploadSlots |-> NoUpload]
  /\ hurried = FALSE /\ torn = FALSE

UploadNext ==
  \/ OpenUpload \/ CloseUpload \/ Back \/ Confirm
  \/ \E f \in Files : Pick(f)
  \/ \E s \in UploadSlots :
       \/ Previewed(s) \/ StartImport(s) \/ EndImport(s) \/ ImportRaises(s)
       \/ UploadAnswered(s) \/ UploadFails(s) \/ \E k \in Skus : CreateOne(s, k)

UploadSpec == UploadInit /\ [][UploadNext]_uploadVars

-----------------------------------------------------------------------------
(* Properties                                                              *)

(* Every variable has its type. *)
UploadTypeOK ==
  /\ catalogue \subseteq Skus /\ imported \subseteq Files
  /\ modal \in [step : {"closed", "pick", "preview", "errors", "success"}, file : Files \cup {NoFile},
                preview : [of : Files, valid : BOOLEAN] \cup {NoPreview}]
  /\ upload \in [UploadSlots -> UploadCall \cup {NoUpload}]
  /\ hurried \in BOOLEAN /\ torn \in BOOLEAN

(* The file the Import button would send is the one whose products are      *)
(* listed above it, whatever was picked, previewed, failed or gone back     *)
(* from before - unless a file was picked while a preview was under way.    *)
ImportsWhatIsShown ==
  modal.step = "preview" /\ ~hurried =>
    modal.preview.valid /\ modal.preview.of = modal.file

(* Files are imported whole or not at all: once no import runs, what was    *)
(* created is the files that succeeded.  Nothing but the second validation  *)
(* sees to it, so it fails after an import died or two ran at once.         *)
ImportedWhole == ~torn /\ Writing = {} => catalogue = UNION imported
=============================================================================
