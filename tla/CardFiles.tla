----------------------------- MODULE CardFiles -----------------------------
(***************************************************************************)
(* The files of one card and its purge (internal/api/attachments.go,       *)
(* internal/db/attachments.go, DELETE /api/cards/{id} in internal/api/api.go). *)
(*                                                                         *)
(* file-store has the bytes, this store has a row for each file that hangs *)
(* on the card, noteboard has the item.  An upload, a removal and a purge  *)
(* go from one to the other without a transaction: every call is a step    *)
(* that may fail, a call to a service may take effect and lose its answer, *)
(* and the process may stop between any two steps.  Publications about the *)
(* card bring the text that a purge has to take away.                      *)
(*                                                                         *)
(* No two cards share a file or a row, so one card is enough.  It stays on *)
(* its board until a purge takes it off: attaching and detaching are       *)
(* CardPlacement's, and a card on no board only takes no upload and no     *)
(* publication.  A reversible delete touches nothing here.  file-store is  *)
(* configured; without it only the purge of a card with no rows runs.      *)
(***************************************************************************)
EXTENDS Naturals

CONSTANTS
  File,      \* an upload each: file-store mints an id per upload
  Removal,   \* requests that take a file off the card
  Purge,     \* requests that purge the card
  Decision   \* publications about the card

VARIABLES
  held,      \* file-store's record of each file
  rows,      \* card_attachments
  sources,   \* classification_decisions.source_snapshot
  item,      \* noteboard's item
  placed,    \* whether the card is on a board
  removedEvents, \* how often the timeline says of a file that it was removed
  upload,    \* how far each upload is,
  removal,   \* each removal, and of which file,
  purge      \* and each purge: what it has still to do, and what there was when it began

vars == <<held, rows, sources, item, placed, removedEvents, upload, removal, purge>>

UploadStage == {"new", "checked", "sent", "unrecorded", "recorded",
                "attached", "refused", "lost", "stuck", "unlogged", "stopped"}
RemovalStage == {"new", "found", "taken", "off", "done", "failed"}
PurgeStage == {"new", "listing", "destroying", "cleared", "gone", "done", "failed"}

\* What a card has for a purge to take: files, rows and texts.
Belongings == [files : SUBSET File, rows : SUBSET File, texts : SUBSET Decision]

Kept == {f \in File : held[f] \in {"live", "deleted"}}
Texts == {d \in Decision : sources[d] = "kept"}

Init ==
  /\ held = [f \in File |-> "none"] /\ rows = {}
  /\ sources = [d \in Decision |-> "none"]
  /\ item = "there" /\ placed = TRUE
  /\ removedEvents = [f \in File |-> 0]
  /\ upload = [f \in File |-> "new"]
  /\ removal = [r \in Removal |-> [stage |-> "new", files |-> {}]]
  /\ purge = [p \in Purge |-> [stage |-> "new", files |-> {}, rows |-> {},
                               had |-> [files |-> {}, rows |-> {}, texts |-> {}]]]

Hold(f, record) == held' = [held EXCEPT ![f] = record]
Uploads(f, stage) == upload' = [upload EXCEPT ![f] = stage]
Removes(r, stage) == removal' = [removal EXCEPT ![r].stage = stage]
Purges(p, stage) == purge' = [purge EXCEPT ![p].stage = stage]

-----------------------------------------------------------------------------
(* Attaching a file: POST /api/cards/{id}/attachments *)

\* A card on no board answers 404.
CheckPlacement(f) ==
  /\ upload[f] = "new" /\ placed
  /\ Uploads(f, "checked")
  /\ UNCHANGED <<held, rows, sources, item, placed, removedEvents, removal, purge>>

\* file-store takes the bytes, or its answer is lost, or it refuses.
SendFile(f) ==
  /\ upload[f] = "checked"
  /\ \/ Hold(f, "live") /\ (Uploads(f, "sent") \/ Uploads(f, "lost"))
     \/ Uploads(f, "refused") /\ UNCHANGED held
  /\ UNCHANGED <<rows, sources, item, placed, removedEvents, removal, purge>>

CreateCardAttachment(f) ==
  /\ upload[f] = "sent"
  /\ \/ rows' = rows \cup {f} /\ Uploads(f, "recorded")
     \/ Uploads(f, "unrecorded") /\ UNCHANGED rows
  /\ UNCHANGED <<held, sources, item, placed, removedEvents, removal, purge>>

\* The file that could not be recorded is destroyed again; failing that is logged.
TakeBack(f) ==
  /\ upload[f] = "unrecorded"
  /\ \/ Hold(f, "destroyed") /\ (Uploads(f, "refused") \/ Uploads(f, "stuck"))
     \/ Uploads(f, "stuck") /\ UNCHANGED held
  /\ UNCHANGED <<rows, sources, item, placed, removedEvents, removal, purge>>

RecordAdded(f) ==
  /\ upload[f] = "recorded"
  /\ Uploads(f, "attached") \/ Uploads(f, "unlogged")
  /\ UNCHANGED <<held, rows, sources, item, placed, removedEvents, removal, purge>>

-----------------------------------------------------------------------------
(* Taking a file off: DELETE /api/cards/{id}/attachments/{file_id} *)

\* The row is there.  What file-store says of the file, read next, is for the event.
FindAttachment(r, f) ==
  /\ removal[r].stage = "new" /\ f \in rows
  /\ removal' = [removal EXCEPT ![r] = [stage |-> "found", files |-> {f}]]
  /\ UNCHANGED <<held, rows, sources, item, placed, removedEvents, upload, purge>>

MutDeleteFile(r, f) ==
  /\ removal[r].stage = "found" /\ f \in removal[r].files
  /\ \/ Hold(f, IF held[f] = "live" THEN "deleted" ELSE held[f])
     \/ UNCHANGED held
  /\ Removes(r, "taken")
  /\ UNCHANGED <<rows, sources, item, placed, removedEvents, upload, purge>>

\* Reversibly; a file file-store no longer has is already away.
DeleteFile(r, f) ==
  /\ removal[r].stage = "found" /\ f \in removal[r].files
  /\ \/ /\ Hold(f, IF held[f] = "live" THEN "deleted" ELSE held[f])
        /\ Removes(r, "taken") \/ Removes(r, "failed")
     \/ Removes(r, "failed") /\ UNCHANGED held
  /\ UNCHANGED <<rows, sources, item, placed, removedEvents, upload, purge>>

MutDeleteCardAttachment(r, f) ==
  /\ removal[r].stage = "taken" /\ f \in removal[r].files
  /\ rows' = rows \ {f} /\ Removes(r, "off")
  /\ UNCHANGED <<held, sources, item, placed, removedEvents, upload, purge>>

\* Of two removals of one file the second finds no row and answers 404.
DeleteCardAttachment(r, f) ==
  /\ removal[r].stage = "taken" /\ f \in removal[r].files
  /\ \/ f \in rows /\ rows' = rows \ {f} /\ Removes(r, "off")
     \/ Removes(r, "failed") /\ UNCHANGED rows
  /\ UNCHANGED <<held, sources, item, placed, removedEvents, upload, purge>>

RecordRemoved(r, f) ==
  /\ removal[r].stage = "off" /\ f \in removal[r].files
  /\ \/ removedEvents' = [removedEvents EXCEPT ![f] = @ + 1] /\ Removes(r, "done")
     \/ Removes(r, "failed") /\ UNCHANGED removedEvents
  /\ UNCHANGED <<held, rows, sources, item, placed, upload, purge>>

-----------------------------------------------------------------------------
(* Purging the card: DELETE /api/cards/{id}?hard=true *)

\* Whatever fails before the item is deleted ends the purge, and the card stays.
PurgeFails(p) ==
  /\ purge[p].stage \in {"new", "listing", "destroying", "cleared"}
  /\ Purges(p, "failed")
  /\ UNCHANGED <<held, rows, sources, item, placed, removedEvents, upload, removal>>

ListCardAttachments(p) ==
  /\ purge[p].stage = "new"
  /\ purge' = [purge EXCEPT ![p] = [stage |-> "listing", files |-> {}, rows |-> rows,
                                    had |-> [files |-> Kept, rows |-> rows, texts |-> Texts]]]
  /\ UNCHANGED <<held, rows, sources, item, placed, removedEvents, upload, removal>>

MutEveryFileOfCard(p) ==
  /\ purge[p].stage = "listing"
  /\ purge' = [purge EXCEPT ![p].stage = "destroying",
                            ![p].files = {f \in File : held[f] = "live"}]
  /\ UNCHANGED <<held, rows, sources, item, placed, removedEvents, upload, removal>>

\* The files that were taken off the card too.
EveryFileOfCard(p) ==
  /\ purge[p].stage = "listing"
  /\ purge' = [purge EXCEPT ![p].stage = "destroying", ![p].files = Kept]
  /\ UNCHANGED <<held, rows, sources, item, placed, removedEvents, upload, removal>>

\* One after another, in any order.  An answer that is lost ends the purge.
DestroyFile(p, f) ==
  /\ purge[p].stage = "destroying" /\ f \in purge[p].files
  /\ Hold(f, "destroyed")
  /\ \/ purge' = [purge EXCEPT ![p].files = @ \ {f}]
     \/ Purges(p, "failed")
  /\ UNCHANGED <<rows, sources, item, placed, removedEvents, upload, removal>>

DropRow(p, f) ==
  /\ purge[p].stage = "destroying" /\ purge[p].files = {} /\ f \in purge[p].rows
  /\ rows' = rows \ {f}
  /\ purge' = [purge EXCEPT ![p].rows = @ \ {f}]
  /\ UNCHANGED <<held, sources, item, placed, removedEvents, upload, removal>>

RemoveClassificationSources(p) ==
  /\ purge[p].stage = "destroying" /\ purge[p].files = {} /\ purge[p].rows = {}
  /\ sources' = [d \in Decision |-> IF sources[d] = "kept" THEN "removed" ELSE sources[d]]
  /\ Purges(p, "cleared")
  /\ UNCHANGED <<held, rows, item, placed, removedEvents, upload, removal>>

\* An item that is gone answers 404, and the purge ends there.
DeleteItem(p) ==
  /\ purge[p].stage = "cleared" /\ item # "purged"
  /\ item' = "purged"
  /\ Purges(p, "gone") \/ Purges(p, "failed")
  /\ UNCHANGED <<held, rows, sources, placed, removedEvents, upload, removal>>

\* Failing this is not looked at.
DetachCardEverywhere(p) ==
  /\ purge[p].stage = "gone"
  /\ placed' = FALSE \/ UNCHANGED placed
  /\ Purges(p, "done")
  /\ UNCHANGED <<held, rows, sources, item, removedEvents, upload, removal>>

-----------------------------------------------------------------------------
(* What else happens to the card *)

\* A publication asks for a placement only, and is one transaction.
PublishDecision(d) ==
  /\ sources[d] = "none" /\ placed
  /\ sources' = [sources EXCEPT ![d] = "kept"]
  /\ UNCHANGED <<held, rows, item, placed, removedEvents, upload, removal, purge>>

\* The process stops: no request that is open goes on.
Stop ==
  /\ upload' = [f \in File |->
       IF upload[f] \in {"checked", "sent", "unrecorded", "recorded"} THEN "stopped" ELSE upload[f]]
  /\ removal' = [r \in Removal |->
       IF removal[r].stage \in {"found", "taken", "off"}
       THEN [removal[r] EXCEPT !.stage = "failed"] ELSE removal[r]]
  /\ purge' = [p \in Purge |->
       IF purge[p].stage \in {"listing", "destroying", "cleared", "gone"}
       THEN [purge[p] EXCEPT !.stage = "failed"] ELSE purge[p]]
  /\ UNCHANGED <<held, rows, sources, item, placed, removedEvents>>

Next ==
  \/ \E f \in File :
       CheckPlacement(f) \/ SendFile(f) \/ CreateCardAttachment(f) \/ TakeBack(f) \/ RecordAdded(f)
  \/ \E r \in Removal, f \in File :
       \/ FindAttachment(r, f) \/ DeleteFile(r, f) \/ DeleteCardAttachment(r, f)
       \/ RecordRemoved(r, f)
  \/ \E p \in Purge :
       \/ PurgeFails(p) \/ ListCardAttachments(p) \/ EveryFileOfCard(p)
       \/ \E f \in File : DestroyFile(p, f) \/ DropRow(p, f)
       \/ RemoveClassificationSources(p) \/ DeleteItem(p) \/ DetachCardEverywhere(p)
  \/ \E d \in Decision : PublishDecision(d)
  \/ Stop

Spec == Init /\ [][Next]_vars

-----------------------------------------------------------------------------
(* Properties *)

\* Every record is of its shape, and a file without an upload is not in file-store.
TypeOK ==
  /\ held \in [File -> {"none", "live", "deleted", "destroyed"}] /\ rows \subseteq File
  /\ sources \in [Decision -> {"none", "kept", "removed"}]
  /\ item \in {"there", "purged"} /\ placed \in BOOLEAN
  /\ removedEvents \in [File -> Nat]
  /\ upload \in [File -> UploadStage]
  /\ removal \in [Removal -> [stage : RemovalStage, files : SUBSET File]]
  /\ purge \in [Purge -> [stage : PurgeStage, files : SUBSET File, rows : SUBSET File,
                          had : Belongings]]
  /\ \A f \in File : held[f] = "none" => upload[f] \in {"new", "checked", "refused", "stopped"}

\* Bytes that no row names can be neither read nor removed.  There are none but of
\* an upload that is still open, that lost file-store's answer, that was stopped,
\* or that could not be taken back: whatever removals and purges do at the
\* same time, the file goes before its row (attachments.go:124-131, :178-187, :266-278).
LiveFilesHaveRows ==
  \A f \in File : (held[f] = "live" /\ f \notin rows)
    => upload[f] \in {"sent", "unrecorded", "lost", "stuck", "stopped"}

\* What the card had when a purge began, the files taken off it earlier and the
\* texts of its decisions included, is gone before its item is, though the
\* answer of the deletion may be lost (api.go:986-1003, README.md:329-334, :831-832).
PurgeTakesWhatWasThere ==
  [][item' = "purged" /\ item # "purged" =>
       \E p \in Purge :
         /\ purge[p].stage = "cleared"
         /\ \A f \in purge[p].had.files : held[f] = "destroyed"
         /\ purge[p].had.rows \cap rows = {}
         /\ purge[p].had.texts \cap Texts = {}]_vars

\* A file that was taken off the card is off it and not live, and the timeline says
\* so once, however many asked and however often (attachments.go:167-198).
RemovedOnce ==
  \A f \in File : /\ removedEvents[f] <= 1
                  /\ removedEvents[f] = 1 => f \notin rows /\ held[f] # "live"
=============================================================================
