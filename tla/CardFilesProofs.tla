-------------------------- MODULE CardFilesProofs --------------------------
(***************************************************************************)
(* Proofs about CardFiles for any number of files, removals, purges and    *)
(* publications, through failures, lost answers and stops.                 *)
(*                                                                         *)
(* A file that once had a row can only go down: it never becomes live      *)
(* again, never gets its row back, and once destroyed stays so.  Every     *)
(* step keeps that (StepKeeps), so what a removal or a purge has           *)
(* established is still true when it goes on.                              *)
(***************************************************************************)
EXTENDS CardFiles, TLAPS

\* A file whose row was written.
Settled(f) ==
  upload[f] \in {"recorded", "attached", "unlogged", "stopped"} /\ held[f] # "none"

UploadInv ==
  /\ \A f \in File : /\ upload[f] \in {"new", "checked"} => held[f] = "none"
                     /\ f \in rows => Settled(f)
  /\ \A p \in Purge : \A f \in purge[p].files : held[f] # "none"

\* A removal is of one file.
Singles == \A r \in Removal : \A f, g \in removal[r].files : f = g

Away(r) ==
  \A f \in removal[r].files :
    /\ removal[r].stage = "found" => Settled(f)
    /\ removal[r].stage = "taken" => Settled(f) /\ held[f] # "live"
    /\ removal[r].stage = "off" => /\ Settled(f) /\ held[f] # "live" /\ f \notin rows
                                   /\ removedEvents[f] = 0

RemovalInv == Singles /\ \A r \in Removal : Away(r)

\* Only one removal takes the row of a file off.
OneTakesOff ==
  \A r, s \in Removal :
    (removal[r].stage = "off" /\ removal[s].stage = "off"
       /\ removal[r].files \cap removal[s].files # {}) => r = s

EventInv ==
  \A f \in File :
    \/ removedEvents[f] = 0
    \/ removedEvents[f] = 1 /\ Settled(f) /\ held[f] # "live" /\ f \notin rows

\* What a purge has still to do is all there is between it and what the card had.
Listed(p) ==
  purge[p].stage = "listing" =>
    /\ \A f \in purge[p].had.files : held[f] # "none"
    /\ \A f \in purge[p].had.rows : Settled(f)
    /\ purge[p].had.rows \subseteq purge[p].rows /\ purge[p].rows \subseteq purge[p].had.rows
    /\ \A d \in purge[p].had.texts : sources[d] # "none"

Destroying(p) ==
  purge[p].stage = "destroying" =>
    /\ \A f \in purge[p].had.files \ purge[p].files : held[f] = "destroyed"
    /\ \A f \in purge[p].had.rows : Settled(f)
    /\ \A f \in purge[p].had.rows \ purge[p].files : held[f] = "destroyed"
    /\ \A f \in purge[p].had.rows \ purge[p].rows : f \notin rows
    /\ purge[p].rows \subseteq purge[p].had.rows
    /\ \A d \in purge[p].had.texts : sources[d] # "none"

Cleared(p) ==
  purge[p].stage = "cleared" =>
    /\ \A f \in purge[p].had.files : held[f] = "destroyed"
    /\ \A f \in purge[p].had.rows : Settled(f) /\ f \notin rows
    /\ \A d \in purge[p].had.texts : sources[d] = "removed"

PurgeInv == \A p \in Purge : Listed(p) /\ Destroying(p) /\ Cleared(p)

FilesInv ==
  /\ TypeOK /\ UploadInv /\ RemovalInv /\ OneTakesOff /\ EventInv /\ PurgeInv
  /\ LiveFilesHaveRows

\* What no step undoes.
Keeps ==
  /\ \A f \in File :
       /\ held[f] # "none" => held'[f] # "none"
       /\ held[f] = "destroyed" => held'[f] = "destroyed"
       /\ Settled(f) => /\ Settled(f)'
                        /\ held[f] # "live" => held'[f] # "live"
                        /\ f \notin rows => f \notin rows'
  /\ \A d \in Decision : /\ sources[d] # "none" => sources'[d] # "none"
                         /\ sources[d] = "removed" => sources'[d] = "removed"

-----------------------------------------------------------------------------
(* The shape of a step *)

LEMMA TypeInit == Init => TypeOK
  BY DEF Init, TypeOK, UploadStage, RemovalStage, PurgeStage, Belongings

LEMMA TypeStep == TypeOK /\ UploadInv /\ [Next]_vars => TypeOK'
<1> SUFFICES ASSUME TypeOK, UploadInv, [Next]_vars PROVE TypeOK'
  OBVIOUS
<1> USE DEF TypeOK, UploadStage, RemovalStage, PurgeStage
<1>1. ASSUME NEW f \in File,
             CheckPlacement(f) \/ SendFile(f) \/ CreateCardAttachment(f) \/ TakeBack(f)
               \/ RecordAdded(f)
      PROVE  TypeOK'
  BY <1>1 DEF CheckPlacement, SendFile, CreateCardAttachment, TakeBack, RecordAdded,
              Hold, Uploads
<1>2. ASSUME NEW r \in Removal, NEW f \in File,
             FindAttachment(r, f) \/ DeleteFile(r, f) \/ DeleteCardAttachment(r, f)
               \/ RecordRemoved(r, f)
      PROVE  TypeOK'
  <2>1. /\ held' \in [File -> {"none", "live", "deleted", "destroyed"}] /\ rows' \subseteq File
        /\ \A g \in File : held'[g] = "none" => held[g] = "none"
    BY <1>2 DEF FindAttachment, DeleteFile, DeleteCardAttachment, RecordRemoved, Hold
  <2>2. removedEvents' \in [File -> Nat]
    BY <1>2 DEF FindAttachment, DeleteFile, DeleteCardAttachment, RecordRemoved
  <2>3. removal' \in [Removal -> [stage : RemovalStage, files : SUBSET File]]
    BY <1>2 DEF FindAttachment, DeleteFile, DeleteCardAttachment, RecordRemoved, Removes
  <2>4. UNCHANGED <<sources, item, placed, upload, purge>>
    BY <1>2 DEF FindAttachment, DeleteFile, DeleteCardAttachment, RecordRemoved
  <2>5. QED
    BY <2>1, <2>2, <2>3, <2>4
<1>3. ASSUME NEW p \in Purge, PurgeFails(p) \/ EveryFileOfCard(p) \/ RemoveClassificationSources(p)
                                \/ DeleteItem(p) \/ DetachCardEverywhere(p)
      PROVE  TypeOK'
  <2>1. purge' \in [Purge -> [stage : PurgeStage, files : SUBSET File, rows : SUBSET File,
                              had : Belongings]]
    <3>1. Kept \in SUBSET File
      BY DEF Kept
    <3>2. CASE EveryFileOfCard(p)
      <4> DEFINE Undertaking == [stage : PurgeStage, files : SUBSET File, rows : SUBSET File,
                                 had : Belongings]
                 to == [purge[p] EXCEPT !.stage = "destroying", !.files = Kept]
      <4>1. purge[p] \in Undertaking
        OBVIOUS
      <4>2. to \in Undertaking
        BY <3>1, <4>1
      <4>3. purge' = [purge EXCEPT ![p] = to]
        BY <3>2 DEF EveryFileOfCard
      <4> HIDE DEF to
      <4>4. QED
        BY <4>2, <4>3
    <3>3. ASSUME NEW stage \in PurgeStage, Purges(p, stage)
          PROVE  <2>1
      BY <3>3 DEF Purges
    <3>4. QED
      BY <1>3, <3>2, <3>3 DEF PurgeFails, RemoveClassificationSources, DeleteItem,
                              DetachCardEverywhere
  <2>2. sources' \in [Decision -> {"none", "kept", "removed"}]
    BY <1>3 DEF PurgeFails, EveryFileOfCard, RemoveClassificationSources, DeleteItem,
                DetachCardEverywhere
  <2>3. item' \in {"there", "purged"} /\ placed' \in BOOLEAN
    BY <1>3 DEF PurgeFails, EveryFileOfCard, RemoveClassificationSources, DeleteItem,
                DetachCardEverywhere
  <2>4. UNCHANGED <<held, rows, removedEvents, upload, removal>>
    BY <1>3 DEF PurgeFails, EveryFileOfCard, RemoveClassificationSources, DeleteItem,
                DetachCardEverywhere
  <2>5. QED
    BY <2>1, <2>2, <2>3, <2>4
<1>4. ASSUME NEW p \in Purge, ListCardAttachments(p)
      PROVE  TypeOK'
  <2> DEFINE had == [files |-> Kept, rows |-> rows, texts |-> Texts]
             to == [stage |-> "listing", files |-> {}, rows |-> rows, had |-> had]
  <2>1. had \in Belongings
    BY DEF Belongings, Kept, Texts
  <2>2. to \in [stage : PurgeStage, files : SUBSET File, rows : SUBSET File, had : Belongings]
    BY <2>1
  <2>3. purge' = [purge EXCEPT ![p] = to]
        /\ UNCHANGED <<held, rows, sources, item, placed, removedEvents, upload, removal>>
    BY <1>4 DEF ListCardAttachments
  <2> HIDE DEF to
  <2>4. QED
    BY <2>2, <2>3
<1>5. ASSUME NEW p \in Purge, NEW f \in File, DestroyFile(p, f) \/ DropRow(p, f)
      PROVE  TypeOK'
  BY <1>5 DEF DestroyFile, DropRow, Hold, Purges
<1>6. ASSUME NEW d \in Decision, PublishDecision(d)
      PROVE  TypeOK'
  BY <1>6 DEF PublishDecision
<1>7. CASE Stop
  <2>1. upload' \in [File -> UploadStage]
    BY <1>7 DEF Stop
  <2>2. removal' \in [Removal -> [stage : RemovalStage, files : SUBSET File]]
    BY <1>7 DEF Stop
  <2>3. purge' \in [Purge -> [stage : PurgeStage, files : SUBSET File, rows : SUBSET File,
                              had : Belongings]]
    BY <1>7 DEF Stop
  <2>4. UNCHANGED <<held, rows, sources, item, placed, removedEvents>>
    BY <1>7 DEF Stop
  <2>5. \A f \in File : upload'[f] \in {upload[f], "stopped"}
    BY <1>7 DEF Stop
  <2>6. QED
    BY <2>1, <2>2, <2>3, <2>4, <2>5
<1>8. CASE UNCHANGED vars
  BY <1>8 DEF vars
<1>9. QED
  BY <1>1, <1>2, <1>3, <1>4, <1>5, <1>6, <1>7, <1>8 DEF Next

LEMMA StepKeeps == TypeOK /\ UploadInv /\ [Next]_vars => Keeps
<1> SUFFICES ASSUME TypeOK, UploadInv, [Next]_vars PROVE Keeps
  OBVIOUS
<1> USE DEF TypeOK, UploadStage, Keeps, Settled
<1>1. ASSUME NEW f \in File,
             CheckPlacement(f) \/ SendFile(f) \/ CreateCardAttachment(f) \/ TakeBack(f)
               \/ RecordAdded(f)
      PROVE  Keeps
  BY <1>1 DEF UploadInv, CheckPlacement, SendFile, CreateCardAttachment, TakeBack, RecordAdded,
              Hold, Uploads
<1>2. ASSUME NEW r \in Removal, NEW f \in File,
             FindAttachment(r, f) \/ DeleteFile(r, f) \/ DeleteCardAttachment(r, f)
               \/ RecordRemoved(r, f)
      PROVE  Keeps
  BY <1>2 DEF FindAttachment, DeleteFile, DeleteCardAttachment, RecordRemoved, Hold
<1>3. ASSUME NEW p \in Purge, PurgeFails(p) \/ EveryFileOfCard(p) \/ RemoveClassificationSources(p)
                                \/ DeleteItem(p) \/ DetachCardEverywhere(p)
                                \/ ListCardAttachments(p)
      PROVE  Keeps
  BY <1>3 DEF PurgeFails, EveryFileOfCard, RemoveClassificationSources, DeleteItem,
              DetachCardEverywhere, ListCardAttachments
<1>4. ASSUME NEW p \in Purge, NEW f \in File, DestroyFile(p, f) \/ DropRow(p, f)
      PROVE  Keeps
  BY <1>4 DEF DestroyFile, DropRow, Hold
<1>5. ASSUME NEW d \in Decision, PublishDecision(d)
      PROVE  Keeps
  BY <1>5 DEF PublishDecision
<1>6. CASE Stop
  BY <1>6 DEF Stop
<1>7. CASE UNCHANGED vars
  BY <1>7 DEF vars
<1>8. QED
  BY <1>1, <1>2, <1>3, <1>4, <1>5, <1>6, <1>7 DEF Next

-----------------------------------------------------------------------------
(* What every step keeps *)

\* A file goes to file-store once, before its row, and a purge lists what is there.
LEMMA UploadStep == TypeOK /\ UploadInv /\ [Next]_vars => UploadInv'
<1> SUFFICES ASSUME TypeOK, UploadInv, [Next]_vars PROVE UploadInv'
  OBVIOUS
<1>0. Keeps
  BY StepKeeps
<1>1. ASSUME NEW f \in File,
             CheckPlacement(f) \/ SendFile(f) \/ TakeBack(f) \/ RecordAdded(f)
      PROVE  UploadInv'
  BY <1>0, <1>1 DEF Keeps, UploadInv, Settled, CheckPlacement, SendFile, TakeBack, RecordAdded,
                    Hold, Uploads, TypeOK, UploadStage
<1>2. ASSUME NEW f \in File, CreateCardAttachment(f)
      PROVE  UploadInv'
  <2>1. held[f] # "none"
    BY <1>2 DEF TypeOK, CreateCardAttachment
  <2>2. QED
    BY <1>2, <2>1 DEF UploadInv, Settled, CreateCardAttachment, Uploads, TypeOK, UploadStage
<1>3. ASSUME NEW r \in Removal, NEW f \in File,
             FindAttachment(r, f) \/ DeleteFile(r, f) \/ DeleteCardAttachment(r, f)
               \/ RecordRemoved(r, f)
      PROVE  UploadInv'
  <2>1. /\ UNCHANGED <<upload, purge>> /\ rows' \subseteq rows
        /\ \A g \in File : held[g] = "none" => held'[g] = "none"
    BY <1>3 DEF TypeOK, FindAttachment, DeleteFile, DeleteCardAttachment, RecordRemoved, Hold
  <2>2. QED
    BY <1>0, <2>1 DEF Keeps, UploadInv, TypeOK
<1>4. ASSUME NEW p \in Purge, EveryFileOfCard(p)
      PROVE  UploadInv'
  <2>1. \A q \in Purge : purge'[q].files = IF q = p THEN Kept ELSE purge[q].files
    BY <1>4 DEF EveryFileOfCard, TypeOK
  <2>2. UNCHANGED <<held, rows, upload>>
    BY <1>4 DEF EveryFileOfCard
  <2>3. QED
    BY <2>1, <2>2 DEF UploadInv, Settled, Kept
<1>5. ASSUME NEW p \in Purge, NEW f \in File, DestroyFile(p, f) \/ DropRow(p, f)
      PROVE  UploadInv'
  <2>1. /\ UNCHANGED upload /\ rows' \subseteq rows
        /\ \A g \in File : held[g] = "none" => held'[g] = "none"
        /\ \A q \in Purge : purge'[q].files \subseteq purge[q].files
    BY <1>5 DEF TypeOK, UploadInv, DestroyFile, DropRow, Hold, Purges
  <2>2. QED
    BY <1>0, <2>1 DEF Keeps, UploadInv, TypeOK
<1>6. ASSUME NEW p \in Purge, PurgeFails(p) \/ RemoveClassificationSources(p)
                                \/ DeleteItem(p) \/ DetachCardEverywhere(p)
                                \/ ListCardAttachments(p)
      PROVE  UploadInv'
  <2>1. UNCHANGED <<upload, rows, held>> /\ \A q \in Purge : purge'[q].files \subseteq purge[q].files
    BY <1>6 DEF TypeOK, PurgeFails, RemoveClassificationSources, DeleteItem,
                DetachCardEverywhere, ListCardAttachments, Purges
  <2>2. QED
    BY <2>1 DEF UploadInv, Settled
<1>7. CASE Stop
  <2>1. /\ UNCHANGED <<rows, held>> /\ \A q \in Purge : purge'[q].files = purge[q].files
        /\ \A f \in File : upload'[f] \in {"new", "checked"} => upload'[f] = upload[f]
    BY <1>7 DEF TypeOK, Stop
  <2>2. QED
    BY <1>0, <2>1 DEF UploadInv, Keeps
<1>8. CASE UNCHANGED vars \/ \E d \in Decision : PublishDecision(d)
  BY <1>8 DEF vars, UploadInv, Settled, PublishDecision
<1>9. QED
  BY <1>1, <1>2, <1>3, <1>4, <1>5, <1>6, <1>7, <1>8 DEF Next

\* What a removal has done is not undone while it waits.
LEMMA AwayKept ==
  ASSUME TypeOK, Keeps, NEW r \in Removal, Away(r), removal'[r] = removal[r],
         removal[r].stage = "off" =>
           \A f \in removal[r].files : removedEvents'[f] = removedEvents[f]
  PROVE  Away(r)'
<1>1. removal[r].files \subseteq File
  BY DEF TypeOK
<1>2. QED
  BY <1>1 DEF Away, Keeps

\* A removal that has taken a file away finds it still away, and one removal only
\* takes the row.
LEMMA RemovalStep ==
  FilesInv /\ TypeOK' /\ UploadInv' /\ [Next]_vars => RemovalInv' /\ OneTakesOff' /\ EventInv'
<1> SUFFICES ASSUME FilesInv, TypeOK', UploadInv', [Next]_vars
             PROVE  RemovalInv' /\ OneTakesOff' /\ EventInv'
  OBVIOUS
<1>0. Keeps
  BY StepKeeps DEF FilesInv
<1>1. TypeOK /\ RemovalInv /\ OneTakesOff /\ EventInv /\ UploadInv
  BY DEF FilesInv
<1>2. ASSUME UNCHANGED removedEvents,
             \A r \in Removal :
               \/ removal'[r] = removal[r]
               \/ removal'[r].stage = "failed" /\ removal'[r].files = removal[r].files
      PROVE  RemovalInv' /\ OneTakesOff' /\ EventInv'
  <2>1. ASSUME NEW r \in Removal PROVE Away(r)'
    <3>1. CASE removal'[r] = removal[r]
      BY <1>0, <1>1, <1>2, <3>1, AwayKept DEF RemovalInv, Away
    <3>2. CASE removal'[r].stage = "failed"
      BY <3>2 DEF Away
    <3>3. QED
      BY <1>2, <3>1, <3>2
  <2>2. RemovalInv'
    BY <1>1, <1>2, <2>1 DEF RemovalInv, Singles
  <2>3. OneTakesOff'
    BY <1>1, <1>2 DEF OneTakesOff
  <2>4. EventInv'
    BY <1>0, <1>1, <1>2 DEF EventInv, Keeps
  <2>5. QED
    BY <2>2, <2>3, <2>4
<1>3. ASSUME NEW r \in Removal, NEW f \in File, FindAttachment(r, f)
      PROVE  RemovalInv' /\ OneTakesOff' /\ EventInv'
  <2>1. /\ removal'[r] = [stage |-> "found", files |-> {f}] /\ Settled(f)'
        /\ \A s \in Removal \ {r} : removal'[s] = removal[s]
        /\ UNCHANGED <<held, rows, removedEvents, upload>>
    BY <1>0, <1>1, <1>3 DEF FindAttachment, TypeOK, UploadInv, Keeps
  <2>2. RemovalInv'
    <3>1. ASSUME NEW s \in Removal \ {r}
          PROVE  Away(s)'
      BY <1>0, <1>1, <2>1, AwayKept DEF RemovalInv, Away
    <3>2. Away(r)'
      BY <1>1, <2>1 DEF Away
    <3>3. QED
      BY <1>1, <2>1, <3>1, <3>2 DEF RemovalInv, Singles
  <2>3. QED
    BY <1>1, <2>1, <2>2 DEF OneTakesOff, EventInv, Settled
<1>4. ASSUME NEW r \in Removal, NEW f \in File, DeleteFile(r, f)
      PROVE  RemovalInv' /\ OneTakesOff' /\ EventInv'
  <2>1. CASE Removes(r, "failed")
    BY <1>1, <1>2, <1>4, <2>1 DEF DeleteFile, Removes, TypeOK
  <2>2. CASE Hold(f, IF held[f] = "live" THEN "deleted" ELSE held[f]) /\ Removes(r, "taken")
    <3>1. /\ removal'[r].stage = "taken" /\ removal'[r].files = removal[r].files
          /\ \A s \in Removal \ {r} : removal'[s] = removal[s]
          /\ UNCHANGED <<rows, removedEvents, upload>>
          /\ held'[f] # "live"
      BY <1>1, <1>4, <2>2 DEF DeleteFile, Removes, Hold, TypeOK
    <3>2. removal[r].files = {f} /\ Settled(f)
      BY <1>1, <1>4 DEF RemovalInv, Away, DeleteFile, TypeOK, Singles
    <3>3. RemovalInv'
      <4>1. ASSUME NEW s \in Removal \ {r}
            PROVE  Away(s)'
        BY <1>0, <1>1, <3>1, <3>2, AwayKept DEF RemovalInv, Away
      <4>2. Away(r)'
        BY <1>0, <1>1, <3>1, <3>2 DEF Away, Keeps
      <4>3. QED
        BY <1>1, <3>1, <4>1, <4>2 DEF RemovalInv, Singles
    <3>4. QED
      BY <1>0, <1>1, <3>1, <3>3 DEF OneTakesOff, EventInv, Keeps
  <2>3. QED
    BY <1>4, <2>1, <2>2 DEF DeleteFile
<1>5. ASSUME NEW r \in Removal, NEW f \in File, DeleteCardAttachment(r, f)
      PROVE  RemovalInv' /\ OneTakesOff' /\ EventInv'
  <2>1. CASE Removes(r, "failed") /\ UNCHANGED rows
    BY <1>1, <1>2, <1>5, <2>1 DEF DeleteCardAttachment, Removes, TypeOK
  <2>2. CASE f \in rows /\ rows' = rows \ {f} /\ Removes(r, "off")
    <3>1. /\ removal'[r].stage = "off" /\ removal'[r].files = removal[r].files
          /\ \A s \in Removal \ {r} : removal'[s] = removal[s]
          /\ UNCHANGED <<held, removedEvents, upload>>
      BY <1>1, <1>5, <2>2 DEF DeleteCardAttachment, Removes, TypeOK
    <3>2. removal[r].files = {f} /\ Settled(f) /\ held[f] # "live"
      BY <1>1, <1>5 DEF RemovalInv, Away, DeleteCardAttachment, TypeOK, Singles
    <3>3. removedEvents[f] = 0
      BY <1>1, <2>2 DEF EventInv
    <3>4. RemovalInv'
      <4>1. ASSUME NEW s \in Removal \ {r}
            PROVE  Away(s)'
        BY <1>0, <1>1, <2>2, <3>1, <3>2, <3>3, AwayKept DEF RemovalInv, Away
      <4>2. Away(r)'
        BY <1>0, <1>1, <2>2, <3>1, <3>2, <3>3 DEF Away, Keeps
      <4>3. QED
        BY <1>1, <3>1, <4>1, <4>2 DEF RemovalInv, Singles
    <3>5. \A s \in Removal \ {r} : removal[s].stage = "off" => f \notin removal[s].files
      BY <1>1, <2>2 DEF RemovalInv, Away
    <3>6. OneTakesOff'
      BY <1>1, <3>1, <3>2, <3>5 DEF OneTakesOff
    <3>7. QED
      BY <1>0, <1>1, <3>1, <3>4, <3>6 DEF EventInv, Keeps
  <2>3. QED
    BY <1>5, <2>1, <2>2 DEF DeleteCardAttachment
<1>6. ASSUME NEW r \in Removal, NEW f \in File, RecordRemoved(r, f)
      PROVE  RemovalInv' /\ OneTakesOff' /\ EventInv'
  <2>1. CASE Removes(r, "failed") /\ UNCHANGED removedEvents
    BY <1>1, <1>2, <1>6, <2>1 DEF RecordRemoved, Removes, TypeOK
  <2>2. CASE removedEvents' = [removedEvents EXCEPT ![f] = @ + 1] /\ Removes(r, "done")
    <3>1. /\ removal'[r].stage = "done" /\ removal'[r].files = removal[r].files
          /\ \A s \in Removal \ {r} : removal'[s] = removal[s]
          /\ UNCHANGED <<held, rows, upload>>
      BY <1>1, <1>6, <2>2 DEF RecordRemoved, Removes, TypeOK
    <3>2. /\ removal[r].files = {f} /\ Settled(f) /\ held[f] # "live" /\ f \notin rows
          /\ removedEvents[f] = 0
      BY <1>1, <1>6 DEF RemovalInv, Away, RecordRemoved, TypeOK, Singles
    <3>3. removedEvents'[f] = 1 /\ \A g \in File \ {f} : removedEvents'[g] = removedEvents[g]
      BY <1>1, <2>2, <3>2 DEF TypeOK
    <3>4. \A s \in Removal \ {r} : removal[s].stage = "off" => f \notin removal[s].files
      BY <1>1, <1>6 DEF OneTakesOff, RecordRemoved
    <3>5. RemovalInv'
      <4>1. ASSUME NEW s \in Removal \ {r}
            PROVE  Away(s)'
        <5>1. removal[s].files \subseteq File /\ Away(s) /\ removal'[s] = removal[s]
          BY <1>1, <3>1 DEF RemovalInv, TypeOK
        <5>2. removal[s].stage = "off" =>
                \A g \in removal[s].files : removedEvents'[g] = removedEvents[g]
          BY <3>3, <3>4, <5>1
        <5>3. QED
          BY <1>0, <1>1, <5>1, <5>2, AwayKept
      <4>2. Away(r)'
        BY <1>1, <3>1, <3>3, <3>4 DEF Away
      <4>3. QED
        BY <1>1, <3>1, <4>1, <4>2 DEF RemovalInv, Singles
    <3>6. QED
      BY <1>0, <1>1, <3>1, <3>2, <3>3, <3>5 DEF OneTakesOff, EventInv, Keeps
  <2>3. QED
    BY <1>6, <2>1, <2>2 DEF RecordRemoved
<1>7. CASE Stop
  BY <1>1, <1>2, <1>7 DEF Stop, TypeOK
<1>8. CASE UNCHANGED <<removal, removedEvents>>
  BY <1>2, <1>8
<1>9. QED
  BY <1>3, <1>4, <1>5, <1>6, <1>7, <1>8
     DEF Next, vars, CheckPlacement, SendFile, CreateCardAttachment, TakeBack, RecordAdded,
         PurgeFails, ListCardAttachments, EveryFileOfCard, DestroyFile, DropRow,
         RemoveClassificationSources, DeleteItem, DetachCardEverywhere, PublishDecision

\* What a purge has found and done is not undone while it goes on.
LEMMA PurgeKept ==
  ASSUME TypeOK, Keeps, NEW p \in Purge, Listed(p) /\ Destroying(p) /\ Cleared(p),
         \/ purge'[p] = purge[p]
         \/ purge'[p].stage \notin {"listing", "destroying", "cleared"}
  PROVE  (Listed(p) /\ Destroying(p) /\ Cleared(p))'
<1>1. /\ purge[p].had.files \subseteq File /\ purge[p].had.rows \subseteq File
      /\ purge[p].had.texts \subseteq Decision
  BY DEF TypeOK, Belongings
<1>2. CASE purge'[p] = purge[p]
  <2>1. Listed(p)'
    BY <1>1, <1>2 DEF Listed, Keeps
  <2>2. Destroying(p)'
    BY <1>1, <1>2 DEF Destroying, Keeps
  <2>3. Cleared(p)'
    BY <1>1, <1>2 DEF Cleared, Keeps
  <2>4. QED
    BY <2>1, <2>2, <2>3
<1>3. CASE purge'[p].stage \notin {"listing", "destroying", "cleared"}
  BY <1>3 DEF Listed, Destroying, Cleared
<1>4. QED
  BY <1>2, <1>3

\* Each call of a purge brings it nearer to what the card had when it began.
LEMMA PurgeStep ==
  FilesInv /\ [Next]_vars => PurgeInv'
<1> SUFFICES ASSUME FilesInv, [Next]_vars, NEW q \in Purge
             PROVE  (Listed(q) /\ Destroying(q) /\ Cleared(q))'
  BY DEF PurgeInv
<1>0. /\ Keeps /\ TypeOK /\ UploadInv
      /\ \A p \in Purge : Listed(p) /\ Destroying(p) /\ Cleared(p)
  BY StepKeeps DEF FilesInv, PurgeInv
<1>1. CASE \/ purge'[q] = purge[q]
           \/ purge'[q].stage \notin {"listing", "destroying", "cleared"}
  BY <1>0, <1>1, PurgeKept
<1>2. CASE ListCardAttachments(q)
  <2>1. /\ purge'[q] = [stage |-> "listing", files |-> {}, rows |-> rows,
                        had |-> [files |-> Kept, rows |-> rows, texts |-> Texts]]
        /\ UNCHANGED <<held, rows, sources, upload>>
    BY <1>0, <1>2 DEF ListCardAttachments, TypeOK
  <2>2. (\A f \in rows : Settled(f)) /\ (\A f \in Kept : held[f] # "none")
        /\ \A d \in Texts : sources[d] # "none"
    BY <1>0 DEF UploadInv, TypeOK, Kept, Texts
  <2>3. QED
    BY <2>1, <2>2 DEF Listed, Destroying, Cleared, Settled
<1>3. CASE EveryFileOfCard(q)
  <2>1. /\ purge'[q].stage = "destroying" /\ purge'[q].files = Kept
        /\ purge'[q].rows = purge[q].rows /\ purge'[q].had = purge[q].had
        /\ UNCHANGED <<held, rows, sources, upload>> /\ purge[q].stage = "listing"
    BY <1>0, <1>3 DEF EveryFileOfCard, TypeOK
  <2>2. purge[q].had.files \subseteq File /\ purge[q].had.rows \subseteq File
    BY <1>0 DEF TypeOK, Belongings
  <2>3. \A f \in (purge[q].had.files \cup purge[q].had.rows) \ Kept : held[f] = "destroyed"
    BY <1>0, <2>1, <2>2 DEF Listed, Settled, Kept, TypeOK
  <2>4. QED
    BY <1>0, <2>1, <2>3 DEF Listed, Destroying, Cleared, Settled
<1>4. ASSUME NEW f \in File, DestroyFile(q, f)
      PROVE  (Listed(q) /\ Destroying(q) /\ Cleared(q))'
  <2>1. CASE Purges(q, "failed")
    BY <1>0, <1>1, <2>1 DEF Purges, TypeOK
  <2>2. CASE purge' = [purge EXCEPT ![q].files = @ \ {f}]
    <3>1. /\ purge'[q].stage = "destroying" /\ purge'[q].files = purge[q].files \ {f}
          /\ purge'[q].rows = purge[q].rows /\ purge'[q].had = purge[q].had
          /\ UNCHANGED <<rows, sources, upload>> /\ purge[q].stage = "destroying"
          /\ held'[f] = "destroyed"
      BY <1>0, <1>4, <2>2 DEF DestroyFile, Hold, TypeOK
    <3>2. purge[q].had.files \subseteq File /\ purge[q].had.rows \subseteq File
      BY <1>0 DEF TypeOK, Belongings
    <3>3. /\ \A g \in (purge[q].had.files \cup purge[q].had.rows) \ (purge[q].files \ {f}) :
               held'[g] = "destroyed"
          /\ \A g \in purge[q].had.rows : Settled(g)'
      BY <1>0, <3>1, <3>2 DEF Destroying, Keeps
    <3>4. QED
      BY <1>0, <3>1, <3>3 DEF Listed, Destroying, Cleared
  <2>3. QED
    BY <1>4, <2>1, <2>2 DEF DestroyFile
<1>5. ASSUME NEW f \in File, DropRow(q, f)
      PROVE  (Listed(q) /\ Destroying(q) /\ Cleared(q))'
  <2>1. /\ purge'[q].stage = "destroying" /\ purge'[q].files = purge[q].files
        /\ purge'[q].rows = purge[q].rows \ {f} /\ purge'[q].had = purge[q].had
        /\ UNCHANGED <<held, sources, upload>> /\ purge[q].stage = "destroying"
        /\ rows' = rows \ {f}
    BY <1>0, <1>5 DEF DropRow, TypeOK
  <2>2. QED
    BY <1>0, <2>1 DEF Listed, Destroying, Cleared, Settled
<1>6. CASE RemoveClassificationSources(q)
  <2>1. /\ purge'[q].stage = "cleared" /\ purge'[q].had = purge[q].had
        /\ purge[q].stage = "destroying" /\ purge[q].files = {} /\ purge[q].rows = {}
        /\ UNCHANGED <<held, rows, upload>>
    BY <1>0, <1>6 DEF RemoveClassificationSources, Purges, TypeOK
  <2>2. \A d \in Decision : sources[d] # "none" => sources'[d] = "removed"
    BY <1>0, <1>6 DEF RemoveClassificationSources, TypeOK
  <2>3. purge[q].had.texts \subseteq Decision
    BY <1>0 DEF TypeOK, Belongings
  <2>4. QED
    BY <1>0, <2>1, <2>2, <2>3 DEF Listed, Destroying, Cleared, Settled
<1>7. CASE UNCHANGED purge
  BY <1>1, <1>7
<1>8. CASE Stop
  BY <1>0, <1>1, <1>8 DEF Stop, TypeOK
<1>9. ASSUME NEW p \in Purge, PurgeFails(p) \/ DeleteItem(p) \/ DetachCardEverywhere(p)
      PROVE  (Listed(q) /\ Destroying(q) /\ Cleared(q))'
  <2>1. p # q => purge'[q] = purge[q]
    BY <1>0, <1>9 DEF PurgeFails, DeleteItem, DetachCardEverywhere, Purges, TypeOK
  <2>2. purge'[p].stage \in {"failed", "gone", "done"}
    BY <1>0, <1>9 DEF PurgeFails, DeleteItem, DetachCardEverywhere, Purges, TypeOK
  <2>3. QED
    BY <1>1, <2>1, <2>2
<1>10. ASSUME NEW p \in Purge \ {q}, NEW f \in File,
              \/ ListCardAttachments(p) \/ EveryFileOfCard(p) \/ RemoveClassificationSources(p)
              \/ DestroyFile(p, f) \/ DropRow(p, f)
       PROVE  purge'[q] = purge[q]
  BY <1>0, <1>10 DEF ListCardAttachments, EveryFileOfCard, RemoveClassificationSources,
                     DestroyFile, DropRow, Purges, TypeOK
<1>11. ASSUME NEW p \in Purge \ {q},
              ListCardAttachments(p) \/ EveryFileOfCard(p) \/ RemoveClassificationSources(p)
       PROVE  purge'[q] = purge[q]
  BY <1>0, <1>11 DEF ListCardAttachments, EveryFileOfCard, RemoveClassificationSources,
                     Purges, TypeOK
<1>12. ASSUME \/ \E f \in File : CheckPlacement(f) \/ SendFile(f) \/ CreateCardAttachment(f)
                                  \/ TakeBack(f) \/ RecordAdded(f)
              \/ \E r \in Removal, f \in File :
                   \/ FindAttachment(r, f) \/ DeleteFile(r, f) \/ DeleteCardAttachment(r, f)
                   \/ RecordRemoved(r, f)
              \/ \E d \in Decision : PublishDecision(d)
              \/ UNCHANGED vars
       PROVE  UNCHANGED purge
  BY <1>12 DEF CheckPlacement, SendFile, CreateCardAttachment, TakeBack, RecordAdded,
               FindAttachment, DeleteFile, DeleteCardAttachment, RecordRemoved, PublishDecision,
               vars
<1>13. QED
  BY <1>1, <1>2, <1>3, <1>4, <1>5, <1>6, <1>7, <1>8, <1>9, <1>10, <1>11, <1>12 DEF Next

\* A live file loses its row to nobody: removals and purges take the file first.
LEMMA LiveStep ==
  FilesInv /\ TypeOK' /\ UploadInv' /\ [Next]_vars => LiveFilesHaveRows'
<1> SUFFICES ASSUME FilesInv, TypeOK', UploadInv', [Next]_vars, NEW f \in File,
                    held'[f] = "live", f \notin rows'
             PROVE  upload'[f] \in {"sent", "unrecorded", "lost", "stuck", "stopped"}
  BY DEF LiveFilesHaveRows
<1>0. TypeOK /\ UploadInv /\ RemovalInv /\ PurgeInv /\ LiveFilesHaveRows
  BY DEF FilesInv
<1>1. CASE held[f] = "live" /\ f \in rows
  <2>1. ASSUME NEW r \in Removal, NEW g \in File, DeleteCardAttachment(r, g)
        PROVE  FALSE
    BY <1>0, <1>1, <2>1 DEF DeleteCardAttachment, RemovalInv, Away
  <2>2. ASSUME NEW p \in Purge, NEW g \in File, DropRow(p, g)
        PROVE  FALSE
    BY <1>0, <1>1, <2>2 DEF DropRow, PurgeInv, Destroying
  <2>3. f \in rows'
    BY <1>1, <2>1, <2>2
       DEF Next, vars, CheckPlacement, SendFile, CreateCardAttachment, TakeBack, RecordAdded,
           FindAttachment, DeleteFile, RecordRemoved, PurgeFails, ListCardAttachments,
           EveryFileOfCard, DestroyFile, RemoveClassificationSources, DeleteItem,
           DetachCardEverywhere, PublishDecision, Stop
  <2>4. QED
    BY <2>3
<1>2. CASE held[f] = "live" /\ f \notin rows
  <2>1. upload[f] \in {"sent", "unrecorded", "lost", "stuck", "stopped"}
    BY <1>0, <1>2 DEF LiveFilesHaveRows
  <2>2. ASSUME NEW g \in File,
               CheckPlacement(g) \/ SendFile(g) \/ CreateCardAttachment(g) \/ TakeBack(g)
                 \/ RecordAdded(g)
        PROVE  upload'[f] \in {"sent", "unrecorded", "lost", "stuck", "stopped"}
    BY <1>0, <2>1, <2>2 DEF CheckPlacement, SendFile, CreateCardAttachment, TakeBack, RecordAdded,
                            Uploads, Hold, TypeOK
  <2>3. CASE UNCHANGED upload
    BY <2>1, <2>3
  <2>4. CASE Stop
    BY <1>0, <2>1, <2>4 DEF Stop, TypeOK
  <2>5. QED
    BY <2>2, <2>3, <2>4
       DEF Next, vars, FindAttachment, DeleteFile, DeleteCardAttachment, RecordRemoved, PurgeFails,
           ListCardAttachments, EveryFileOfCard, DestroyFile, DropRow,
           RemoveClassificationSources, DeleteItem, DetachCardEverywhere, PublishDecision
<1>3. CASE held[f] # "live"
  <2>1. ASSUME NEW g \in File, SendFile(g)
        PROVE  upload'[f] \in {"sent", "lost"}
    BY <1>0, <1>3, <2>1 DEF SendFile, Hold, Uploads, TypeOK
  <2>2. ASSUME NEW g \in File, TakeBack(g)
        PROVE  FALSE
    BY <1>0, <1>3, <2>2 DEF TakeBack, Hold, TypeOK
  <2>3. ASSUME NEW r \in Removal, NEW g \in File, DeleteFile(r, g)
        PROVE  FALSE
    BY <1>0, <1>3, <2>3 DEF DeleteFile, Hold, TypeOK
  <2>4. ASSUME NEW p \in Purge, NEW g \in File, DestroyFile(p, g)
        PROVE  FALSE
    BY <1>0, <1>3, <2>4 DEF DestroyFile, Hold, TypeOK
  <2>5. CASE UNCHANGED held
    BY <1>3, <2>5
  <2>6. QED
    BY <2>1, <2>2, <2>3, <2>4, <2>5
       DEF Next, vars, CheckPlacement, CreateCardAttachment, RecordAdded,
           FindAttachment, DeleteCardAttachment, RecordRemoved, PurgeFails,
           ListCardAttachments, EveryFileOfCard, DropRow,
           RemoveClassificationSources, DeleteItem, DetachCardEverywhere, PublishDecision, Stop
<1>4. QED
  BY <1>1, <1>2, <1>3

-----------------------------------------------------------------------------
(* The theorems *)

LEMMA FilesInit == Init => FilesInv
<1> SUFFICES ASSUME Init PROVE FilesInv
  OBVIOUS
<1>1. TypeOK
  BY TypeInit
<1>2. UploadInv /\ LiveFilesHaveRows /\ EventInv
  BY DEF Init, UploadInv, LiveFilesHaveRows, EventInv
<1>3. RemovalInv /\ OneTakesOff
  BY DEF Init, RemovalInv, Singles, Away, OneTakesOff
<1>4. PurgeInv
  BY DEF Init, PurgeInv, Listed, Destroying, Cleared
<1>5. QED
  BY <1>1, <1>2, <1>3, <1>4 DEF FilesInv

LEMMA FilesStep == FilesInv /\ [Next]_vars => FilesInv'
<1> SUFFICES ASSUME FilesInv, [Next]_vars PROVE FilesInv'
  OBVIOUS
<1>1. TypeOK' /\ UploadInv'
  BY TypeStep, UploadStep DEF FilesInv
<1>2. QED
  BY <1>1, RemovalStep, PurgeStep, LiveStep DEF FilesInv

LEMMA FilesInvariant == Spec => []FilesInv
  BY FilesInit, FilesStep, PTL DEF Spec

\* The files of a card, its requests and their records stay well formed.
THEOREM TypeCorrect == Spec => []TypeOK
<1>1. FilesInv => TypeOK
  BY DEF FilesInv
<1>2. QED
  BY <1>1, FilesInvariant, PTL

\* Live bytes have a row, unless their own upload broke off.
THEOREM LiveFilesReachable == Spec => []LiveFilesHaveRows
<1>1. FilesInv => LiveFilesHaveRows
  BY DEF FilesInv
<1>2. QED
  BY <1>1, FilesInvariant, PTL

\* A file is said to be removed once, and is.
THEOREM RemovalToldOnce == Spec => []RemovedOnce
<1>1. ASSUME FilesInv PROVE RemovedOnce
  <2> SUFFICES ASSUME NEW f \in File
               PROVE  /\ removedEvents[f] <= 1
                      /\ removedEvents[f] = 1 => f \notin rows /\ held[f] # "live"
    BY DEF RemovedOnce
  <2>1. removedEvents[f] = 0 \/ (removedEvents[f] = 1 /\ held[f] # "live" /\ f \notin rows)
    BY <1>1 DEF FilesInv, EventInv
  <2>2. QED
    BY <2>1
<1>2. QED
  BY <1>1, FilesInvariant, PTL

\* No item is purged before everything its card had when the purge began is gone.
THEOREM PurgeComplete == Spec => PurgeTakesWhatWasThere
<1> DEFINE Taken == item' = "purged" /\ item # "purged" =>
                      \E p \in Purge :
                        /\ purge[p].stage = "cleared"
                        /\ \A f \in purge[p].had.files : held[f] = "destroyed"
                        /\ purge[p].had.rows \cap rows = {}
                        /\ purge[p].had.texts \cap Texts = {}
<1>1. FilesInv /\ [Next]_vars => [Taken]_vars
  <2> SUFFICES ASSUME FilesInv, [Next]_vars, item' = "purged", item # "purged"
               PROVE  \E p \in Purge :
                        /\ purge[p].stage = "cleared"
                        /\ \A f \in purge[p].had.files : held[f] = "destroyed"
                        /\ purge[p].had.rows \cap rows = {}
                        /\ purge[p].had.texts \cap Texts = {}
    OBVIOUS
  <2>1. PICK p \in Purge : DeleteItem(p)
    BY DEF Next, vars, CheckPlacement, SendFile, CreateCardAttachment, TakeBack, RecordAdded,
                FindAttachment, DeleteFile, DeleteCardAttachment, RecordRemoved, PurgeFails,
                ListCardAttachments, EveryFileOfCard, DestroyFile, DropRow,
                RemoveClassificationSources, DetachCardEverywhere, PublishDecision, Stop
  <2>2. purge[p].stage = "cleared" /\ Cleared(p)
    BY <2>1 DEF DeleteItem, FilesInv, PurgeInv
  <2>3. QED
    BY <2>2 DEF Cleared, Texts
<1>2. QED
  BY <1>1, FilesInvariant, PTL DEF Spec, PurgeTakesWhatWasThere
=============================================================================
