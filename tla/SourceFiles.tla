------------------------------ MODULE SourceFiles ------------------------------
(***************************************************************************)
(* The source files of one OCR document: the parts of an image upload      *)
(* (planned together, or added one by one to a draft), finalize, the       *)
(* display-only pages that staff append later, and the two clean-ups of    *)
(* what uploads leave behind. Browser tabs put files into S3 and report    *)
(* it, in requests that may overlap; those of the upload take no lock.     *)
(***************************************************************************)
EXTENDS Naturals, FiniteSets, FiniteSetsExt

CONSTANTS
  SourceMaxFiles,    \* MULTI_IMAGE_MAX_FILES
  SourceTabs,        \* browser tabs, each with one file at a time
  SourceRowBound     \* bound: rows that a slot gets one after another

ASSUME SourceAssumption ==
  /\ SourceMaxFiles \in Nat /\ SourceMaxFiles >= 2
  /\ SourceRowBound \in Nat \ {0}

VARIABLES
  uDoc,       \* the Document; busy: it has an active request
  uSlot,      \* the DocumentSourceFile row of each order_index
  uFile,      \* who put the object of each slot's key
  uTab,       \* program counter and locals of each tab
  uFinal,     \* a finalize request: the parts it counted, the status it read
  uSweep,     \* the clean-up of abandoned drafts
  uIdentity   \* the slots of the first recognition attempt

uVars == <<uDoc, uSlot, uFile, uTab, uFinal, uSweep, uIdentity>>

Slots == 0 .. SourceMaxFiles - 1
NoFile == "no file"
NoSlot == [status |-> "NONE", ocr |-> TRUE, row |-> 0, stale |-> FALSE]
IdleTab == [at |-> "idle", slot |-> 0, row |-> 0, part |-> TRUE]
IdleFinal == [at |-> "idle", count |-> 0, first |-> TRUE]
IdleSweep == [at |-> "idle", keys |-> {}]

SourceTypeOK ==
  /\ uDoc \in [up : {"UPLOADING", "UPLOADED", "FAILED", "DELETED"},
               expected : 0 .. SourceMaxFiles, key : BOOLEAN, busy : BOOLEAN,
               stale : BOOLEAN]
  /\ uSlot \in [Slots -> [status : {"NONE", "PENDING", "UPLOADED", "FAILED"},
                          ocr : BOOLEAN, row : 0 .. SourceRowBound,
                          stale : BOOLEAN]]
  /\ uFile \in [Slots -> SourceTabs \cup {NoFile}]
  /\ uTab \in [SourceTabs ->
       [at : {"idle", "adding", "granted", "put", "completing", "failing"},
        slot : Slots, row : 0 .. SourceRowBound, part : BOOLEAN]]
  /\ uFinal \in [at : {"idle", "counted", "committing"},
                 count : 0 .. SourceMaxFiles, first : BOOLEAN]
  /\ uSweep \in [at : {"idle", "listed", "deleting"}, keys : SUBSET Slots]
  /\ uIdentity \subseteq Slots

(* A draft has no planned count. A planned upload has its rows, or the     *)
(* first of them when its request died in the loop that makes them. The    *)
(* upload of a single file makes none.                                     *)
Draft == [up |-> "UPLOADING", expected |-> 0, key |-> FALSE, busy |-> FALSE,
          stale |-> FALSE]
TwoPlanned == [Draft EXCEPT !.expected = 2]
SingleFile == [Draft EXCEPT !.up = "UPLOADED", !.key = TRUE]

Init_Source ==
  /\ uDoc \in {Draft, TwoPlanned, SingleFile}
  /\ \E made \in 0 .. uDoc.expected :
       uSlot = [k \in Slots |->
                 IF k < made THEN [NoSlot EXCEPT !.status = "PENDING", !.row = 1]
                             ELSE NoSlot]
  /\ uFile = [k \in Slots |-> NoFile]
  /\ uTab = [t \in SourceTabs |-> IdleTab]
  /\ uFinal = IdleFinal /\ uSweep = IdleSweep /\ uIdentity = {}

------------------------------------------------------------------------------
(* source_files.py                                                         *)

Rows == {k \in Slots : uSlot[k].status # "NONE"}
IsUploaded(k) == uSlot[k].status = "UPLOADED"
InFlight(k) == uSlot[k].status \in {"PENDING", "FAILED"}

IsMultiImage == uDoc.expected >= 2
IsDraft == uDoc.expected = 0 /\ uDoc.up \in {"UPLOADING", "FAILED"} /\ ~ uDoc.key
UsesPartEndpoints == IsMultiImage \/ IsDraft
NextIndex == IF Rows = {} THEN 0 ELSE Max(Rows) + 1

DraftIsReady == Rows # {} /\ Rows = 0 .. Max(Rows) /\ \A k \in Rows : IsUploaded(k)
PlannedIsReady == \A k \in 0 .. uDoc.expected - 1 : IsUploaded(k)

(* committed_physical_source_count                                         *)
Committed ==
  IF uDoc.expected # 0 THEN uDoc.expected ELSE IF uDoc.key THEN 1 ELSE 0

(* get_ordered_source_files_for_processing: unfinished display-only rows   *)
(* after the committed ones are ignored, any other extra row is refused.   *)
SourcesAreValid ==
  IsMultiImage =>
    /\ \A k \in Rows : k >= uDoc.expected => ~ uSlot[k].ocr /\ InFlight(k)
    /\ \A k \in 0 .. uDoc.expected - 1 : IsUploaded(k)
    /\ \E k \in 0 .. uDoc.expected - 1 : uSlot[k].ocr

(* Mutant of OcrSources: every committed page is recognized. *)
AllSources == IF IsMultiImage THEN 0 .. uDoc.expected - 1 ELSE {0}

OcrSources ==
  IF IsMultiImage THEN {k \in 0 .. uDoc.expected - 1 : uSlot[k].ocr} ELSE {0}

NewRow(k, ocr) ==
  uSlot' = [uSlot EXCEPT ![k] = [status |-> "PENDING", ocr |-> ocr,
                                 row |-> @.row + 1, stale |-> FALSE]]
SetStatus(k, status) ==
  uSlot' = [uSlot EXCEPT ![k].status = status, ![k].stale = FALSE]

(* A save of a row that may be gone by then. *)
SaveStatus(k, status) ==
  IF k \in Rows THEN SetStatus(k, status) ELSE UNCHANGED uSlot

TabAt(t, step) == uTab[t].at = step
TabGoes(t, step) == uTab' = [uTab EXCEPT ![t].at = step]
TabEnds(t) == uTab' = [uTab EXCEPT ![t] = IdleTab]
SlotOf(t) == uTab[t].slot
JobsRest == UNCHANGED <<uFinal, uSweep, uIdentity>>

------------------------------------------------------------------------------
(* Parts of the upload                                                     *)

(* upload_part_add reads the draft and the last order_index, then creates  *)
(* the row; uniq_document_sourcefile_order refuses the second of two.      *)
AddPartRead(t) ==
  /\ TabAt(t, "idle")
  /\ IsDraft /\ uDoc.up = "UPLOADING" /\ NextIndex < SourceMaxFiles
  /\ uTab' = [uTab EXCEPT ![t].at = "adding", ![t].slot = NextIndex]
  /\ UNCHANGED <<uDoc, uSlot, uFile>> /\ JobsRest

AddPart(t) ==
  /\ TabAt(t, "adding")
  /\ IF uDoc.up # "DELETED" /\ SlotOf(t) \notin Rows
       THEN /\ uSlot[SlotOf(t)].row < SourceRowBound
            /\ NewRow(SlotOf(t), TRUE)
            /\ TabGoes(t, "granted")
       ELSE TabEnds(t) /\ UNCHANGED uSlot
  /\ UNCHANGED <<uDoc, uFile>> /\ JobsRest

(* The answer of a planned create grants every part.                       *)
TakePlannedPart(t, k) ==
  /\ TabAt(t, "idle")
  /\ IsMultiImage /\ uDoc.up = "UPLOADING" /\ uSlot[k].status = "PENDING"
  /\ uTab' = [uTab EXCEPT ![t].at = "granted", ![t].slot = k]
  /\ UNCHANGED <<uDoc, uSlot, uFile>> /\ JobsRest

PutFile(t) ==
  /\ TabAt(t, "granted")
  /\ uFile' = [uFile EXCEPT ![SlotOf(t)] = t]
  /\ TabGoes(t, "put")
  /\ UNCHANGED <<uDoc, uSlot>> /\ JobsRest

(* A tab that is closed, loses its connection or is refused.               *)
LeaveTab(t) ==
  /\ uTab[t].at \in {"granted", "put", "completing"}
  /\ TabEnds(t)
  /\ UNCHANGED <<uDoc, uSlot, uFile>> /\ JobsRest

PartIsOpen(k) == UsesPartEndpoints /\ k \in Rows /\ (IsDraft \/ k < uDoc.expected)

(* upload_part_complete reads document, row and object, then saves the row *)
(* it read, with only its own columns.                                     *)
CompletePartRead(t) ==
  /\ TabAt(t, "put") /\ uTab[t].part
  /\ uDoc.up # "FAILED" /\ PartIsOpen(SlotOf(t)) /\ uFile[SlotOf(t)] # NoFile
  /\ TabGoes(t, "completing")
  /\ UNCHANGED <<uDoc, uSlot, uFile>> /\ JobsRest

CompletePart(t) ==
  /\ TabAt(t, "completing") /\ uTab[t].part
  /\ SaveStatus(SlotOf(t), "UPLOADED")
  /\ TabEnds(t)
  /\ UNCHANGED <<uDoc, uFile>> /\ JobsRest

(* A failed part fails the document too, even one that was finalized.      *)
FailPartRead(t) ==
  /\ uTab[t].at \in {"granted", "put"} /\ uTab[t].part
  /\ PartIsOpen(SlotOf(t))
  /\ TabGoes(t, "failing")
  /\ UNCHANGED <<uDoc, uSlot, uFile>> /\ JobsRest

FailPart(t) ==
  /\ TabAt(t, "failing")
  /\ IF uDoc.up # "DELETED"
       THEN /\ SaveStatus(SlotOf(t), "FAILED")
            /\ uDoc' = [uDoc EXCEPT !.up = "FAILED"]
       ELSE UNCHANGED <<uDoc, uSlot>>
  /\ TabEnds(t)
  /\ UNCHANGED uFile /\ JobsRest

------------------------------------------------------------------------------
(* upload_finalize: validate, save the count of a draft, then the primary  *)
(* file and the status; the request that is enqueued makes the document    *)
(* busy unless it was uploaded when the request read it. One finalize runs *)
(* at a time: the upload page waits for its answer.                        *)

FinalizeRead ==
  /\ uFinal.at = "idle" /\ uDoc.up \in {"UPLOADING", "UPLOADED"}
  /\ \/ /\ IsDraft /\ DraftIsReady
        /\ uFinal' = [IdleFinal EXCEPT !.at = "counted", !.count = Cardinality(Rows)]
     \/ /\ IsMultiImage /\ PlannedIsReady
        /\ uFinal' = [IdleFinal EXCEPT !.at = "committing",
                                       !.first = (uDoc.up # "UPLOADED")]
  /\ UNCHANGED <<uDoc, uSlot, uFile, uTab, uSweep, uIdentity>>

FinalizeCount ==
  /\ uFinal.at = "counted" /\ uDoc.up # "DELETED"
  /\ uDoc' = [uDoc EXCEPT !.expected = uFinal.count, !.stale = FALSE]
  /\ uFinal' = [uFinal EXCEPT !.at = "committing"]
  /\ UNCHANGED <<uSlot, uFile, uTab, uSweep, uIdentity>>

FinalizeCommit ==
  /\ uFinal.at = "committing" /\ uDoc.up # "DELETED" /\ 0 \in Rows
  /\ uDoc' = [uDoc EXCEPT !.up = "UPLOADED", !.key = TRUE,
                          !.busy = @ \/ uFinal.first]
  /\ uFinal' = IdleFinal
  /\ UNCHANGED <<uSlot, uFile, uTab, uSweep, uIdentity>>

(* The page reports that its upload failed; nothing is finalized any more. *)
FinalizeFails ==
  /\ UsesPartEndpoints /\ uDoc.up \in {"UPLOADING", "UPLOADED"}
  /\ uDoc' = [uDoc EXCEPT !.up = "FAILED"]
  /\ UNCHANGED <<uSlot, uFile, uTab>> /\ JobsRest

(* The request ends with an error, or its process dies.                    *)
FinalizeStops ==
  /\ uFinal.at # "idle"
  /\ uFinal' = IdleFinal
  /\ UNCHANGED <<uDoc, uSlot, uFile, uTab, uSweep, uIdentity>>

------------------------------------------------------------------------------
(* Recognition                                                             *)

StartOcrRun ==
  /\ uDoc.up = "UPLOADED" /\ ~ uDoc.busy
  /\ uDoc' = [uDoc EXCEPT !.busy = TRUE]
  /\ UNCHANGED <<uSlot, uFile, uTab>> /\ JobsRest

(* The sources of an attempt are part of its identity.                     *)
RunOcr ==
  /\ uDoc.up # "DELETED" /\ uDoc.busy
  /\ uDoc' = [uDoc EXCEPT !.busy = FALSE]
  /\ uIdentity' =
       IF SourcesAreValid /\ uIdentity = {} THEN OcrSources ELSE uIdentity
  /\ UNCHANGED <<uSlot, uFile, uTab, uFinal, uSweep>>

------------------------------------------------------------------------------
(* Display-only pages, under the lock of the document                      *)

MayAddDisplayOnly ==
  uDoc.up = "UPLOADED" /\ ~ uDoc.busy /\ Committed < SourceMaxFiles

(* prepare_display_only_page_upload; the primary row is upserted.          *)
PrepareDisplayOnly(t) ==
  LET k == Committed
      made == IF k \in Rows THEN uSlot[k].row ELSE uSlot[k].row + 1
  IN /\ TabAt(t, "idle") /\ MayAddDisplayOnly
     /\ k \in Rows => ~ uSlot[k].ocr
     /\ made <= SourceRowBound
     /\ uSlot' = [uSlot EXCEPT ![0].status = "UPLOADED",
                    ![k] = [status |-> "PENDING", ocr |-> FALSE, row |-> made,
                            stale |-> FALSE]]
     /\ uTab' = [uTab EXCEPT ![t] = [at |-> "granted", slot |-> k, row |-> 0,
                                     part |-> FALSE]]
     /\ UNCHANGED <<uDoc, uFile>> /\ JobsRest

(* The row and its object are read first, then the row is locked by id.    *)
CompleteDisplayOnlyRead(t) ==
  /\ TabAt(t, "put") /\ ~ uTab[t].part
  /\ uDoc.up # "DELETED" /\ SlotOf(t) \in Rows /\ uFile[SlotOf(t)] # NoFile
  /\ uTab' = [uTab EXCEPT ![t].at = "completing", ![t].row = uSlot[SlotOf(t)].row]
  /\ UNCHANGED <<uDoc, uSlot, uFile>> /\ JobsRest

SameRow(t) == SlotOf(t) \in Rows /\ uSlot[SlotOf(t)].row = uTab[t].row

CompleteDisplayOnly(t) ==
  /\ TabAt(t, "completing") /\ ~ uTab[t].part
  /\ SameRow(t) /\ ~ uSlot[SlotOf(t)].ocr /\ MayAddDisplayOnly
  /\ SetStatus(SlotOf(t), "UPLOADED")
  /\ uDoc' = [uDoc EXCEPT !.expected = SlotOf(t) + 1, !.stale = FALSE]
  /\ TabEnds(t)
  /\ UNCHANGED uFile /\ JobsRest

FailDisplayOnly(t) ==
  /\ uTab[t].at \in {"granted", "put"} /\ ~ uTab[t].part
  /\ uDoc.up # "DELETED" /\ SlotOf(t) \in Rows /\ ~ uSlot[SlotOf(t)].ocr
  /\ SetStatus(SlotOf(t), "FAILED")
  /\ TabEnds(t)
  /\ UNCHANGED <<uDoc, uFile>> /\ JobsRest

------------------------------------------------------------------------------
(* Clean-up                                                                *)

(* A row or a draft was last saved before the cutoff, a day ago.           *)
SlotAges(k) ==
  /\ InFlight(k) /\ ~ uSlot[k].stale
  /\ \A t \in SourceTabs :
       SlotOf(t) = k => uTab[t].at \notin {"completing", "failing"}
  /\ uSlot' = [uSlot EXCEPT ![k].stale = TRUE]
  /\ UNCHANGED <<uDoc, uFile, uTab>> /\ JobsRest

DraftAges ==
  /\ IsDraft /\ ~ uDoc.stale /\ uFinal.at = "idle"
  /\ uDoc' = [uDoc EXCEPT !.stale = TRUE]
  /\ UNCHANGED <<uSlot, uFile, uTab>> /\ JobsRest

(* apply_abandoned_display_only_extra_cleanup of one candidate; the row    *)
(* stays when S3 does not delete the object.                               *)
CleanUpDisplayOnly(k) ==
  /\ InFlight(k) /\ ~ uSlot[k].ocr /\ uSlot[k].stale
  /\ k >= Committed /\ uDoc.up = "UPLOADED" /\ ~ uDoc.busy
  /\ uFile' = [uFile EXCEPT ![k] = NoFile]
  /\ uSlot' = [uSlot EXCEPT ![k] = [NoSlot EXCEPT !.row = uSlot[k].row]]
  /\ UNCHANGED <<uDoc, uTab>> /\ JobsRest

(* The clean-up of abandoned drafts lists stale drafts, asks each again    *)
(* whether it still is a draft, deletes its objects, then the document.    *)
ListDraft ==
  /\ uSweep.at = "idle" /\ IsDraft /\ uDoc.stale
  /\ uSweep' = [IdleSweep EXCEPT !.at = "listed"]
  /\ UNCHANGED <<uDoc, uSlot, uFile, uTab, uFinal, uIdentity>>

SweepDraft ==
  /\ uSweep.at = "listed"
  /\ uSweep' = IF IsDraft THEN [at |-> "deleting", keys |-> Rows] ELSE IdleSweep
  /\ UNCHANGED <<uDoc, uSlot, uFile, uTab, uFinal, uIdentity>>

SweepObject(k) ==
  /\ k \in uSweep.keys
  /\ uSweep' = [uSweep EXCEPT !.keys = @ \ {k}]
  /\ \/ uFile' = [uFile EXCEPT ![k] = NoFile]
     \/ UNCHANGED uFile
  /\ UNCHANGED <<uDoc, uSlot, uTab, uFinal, uIdentity>>

SweepDocument ==
  /\ uSweep.at = "deleting" /\ uSweep.keys = {}
  /\ uSweep' = IdleSweep
  /\ uDoc' = [uDoc EXCEPT !.up = "DELETED", !.busy = FALSE]
  /\ uSlot' = [k \in Slots |-> [NoSlot EXCEPT !.row = uSlot[k].row]]
  /\ UNCHANGED <<uFile, uTab, uFinal, uIdentity>>

------------------------------------------------------------------------------
TabStep(t) ==
  \/ AddPartRead(t) \/ AddPart(t) \/ (\E k \in Slots : TakePlannedPart(t, k))
  \/ PutFile(t) \/ LeaveTab(t) \/ CompletePartRead(t) \/ CompletePart(t)
  \/ FailPartRead(t) \/ FailPart(t)
  \/ PrepareDisplayOnly(t) \/ CompleteDisplayOnlyRead(t) \/ CompleteDisplayOnly(t)
  \/ FailDisplayOnly(t)

Next_Source ==
  \/ \E t \in SourceTabs : TabStep(t)
  \/ FinalizeRead \/ FinalizeCount \/ FinalizeCommit \/ FinalizeFails \/ FinalizeStops
  \/ StartOcrRun \/ RunOcr
  \/ \E k \in Slots : SlotAges(k) \/ CleanUpDisplayOnly(k) \/ SweepObject(k)
  \/ DraftAges \/ ListDraft \/ SweepDraft \/ SweepDocument

Spec_Source == Init_Source /\ [][Next_Source]_uVars

------------------------------------------------------------------------------
(* Whatever pages are added, reported late or cleaned up after the upload, *)
(* recognition reads the pages of the first attempt again or refuses: a    *)
(* display-only page never enters the identity of an attempt.              *)
AttemptKeepsItsPages ==
  uIdentity # {} /\ uDoc.up = "UPLOADED" /\ SourcesAreValid
    => OcrSources = uIdentity
=============================================================================
