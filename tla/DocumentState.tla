---------------------------- MODULE DocumentState ----------------------------
(***************************************************************************)
(* The part of a Document row and of its text results that decides what    *)
(* processing may do next: the roll-up of processing_state_user from the   *)
(* text rows, the replacement of the recovery overlay, and the eligibility *)
(* rules for OCR reprocess, translation retry and recovery of a request.   *)
(*                                                                         *)
(* A text value is a record                                                *)
(*   src, heb  the SOURCE_TEXT / HEBREW_TEXT row of the runtime OCR engine *)
(*   fail      whether failed rows exist under the engine "ocr-dispatch"   *)
(*   last      the engine of the most recently updated SOURCE_TEXT row     *)
(*   ver       the rows a reviewer has marked VERIFIED                     *)
(*   pages     whether unfinished page checkpoints are left to resume from *)
(*   by        the request whose execution wrote the rows last (0: none)   *)
(* A row is "none", "failed", "blank" (kept, but whitespace) or "usable".  *)
(***************************************************************************)
EXTENDS Naturals

CONSTANTS
  Hebrew,        \* the document's language is Hebrew
  ResumableRoute \* its OCR route is GEMINI or ANTIGRAVITY, not TRANSKRIBUS

ASSUME HebrewAssumption == Hebrew \in BOOLEAN
ASSUME RouteAssumption == ResumableRoute \in BOOLEAN

RowStates == {"none", "failed", "blank", "usable"}

Ordinary == {"READY", "PARTIAL", "FAILED"}

ProcessingStates == Ordinary \cup {"PROCESSING", "RECOVERY_REQUIRED"}

NoText == [src |-> "none", heb |-> "none", fail |-> FALSE, last |-> "none",
           ver |-> {}, pages |-> FALSE, by |-> 0]

(* expected_result_types_for_document *)
ExpectedTypes == IF Hebrew THEN {"heb"} ELSE {"src", "heb"}

(* The row of one result type that one engine owns. *)
Row(text, engine, type) ==
  IF engine = "ocr"
    THEN IF type = "src" THEN text.src ELSE text.heb
    ELSE IF text.fail /\ (type = "src" \/ Hebrew) THEN "failed" ELSE "none"

(* Mutant of Rollup: any row that is not failed counts as text, and one    *)
(* such row is enough.                                                     *)
RollupPresent(text, engine) ==
  LET rows == {Row(text, engine, type) : type \in ExpectedTypes} IN
  IF "none" \in rows THEN "PARTIAL"
  ELSE IF rows = {"failed"} THEN "FAILED"
  ELSE "READY"

(* update_document_processing_state_for_engine *)
Rollup(text, engine) ==
  LET rows == {Row(text, engine, type) : type \in ExpectedTypes} IN
  IF "none" \in rows THEN "PARTIAL"
  ELSE IF rows = {"failed"} THEN "FAILED"
  ELSE IF rows = {"usable"} THEN "READY"
  ELSE "PARTIAL"

(* update_document_processing_state_from_displayed_source *)
RollupDisplayed(text) ==
  IF text.src = "usable" THEN Rollup(text, "ocr") ELSE "PARTIAL"

(* has_recoverable_ocr_partial_evidence: page checkpoints count only while *)
(* there is no SOURCE_TEXT row at all; a failed latest row counts only on  *)
(* the routes that can resume.                                             *)
RecoverableEvidence(text) ==
  CASE text.last = "none"     -> text.pages
    [] text.last = "ocr"      -> FALSE
    [] text.last = "dispatch" -> ResumableRoute

(* _replace_recovery_overlay: the ordinary state an abandoned request      *)
(* leaves behind.                                                          *)
ReplaceOverlay(doc, text, translation) ==
  IF doc # "RECOVERY_REQUIRED" THEN doc
  ELSE IF translation \/ text.src = "usable" THEN RollupDisplayed(text)
  ELSE IF RecoverableEvidence(text) THEN "PARTIAL"
  ELSE "FAILED"

(* apply_verified_fence_processing_state_restore *)
RestorePrior(doc, prior) ==
  IF doc = "RECOVERY_REQUIRED" /\ prior \notin Ordinary THEN doc ELSE prior

(* validate_document_for_ocr_reprocess *)
Reprocessable(doc, up, text) ==
  /\ up = "UPLOADED"
  /\ \/ doc \in {"FAILED", "READY"}
     \/ doc = "PARTIAL" /\ RecoverableEvidence(text)
  /\ text.ver = {}

(* _validate_translation_retry_source *)
TranslationSource(up, text) ==
  /\ ~Hebrew
  /\ up = "UPLOADED"
  /\ text.src = "usable"
  /\ text.heb # "usable" /\ "heb" \notin text.ver

(* validate_document_for_hebrew_translation_retry *)
Translatable(doc, up, text) ==
  doc \in Ordinary /\ TranslationSource(up, text)

(* _upload_finalize_intent_is_valid *)
UploadIntentValid(up, text) ==
  up = "UPLOADED" /\ text.ver = {} /\ text.src # "usable"

(* _save_htr_results and, for a non-Hebrew document,                       *)
(* persist_hebrew_translation_result: the rows of the runtime engine are   *)
(* replaced; a Hebrew document's HEBREW_TEXT mirrors its SOURCE_TEXT.      *)
SaveResults(text, src, heb, r) ==
  [text EXCEPT !.src = src, !.heb = IF Hebrew THEN src ELSE heb,
               !.last = "ocr", !.pages = FALSE, !.by = r]

(* _save_ocr_failure: failed rows under "ocr-dispatch", whatever the       *)
(* runtime engine's rows hold.                                             *)
SaveFailure(text, r) ==
  [text EXCEPT !.fail = TRUE, !.last = "dispatch", !.by = r]
=============================================================================
