------------------------------ MODULE TextReview ------------------------------
(***************************************************************************)
(* The two text rows of one engine of a document, SOURCE_TEXT and          *)
(* HEBREW_TEXT, between the staff who review them on pages opened earlier, *)
(* the public's suggestions, and the worker that recognizes the document   *)
(* again or retries its translation. On a Hebrew document the rows mirror  *)
(* each other; otherwise HEBREW_TEXT is a translation and names the source *)
(* revision it belongs to. The engine is not Transkribus (its rows are     *)
(* written in TranskribusRuns), and failed recognitions do not touch the   *)
(* rows: they write under the engine "ocr-dispatch".                       *)
(***************************************************************************)
EXTENDS Integers

CONSTANTS
  ReviewHebrew,     \* the document's language is Hebrew
  ReviewStaff,      \* review pages that are open at the same time
  ReviewTextCount,  \* distinct texts
  ReviewRevBound    \* staff and suggestions save below this source revision

ASSUME ReviewAssumption ==
  /\ ReviewHebrew \in BOOLEAN
  /\ ReviewTextCount \in Nat /\ ReviewRevBound \in Nat \ {0}

Texts == 1 .. ReviewTextCount
NoText == 0
RowTypes == {"source", "hebrew"}

VARIABLES
  rText,       \* text of each row; NoText before it exists or when it failed
  rVer,        \* verification_status of each row
  sourceRev,   \* source_revision of SOURCE_TEXT
  basedOn,     \* based_on_source_revision of HEBREW_TEXT, 0 for null
  madeFrom,    \* the text a machine translated, NoText when a person wrote it
  form,        \* what each open review page shows and will post back
  job          \* the automated run of the document and the text it read

rVars == <<rText, rVer, sourceRev, basedOn, madeFrom, form, job>>

NoForm == [at |-> "closed"]
IdleJob == [kind |-> "idle", read |-> NoText]

Verdicts == {"UNVERIFIED", "VERIFIED", "REJECTED"}
Forms == [at : {"open", "rejecting"}, row : RowTypes,
          shown : [RowTypes -> Texts \cup {NoText}], rev : 0 .. ReviewRevBound]

ReviewTypeOK ==
  /\ rText \in [RowTypes -> Texts \cup {NoText}]
  /\ rVer \in [RowTypes -> Verdicts]
  /\ sourceRev \in 1 .. ReviewRevBound
  /\ basedOn \in 0 .. ReviewRevBound
  /\ madeFrom \in Texts \cup {NoText}
  /\ form \in [ReviewStaff -> Forms \cup {NoForm}]
  /\ job \in [kind : {"idle", "ocr", "retry"}, read : Texts \cup {NoText}]

Init_Review ==
  /\ rText = [row \in RowTypes |-> NoText]
  /\ rVer = [row \in RowTypes |-> "UNVERIFIED"]
  /\ sourceRev = 1 /\ basedOn = 0 /\ madeFrom = NoText
  /\ form = [s \in ReviewStaff |-> NoForm]
  /\ job = IdleJob

RowsRest == UNCHANGED <<rText, rVer, sourceRev, basedOn, madeFrom>>

------------------------------------------------------------------------------
(* Review pages                                                            *)

(* The revision a card carries besides the SHA-256 of its text.            *)
RevisionFor(row) ==
  IF row = "hebrew" /\ ~ ReviewHebrew /\ basedOn # 0 THEN basedOn ELSE sourceRev

OpenPage(s, row) ==
  /\ form[s] = NoForm /\ rText[row] # NoText
  /\ form' = [form EXCEPT ![s] = [at |-> "open", row |-> row, shown |-> rText,
                                  rev |-> RevisionFor(row)]]
  /\ RowsRest /\ UNCHANGED job

(* Mutant of BaselineMatches: the revision alone stands for the text. *)
RevisionMatches(s) == RevisionFor(form[s].row) = form[s].rev

(* assert_review_form_baseline_matches, on the locked row.                 *)
BaselineMatches(s) ==
  /\ rText[form[s].row] = form[s].shown[form[s].row]
  /\ RevisionFor(form[s].row) = form[s].rev

Pending(row) == rVer[row] \in {"UNVERIFIED", "REJECTED"} /\ rText[row] # NoText

Displayed ==
  LET first == IF ReviewHebrew THEN "hebrew" ELSE "source"
      other == CHOOSE row \in RowTypes : row # first
  IN IF rText[first] # NoText THEN first ELSE other

(* _submitted_text_differs_from_current                                    *)
Differs(row, t) == t # rText[IF ReviewHebrew THEN Displayed ELSE row]

(* A person's text t for `row`, as edits and approved suggestions store    *)
(* it: both rows of a Hebrew document and a new revision; a new revision   *)
(* of the source; or a translation of the revision that is current now.    *)
StoreText(row, t) ==
  IF ReviewHebrew \/ row = "source"
    THEN /\ sourceRev < ReviewRevBound
         /\ sourceRev' = sourceRev + 1
         /\ IF ReviewHebrew
              THEN /\ rText' = [r \in RowTypes |-> t]
                   /\ basedOn' = sourceRev' /\ madeFrom' = NoText
              ELSE /\ rText' = [rText EXCEPT !["source"] = t]
                   /\ UNCHANGED <<basedOn, madeFrom>>
    ELSE /\ rText' = [rText EXCEPT !["hebrew"] = t]
         /\ basedOn' = sourceRev /\ madeFrom' = NoText
         /\ UNCHANGED sourceRev

(* The rows a person's text makes VERIFIED where it does.                  *)
VerifyWritten(row) ==
  rVer' = [r \in RowTypes |->
            IF ReviewHebrew \/ r = row THEN "VERIFIED" ELSE rVer[r]]

ClosePage(s) == form' = [form EXCEPT ![s] = NoForm]
IsOpen(s) == form[s] # NoForm /\ form[s].at = "open"

(* edit_pending_text_result                                                *)
EditPending(s, t) ==
  /\ IsOpen(s) /\ Pending(form[s].row) /\ BaselineMatches(s)
  /\ Differs(form[s].row, t) /\ StoreText(form[s].row, t)
  /\ ClosePage(s) /\ UNCHANGED <<rVer, job>>

(* edit_verified_text_result                                               *)
EditVerified(s, t) ==
  /\ IsOpen(s) /\ rVer[form[s].row] = "VERIFIED" /\ BaselineMatches(s)
  /\ Differs(form[s].row, t) /\ StoreText(form[s].row, t)
  /\ VerifyWritten(form[s].row)
  /\ ClosePage(s) /\ UNCHANGED job

(* verify_pending_text_result, without and with an edit of the reviewer's. *)
(* Only the row that was clicked becomes VERIFIED.                         *)
Verify(s) ==
  /\ IsOpen(s) /\ Pending(form[s].row) /\ BaselineMatches(s)
  /\ rVer' = [rVer EXCEPT ![form[s].row] = "VERIFIED"]
  /\ ClosePage(s)
  /\ UNCHANGED <<rText, sourceRev, basedOn, madeFrom, job>>

VerifyEdited(s, t) ==
  /\ IsOpen(s) /\ Pending(form[s].row) /\ BaselineMatches(s)
  /\ Differs(form[s].row, t) /\ StoreText(form[s].row, t)
  /\ rVer' = [rVer EXCEPT ![form[s].row] = "VERIFIED"]
  /\ ClosePage(s) /\ UNCHANGED job

(* A stale form, or one whose row is no longer eligible, is refused.       *)
Refuse(s) ==
  /\ IsOpen(s)
  /\ ~ BaselineMatches(s) \/ ~ Pending(form[s].row)
  /\ ClosePage(s) /\ RowsRest /\ UNCHANGED job

(* review_text_result_reject reads and saves without a lock, and compares  *)
(* no baseline: what it saves is its verdict on what it read.              *)
RejectRead(s) ==
  /\ IsOpen(s) /\ Pending(form[s].row)
  /\ form' = [form EXCEPT ![s].at = "rejecting"]
  /\ RowsRest /\ UNCHANGED job

RejectSave(s) ==
  /\ form[s] # NoForm /\ form[s].at = "rejecting"
  /\ rVer' = [rVer EXCEPT ![form[s].row] = "REJECTED"]
  /\ ClosePage(s)
  /\ UNCHANGED <<rText, sourceRev, basedOn, madeFrom, job>>

(* approve_suggestion writes the text that is displayed now, seen or not.  *)
ApproveSuggestion(t) ==
  /\ rText[Displayed] # NoText
  /\ StoreText(Displayed, t)
  /\ VerifyWritten(Displayed)
  /\ UNCHANGED <<form, job>>

------------------------------------------------------------------------------
(* The worker                                                              *)

SomeVerified == \E row \in RowTypes : rVer[row] = "VERIFIED"

(* A document with VERIFIED text is not recognized again.                  *)
StartOcr ==
  /\ job = IdleJob /\ ~ SomeVerified
  /\ job' = [kind |-> "ocr", read |-> NoText]
  /\ RowsRest /\ UNCHANGED form

(* The success branch of the worker's persist transaction: the recognized  *)
(* text t, and for other languages its translation u or the failure of it. *)
(* It does not count a source revision.                                    *)
PersistOcr(t, u) ==
  /\ job.kind = "ocr"
  /\ job' = IdleJob
  /\ IF SomeVerified
       THEN RowsRest
       ELSE /\ rText' = [row \in RowTypes |->
                           IF ReviewHebrew \/ row = "source" THEN t ELSE u]
            /\ rVer' = [row \in RowTypes |-> "UNVERIFIED"]
            /\ madeFrom' = IF ReviewHebrew \/ u = NoText THEN NoText ELSE t
            /\ basedOn' = IF ReviewHebrew \/ u = NoText THEN basedOn ELSE sourceRev
            /\ UNCHANGED sourceRev
  /\ UNCHANGED form

(* The run fails, dies or may no longer persist.                           *)
EndJob ==
  /\ job # IdleJob
  /\ job' = IdleJob
  /\ RowsRest /\ UNCHANGED form

(* execute_hebrew_translation_retry                                        *)
TranslationIsProtected == rVer["hebrew"] = "VERIFIED" \/ rText["hebrew"] # NoText

ClaimRetry ==
  /\ job = IdleJob /\ ~ ReviewHebrew
  /\ rText["source"] # NoText /\ ~ TranslationIsProtected
  /\ job' = [kind |-> "retry", read |-> rText["source"]]
  /\ RowsRest /\ UNCHANGED form

(* Mutant of RetryMayPersist: the source is not compared again. *)
RetryUnchecked == ~ TranslationIsProtected

RetryMayPersist == rText["source"] = job.read /\ ~ TranslationIsProtected

PersistRetry(u) ==
  /\ job.kind = "retry" /\ RetryMayPersist
  /\ rText' = [rText EXCEPT !["hebrew"] = u]
  /\ rVer' = [rVer EXCEPT !["hebrew"] = "UNVERIFIED"]
  /\ basedOn' = (IF u = NoText THEN basedOn ELSE sourceRev)
  /\ madeFrom' = (IF u = NoText THEN NoText ELSE job.read)
  /\ job' = IdleJob
  /\ UNCHANGED <<sourceRev, form>>

------------------------------------------------------------------------------
Next_Review ==
  \/ \E s \in ReviewStaff :
       \/ \E row \in RowTypes : OpenPage(s, row)
       \/ \E t \in Texts : EditPending(s, t) \/ EditVerified(s, t) \/ VerifyEdited(s, t)
       \/ Verify(s) \/ Refuse(s) \/ RejectRead(s) \/ RejectSave(s)
  \/ \E t \in Texts :
       \/ ApproveSuggestion(t)
       \/ \E u \in Texts \cup {NoText} : PersistOcr(t, u)
  \/ \E u \in Texts \cup {NoText} : PersistRetry(u)
  \/ StartOcr \/ EndJob \/ ClaimRetry

Spec_Review == Init_Review /\ [][Next_Review]_rVars

------------------------------------------------------------------------------
(* A review page replaces or verifies only what it showed, on a Hebrew     *)
(* document in the mirrored row too, which its baseline does not name:     *)
(* whatever other staff, suggestions and runs wrote since it was opened.   *)
ReplacesOnlyShown ==
  \A s \in ReviewStaff :
    IsOpen(s) /\ form'[s] = NoForm =>
      \A row \in RowTypes :
        rText'[row] # rText[row] \/ rVer'[row] # rVer[row]
          => rText[row] = form[s].shown[row]

StaffReplaceWhatTheySaw == [][ReplacesOnlyShown]_rVars

(* A translation by the machine that does not look stale, because its      *)
(* revision is the source's, is a translation of the source text beside    *)
(* it, although recognition replaces that text without a new revision.     *)
FreshTranslationIsOfItsSource ==
  ~ ReviewHebrew /\ madeFrom # NoText /\ basedOn = sourceRev
    => madeFrom = rText["source"]
=============================================================================
