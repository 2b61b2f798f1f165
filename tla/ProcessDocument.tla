--------------------------- MODULE ProcessDocument ---------------------------
(***************************************************************************)
(* The durable PROCESS_DOCUMENT request of one document, from the web      *)
(* processes that create and send it, through SQS, to the workers that     *)
(* claim, execute and terminalize it, with the lease fence, the recovery   *)
(* command and the staff recovery controls.                                *)
(*                                                                         *)
(* Every database transaction, every autonomous UPDATE and every unlocked  *)
(* read that a later step relies on is one action, so other processes may  *)
(* run between any two of them. A process may stop before any step.        *)
(***************************************************************************)
EXTENDS DocumentState, FiniteSets

CONSTANTS
  MaxRequests,  \* bound: request rows the document may get
  Workers,      \* worker processes polling the queue
  Senders,      \* web requests and management commands that enqueue
  Slots,        \* bound: undeleted SQS messages one request may have
  Payloads,     \* the request payloads this instance may enqueue
  SourceResults,      \* what OCR may yield: a subset of {"blank", "usable"}
  TranslationResults, \* what translation may yield: as a HEBREW_TEXT row
  MultiImage,   \* the document has several source files
  Events        \* rare events this instance allows, see AllEvents

Requests == 1..MaxRequests

AllPayloads == {"UPLOAD", "REPROCESS", "RECOGNITION", "TRANSLATION"}

(* "verify"        a reviewer marks a text row VERIFIED                    *)
(* "stale_upload"  upload_complete saves a Document row that other         *)
(*                 processes changed since it was read                     *)
(* "restore_error" _restore_processing_state_after_retry_abort fails       *)
AllEvents == {"verify", "stale_upload", "restore_error"}

ASSUME MaxRequestsAssumption == MaxRequests \in Nat
ASSUME PayloadsAssumption == Payloads \subseteq AllPayloads
ASSUME SourceResultsAssumption == SourceResults \subseteq {"blank", "usable"}
ASSUME TranslationResultsAssumption ==
  TranslationResults \subseteq {"failed", "blank", "usable"}
ASSUME MultiImageAssumption == MultiImage \in BOOLEAN
ASSUME EventsAssumption == Events \subseteq AllEvents

VARIABLES
  req,    \* req[r]: the ProcessDocumentRequest row r
  doc,    \* Document.processing_state_user
  up,     \* Document.upload_status
  text,   \* the document's text results, see DocumentState
  queue,  \* <<r, slot>>: SQS messages not deleted yet
  wk,     \* wk[w]: a worker's program counter and locals
  sn      \* sn[s]: a sender's program counter and locals

vars == <<req, doc, up, text, queue, wk, sn>>

Waiting  == {"QUEUED", "ENQUEUE_FAILED"}
Active   == Waiting \cup {"RUNNING", "RECOVERY_REQUIRED"}
Terminal == {"COMPLETED", "PARTIAL", "FAILED"}
Statuses == Active \cup Terminal \cup {"NONE"}

(* A row that has not been created. grants counts the leases ever issued   *)
(* and stands for the fresh uuid4 token of each; token 0 is NULL. enq      *)
(* (last_enqueued_at is set) and aged are tracked while the row waits,     *)
(* where they are read; staff marks a STAFF_ABANDONED failure code.        *)
NoRequest == [status |-> "NONE", payload |-> "NONE", token |-> 0, grants |-> 0,
              lease |-> "none", enq |-> FALSE, aged |-> FALSE, staff |-> FALSE]

IdleWorker == [pc |-> "idle", r |-> 0, slot |-> 0, token |-> 0,
               prior |-> "none", out |-> "none"]

IdleSender == [pc |-> "idle", payload |-> "NONE", r |-> 0,
               seen |-> "none", seenUp |-> "none"]

IsTranslation(r) == req[r].payload = "TRANSLATION"

(* A document is new (nothing uploaded, processing_state_user at its       *)
(* default) or was processed before durable requests existed.              *)
Init ==
  /\ req = [r \in Requests |-> NoRequest]
  /\ queue = {}
  /\ wk = [w \in Workers |-> IdleWorker]
  /\ sn = [s \in Senders |-> IdleSender]
  /\ \/ up = "UPLOADING" /\ doc = "PROCESSING" /\ text = NoText
     \/ /\ up = "UPLOADED"
        /\ \/ \E heb \in {"failed", "usable"} :
                /\ text = SaveResults(NoText, "usable", heb, 0)
                /\ doc = Rollup(text, "ocr")
           \/ /\ text = SaveFailure(NoText, 0)
              /\ doc = Rollup(text, "dispatch")

-----------------------------------------------------------------------------
(* Enqueueing: create or coalesce under the Document lock, send outside    *)
(* any transaction, finalize by compare-and-set, reload, then reflect the  *)
(* outcome on the Document.                                                *)

GoTo(s, pc) == sn' = [sn EXCEPT ![s].pc = pc]

Done(s) == sn' = [sn EXCEPT ![s] = IdleSender]

(* upload_complete and upload_finalize read the Document unlocked; a       *)
(* multi-image upload that failed is final.                                *)
BeginUpload(s) ==
  /\ "UPLOAD" \in Payloads
  /\ MultiImage => up # "FAILED"
  /\ sn[s].pc = "idle"
  /\ sn' = [sn EXCEPT ![s] = [IdleSender EXCEPT !.pc = "save", !.payload = "UPLOAD",
                                               !.seen = doc, !.seenUp = up]]
  /\ UNCHANGED <<req, doc, up, text, queue, wk>>

(* They save it later: processing_state_user is always among the saved  *)
(* fields, with the value read at the start when the upload was complete.  *)
SaveUpload(s) ==
  /\ sn[s].pc = "save"
  /\ "stale_upload" \in Events \/ (sn[s].seen = doc /\ sn[s].seenUp = up)
  /\ up' = "UPLOADED"
  /\ doc' = IF sn[s].seenUp = "UPLOADED" THEN sn[s].seen ELSE "PROCESSING"
  /\ sn' = [sn EXCEPT ![s] = [IdleSender EXCEPT !.pc = "enqueue", !.payload = "UPLOAD"]]
  /\ UNCHANGED <<req, text, queue, wk>>

(* The client reports that the file never arrived. *)
FailUpload(s) ==
  /\ sn[s].pc = "save"
  /\ "stale_upload" \in Events \/ (sn[s].seenUp # "UPLOADED" /\ sn[s].seenUp = up)
  /\ up' = "FAILED"
  /\ doc' = "FAILED"
  /\ Done(s)
  /\ UNCHANGED <<req, text, queue, wk>>

(* apply_ocr_reprocess assesses the Document without a lock. Only a        *)
(* Transkribus route may classify the retry as recognition-only.           *)
AssessReprocess(s, payload) ==
  /\ payload \in Payloads \cap {"REPROCESS", "RECOGNITION"}
  /\ payload = "RECOGNITION" => ~ResumableRoute
  /\ \/ sn[s].pc = "idle"
     \/ sn[s].pc = "assess" /\ sn[s].payload # "TRANSLATION"
  /\ sn' = [sn EXCEPT ![s] =
              [IdleSender EXCEPT !.payload = payload,
                 !.pc = IF Reprocessable(doc, up, text) THEN "enqueue" ELSE "fallback"]]
  /\ UNCHANGED <<req, doc, up, text, queue, wk>>

(* _assessment_from_matching_active_request: a refused assessment still    *)
(* reports an active reprocess request; a queued one is then marked like   *)
(* a fresh success, every other status only changes the HTTP answer.       *)
FallbackReprocess(s) ==
  /\ sn[s].pc = "fallback"
  /\ IF \E r \in Requests : /\ req[r].status = "QUEUED"
                            /\ req[r].payload \in {"REPROCESS", "RECOGNITION"}
       THEN \E r \in Requests :
              /\ req[r].status = "QUEUED"
              /\ req[r].payload \in {"REPROCESS", "RECOGNITION"}
              /\ sn' = [sn EXCEPT ![s].pc = "mark", ![s].r = r]
       ELSE Done(s)
  /\ UNCHANGED <<req, doc, up, text, queue, wk>>

(* enqueue_hebrew_translation_retry: a refused validation only reports.    *)
AssessTranslation(s) ==
  /\ "TRANSLATION" \in Payloads
  /\ \/ sn[s].pc = "idle"
     \/ sn[s].pc = "assess" /\ sn[s].payload = "TRANSLATION"
  /\ sn' = [sn EXCEPT ![s] =
              IF Translatable(doc, up, text)
                THEN [IdleSender EXCEPT !.payload = "TRANSLATION", !.pc = "enqueue"]
                ELSE IdleSender]
  /\ UNCHANGED <<req, doc, up, text, queue, wk>>

(* Mutant of NoActiveRequest: a parked request does not block. *)
NoQueuedOrRunning == \A q \in Requests : req[q].status \notin Waiting \cup {"RUNNING"}

(* _lock_active_request *)
NoActiveRequest == \A q \in Requests : req[q].status \notin Active

(* _resolve_under_document_lock, first half: no active request. *)
EnqueueCreate(s) ==
  /\ sn[s].pc = "enqueue"
  /\ NoActiveRequest
  /\ IF /\ sn[s].payload = "UPLOAD"
        /\ \E q \in Requests : req[q].status \in Terminal /\ req[q].payload = "UPLOAD"
       THEN Done(s) /\ UNCHANGED req
       ELSE \E r \in Requests :
              /\ req[r].status = "NONE"
              /\ \A q \in Requests : q < r => req[q].status # "NONE"
              /\ req' = [req EXCEPT ![r] = [NoRequest EXCEPT !.status = "QUEUED",
                                                  !.payload = sn[s].payload]]
              /\ sn' = [sn EXCEPT ![s].pc = "send", ![s].r = r]
  /\ UNCHANGED <<doc, up, text, queue, wk>>

(* _resolve_under_document_lock, second half: an active request conflicts, *)
(* is sent again if its send failed, or is coalesced with. Re-sending does *)
(* not clear last_enqueued_at.                                             *)
EnqueueCoalesce(s) ==
  /\ sn[s].pc = "enqueue"
  /\ \E r \in Requests :
       /\ req[r].status \in Active
       /\ \A q \in Requests : q < r => req[q].status \notin Active
       /\ IF req[r].payload = sn[s].payload /\ req[r].status = "ENQUEUE_FAILED"
            THEN /\ req' = [req EXCEPT ![r].status = "QUEUED", ![r].aged = FALSE]
                 /\ sn' = [sn EXCEPT ![s].pc = "send", ![s].r = r]
            ELSE /\ UNCHANGED req
                 /\ IF /\ req[r].payload = sn[s].payload
                       /\ req[r].status = "QUEUED"
                       /\ sn[s].payload # "TRANSLATION"
                      THEN sn' = [sn EXCEPT ![s].pc = "mark", ![s].r = r]
                      ELSE Done(s)
  /\ UNCHANGED <<doc, up, text, queue, wk>>

(* send_process_document_request_message accepted by SQS. A message beyond *)
(* the bound on copies is one more copy that nobody can tell apart.        *)
Deliver(r) ==
  LET free == {m \in {r} \X Slots : /\ m \notin queue
                                    /\ \A w \in Workers : <<wk[w].r, wk[w].slot>> # m} IN
  IF free = {} THEN UNCHANGED queue ELSE \E m \in free : queue' = queue \cup {m}

SendAccepted(s) ==
  /\ sn[s].pc = "send"
  /\ Deliver(sn[s].r)
  /\ GoTo(s, "finalizeSuccess")
  /\ UNCHANGED <<req, doc, up, text, wk>>

(* A definite rejection sent nothing; after an ambiguous error the message *)
(* may be in the queue all the same.                                       *)
SendFailed(s) ==
  /\ sn[s].pc = "send"
  /\ UNCHANGED queue \/ Deliver(sn[s].r)
  /\ GoTo(s, "finalizeFailure")
  /\ UNCHANGED <<req, doc, up, text, wk>>

(* Mutant of UnclaimedQueued: the compare-and-set asks only for the token. *)
NoToken(r) == req[r].token = 0

(* _unclaimed_queued_cas_filter *)
UnclaimedQueued(r) == req[r].status = "QUEUED" /\ req[r].token = 0

(* _finalize_success / _finalize_failure *)
Finalize(s) ==
  LET r == sn[s].r IN
  /\ sn[s].pc \in {"finalizeSuccess", "finalizeFailure"}
  /\ req' = IF ~UnclaimedQueued(r) THEN req
            ELSE IF sn[s].pc = "finalizeSuccess"
              THEN [req EXCEPT ![r].enq = TRUE, ![r].aged = FALSE]
              ELSE [req EXCEPT ![r].status = "ENQUEUE_FAILED", ![r].aged = FALSE]
  /\ GoTo(s, "reload")
  /\ UNCHANGED <<doc, up, text, queue, wk>>

(* _reload_request, _outcome_from_observed and the adapters'                *)
(* _mark_processing_if_request_still_queued or                             *)
(* _mark_failed_if_request_still_enqueue_failed: the status read back      *)
(* chooses the UPDATE, which asks for the same status again, so a status   *)
(* that changes between the two leaves the Document as a crash would.      *)
(* Translation requests leave the Document to the worker.                  *)
ReloadAndMark(s) ==
  LET r == sn[s].r IN
  /\ sn[s].pc = "reload"
  /\ doc' = IF IsTranslation(r) THEN doc
            ELSE IF req[r].status = "QUEUED" THEN "PROCESSING"
            ELSE IF req[r].status = "ENQUEUE_FAILED" THEN "FAILED"
            ELSE doc
  /\ Done(s)
  /\ UNCHANGED <<req, up, text, queue, wk>>

(* Mutant of MarkCoalesced: the UPDATE does not ask for the status again. *)
MarkAlways(s) ==
  /\ sn[s].pc = "mark"
  /\ doc' = "PROCESSING"
  /\ Done(s)
  /\ UNCHANGED <<req, up, text, queue, wk>>

(* _mark_processing_if_request_still_queued after ALREADY_QUEUED *)
MarkCoalesced(s) ==
  /\ sn[s].pc = "mark"
  /\ doc' = IF req[sn[s].r].status = "QUEUED" THEN "PROCESSING" ELSE doc
  /\ Done(s)
  /\ UNCHANGED <<req, up, text, queue, wk>>

(* The web request or the command stops before its next step. *)
SenderCrash(s) ==
  /\ sn[s].pc # "idle"
  /\ Done(s)
  /\ UNCHANGED <<req, doc, up, text, queue, wk>>

-----------------------------------------------------------------------------
(* recover_process_document_requests: resend what was never sent.          *)

(* Mutant of Stranded: a failed enqueue is not a candidate. *)
StrandedQueued(r) == req[r].status = "QUEUED" /\ ~req[r].enq

(* process_document_recovery_candidates, but for the age: rows whose       *)
(* message was never reported sent.                                        *)
Stranded(r) ==
  \/ req[r].status = "QUEUED" /\ ~req[r].enq
  \/ req[r].status = "ENQUEUE_FAILED"

(* DEFAULT_RECOVERY_MINIMUM_AGE passes since the row was last updated. Age *)
(* is read of stranded rows only.                                          *)
Age(r) ==
  /\ Stranded(r) /\ ~req[r].aged
  /\ req' = [req EXCEPT ![r].aged = TRUE]
  /\ UNCHANGED <<doc, up, text, queue, wk, sn>>

(* _invalid_intent_reason *)
IntentValid(r) ==
  CASE req[r].payload = "UPLOAD"      -> UploadIntentValid(up, text)
    [] req[r].payload = "TRANSLATION" -> Translatable(doc, up, text)
    [] OTHER                          -> Reprocessable(doc, up, text)

(* _assessment_for_request *)
Recoverable(r) ==
  /\ Stranded(r)
  /\ req[r].aged
  /\ IntentValid(r)

(* recover_process_document_request: reserve a send right, then send. *)
Recover(s, r) ==
  /\ sn[s].pc = "idle"
  /\ Recoverable(r)
  /\ req' = [req EXCEPT ![r].status = "QUEUED", ![r].aged = FALSE,
                        ![r].enq = FALSE]
  /\ sn' = [sn EXCEPT ![s] = [IdleSender EXCEPT !.pc = "send", !.r = r,
                                               !.payload = req[r].payload]]
  /\ UNCHANGED <<doc, up, text, queue, wk>>

-----------------------------------------------------------------------------
(* Leases, the fence and the staff recovery controls. *)

LeaseExpires(r) ==
  /\ req[r].lease = "live"
  /\ req' = [req EXCEPT ![r].lease = "expired"]
  /\ UNCHANGED <<doc, up, text, queue, wk, sn>>

(* Mutant of LeaseLost: only a cleared lease counts as lost. *)
LeaseCleared(r) == req[r].status = "RUNNING" /\ req[r].lease = "none"

(* process_document_request_lease_is_live, negated, for a running row *)
LeaseLost(r) == req[r].status = "RUNNING" /\ req[r].lease # "live"

(* Mutant of Fence: the expired lease is left on the parked row. *)
FenceKeepingLease(r) ==
  /\ req' = [req EXCEPT ![r].status = "RECOVERY_REQUIRED"]
  /\ doc' = IF doc = "PROCESSING" THEN "RECOVERY_REQUIRED" ELSE doc

(* fence_locked_expired_running_process_document_request: the token stays  *)
(* so that the late holder may still finish.                               *)
Fence(r) ==
  /\ req' = [req EXCEPT ![r].status = "RECOVERY_REQUIRED", ![r].lease = "none"]
  /\ doc' = IF doc = "PROCESSING" THEN "RECOVERY_REQUIRED" ELSE doc

(* Mutant of FenceCommand: an expired request goes back to the queue. *)
RequeueExpired(r) ==
  /\ LeaseLost(r)
  /\ req' = [req EXCEPT ![r].status = "QUEUED", ![r].token = 0, ![r].lease = "none"]
  /\ UNCHANGED <<doc, up, text, queue, wk, sn>>

(* fence_expired_process_document_requests *)
FenceCommand(r) ==
  /\ LeaseLost(r)
  /\ Fence(r)
  /\ UNCHANGED <<up, text, queue, wk, sn>>

(* abandon_process_document_request: refused unless the recovery shape is  *)
(* valid and an ordinary Document state is left behind.                    *)
AbandonRequest(r) ==
  LET replaced == ReplaceOverlay(doc, text, IsTranslation(r)) IN
  /\ req[r].status = "RECOVERY_REQUIRED"
  /\ req[r].token # 0 /\ req[r].lease = "none"
  /\ replaced \in Ordinary
  /\ doc' = replaced
  /\ req' = [req EXCEPT ![r].status = "FAILED", ![r].token = 0, ![r].staff = TRUE]

Abandon(r) ==
  /\ AbandonRequest(r)
  /\ UNCHANGED <<up, text, queue, wk, sn>>

(* retry_process_document_request: abandon in a transaction of its own     *)
(* (or find it already abandoned), then enqueue for the same operation     *)
(* through the ordinary adapters.                                          *)
StaffRetry(s, r) ==
  /\ sn[s].pc = "idle"
  /\ \/ AbandonRequest(r)
     \/ req[r].status = "FAILED" /\ req[r].staff /\ UNCHANGED <<req, doc>>
  /\ sn' = [sn EXCEPT ![s] = [IdleSender EXCEPT !.pc = "assess",
                                               !.payload = req[r].payload]]
  /\ UNCHANGED <<up, text, queue, wk>>

(* verify_pending_text_result; saving the row makes it the latest one. *)
VerifyText(type) ==
  /\ "verify" \in Events
  /\ Row(text, "ocr", type) = "usable" /\ type \notin text.ver
  /\ text' = [text EXCEPT !.ver = @ \cup {type},
                          !.last = IF type = "src" THEN "ocr" ELSE @]
  /\ UNCHANGED <<req, doc, up, queue, wk, sn>>

-----------------------------------------------------------------------------
(* The worker: receive, claim, execute, terminalize, delete the message.   *)

(* The delivery is given up without deleting the message: a deferral, a    *)
(* RETRYABLE outcome, an exception or the death of the process.            *)
Release(w) == wk' = [wk EXCEPT ![w] = IdleWorker]

(* An outcome to terminalize the request with. *)
Conclude(w, out) ==
  wk' = [wk EXCEPT ![w].pc = "terminalize", ![w].out = out, ![w].prior = "none"]

(* The message is to be deleted. *)
Acknowledge(w) ==
  wk' = [wk EXCEPT ![w] = [IdleWorker EXCEPT !.pc = "ack", !.r = wk[w].r,
                                            !.slot = wk[w].slot]]

(* SQS redelivers any message that has not been deleted. *)
Receive(w, m) ==
  /\ wk[w].pc = "idle"
  /\ m \in queue
  /\ wk' = [wk EXCEPT ![w] = [IdleWorker EXCEPT !.pc = "claim", !.r = m[1], !.slot = m[2]]]
  /\ UNCHANGED <<req, doc, up, text, queue, sn>>

(* claim_process_document_request: terminal and parked requests only have  *)
(* their message deleted.                                                  *)
ClaimAck(w) ==
  /\ wk[w].pc = "claim"
  /\ req[wk[w].r].status \in Terminal \cup {"RECOVERY_REQUIRED"}
  /\ Acknowledge(w)
  /\ UNCHANGED <<req, doc, up, text, queue, sn>>

(* claim_process_document_request with _claim_new_lease *)
ClaimExecute(w) ==
  LET r == wk[w].r IN
  /\ wk[w].pc = "claim"
  /\ req[r].status \in Waiting
  /\ req' = [req EXCEPT ![r].status = "RUNNING", ![r].lease = "live",
                        ![r].token = req[r].grants + 1, ![r].grants = @ + 1,
                        ![r].aged = FALSE, ![r].enq = FALSE]
  /\ wk' = [wk EXCEPT ![w].pc = "start", ![w].token = req[r].grants + 1]
  /\ UNCHANGED <<doc, up, text, queue, sn>>

(* Mutant of ClaimFence: the next delivery takes over an expired lease. *)
Reclaim(w) ==
  LET r == wk[w].r IN
  /\ wk[w].pc = "claim"
  /\ LeaseLost(r)
  /\ req' = [req EXCEPT ![r].lease = "live", ![r].token = req[r].grants + 1,
                        ![r].grants = @ + 1]
  /\ wk' = [wk EXCEPT ![w].pc = "start", ![w].token = req[r].grants + 1]
  /\ UNCHANGED <<doc, up, text, queue, sn>>

(* claim_process_document_request on an expired holder *)
ClaimFence(w) ==
  /\ wk[w].pc = "claim"
  /\ LeaseLost(wk[w].r)
  /\ Fence(wk[w].r)
  /\ Acknowledge(w)
  /\ UNCHANGED <<up, text, queue, sn>>

(* Mutant of ClaimDefer: the copy of a running request is deleted. *)
DropLiveCopy(w) ==
  /\ wk[w].pc = "claim"
  /\ req[wk[w].r].status = "RUNNING" /\ ~LeaseLost(wk[w].r)
  /\ Acknowledge(w)
  /\ UNCHANGED <<req, doc, up, text, queue, sn>>

(* claim_process_document_request on a live holder *)
ClaimDefer(w) ==
  /\ wk[w].pc = "claim"
  /\ req[wk[w].r].status = "RUNNING" /\ ~LeaseLost(wk[w].r)
  /\ Release(w)
  /\ UNCHANGED <<req, doc, up, text, queue, sn>>

Claim(w) == ClaimAck(w) \/ ClaimExecute(w) \/ ClaimFence(w) \/ ClaimDefer(w)

(* Mutant of PersistIsAllowed: trusts the token the worker was given. *)
HoldsSomeToken(w) == wk[w].token # 0

(* automated_process_document_persist_is_allowed *)
PersistIsAllowed(w) ==
  /\ req[wk[w].r].status \in {"RUNNING", "RECOVERY_REQUIRED"}
  /\ req[wk[w].r].token = wk[w].token

(* Phase 1 of _execute_process_document_payload *)
Phase1(w) ==
  /\ wk[w].pc = "start" /\ ~IsTranslation(wk[w].r)
  /\ IF PersistIsAllowed(w) /\ up = "UPLOADED" /\ doc # "RECOVERY_REQUIRED"
       THEN /\ doc' = "PROCESSING"
            /\ wk' = [wk EXCEPT ![w].pc = "provider", ![w].prior = doc]
       ELSE Conclude(w, "NOOP") /\ UNCHANGED doc
  /\ UNCHANGED <<req, up, text, queue, sn>>

(* The source files of a multi-image document do not validate: FAILED is   *)
(* written in a transaction that does not ask PersistIsAllowed.            *)
SourcesInvalid(w) ==
  /\ wk[w].pc = "provider" /\ ~IsTranslation(wk[w].r)
  /\ MultiImage
  /\ doc' = "FAILED"
  /\ Conclude(w, "FAILED")
  /\ UNCHANGED <<req, up, text, queue, sn>>

(* Mutant of PageIncomplete: writes PARTIAL without asking for the lease. *)
PageIncompleteUnfenced(w) ==
  /\ wk[w].pc = "provider" /\ ~IsTranslation(wk[w].r)
  /\ ResumableRoute
  /\ text' = [text EXCEPT !.pages = TRUE]
  /\ doc' = "PARTIAL"
  /\ Conclude(w, "PARTIAL")
  /\ UNCHANGED <<req, up, queue, sn>>

(* EnginePageIncompleteError: some pages failed, their checkpoints remain. *)
PageIncomplete(w) ==
  /\ wk[w].pc = "provider" /\ ~IsTranslation(wk[w].r)
  /\ ResumableRoute
  /\ text' = [text EXCEPT !.pages = TRUE]
  /\ IF PersistIsAllowed(w)
       THEN doc' = "PARTIAL" /\ Conclude(w, "PARTIAL")
       ELSE Conclude(w, "NOOP") /\ UNCHANGED doc
  /\ UNCHANGED <<req, up, queue, sn>>

(* Any other processing error. The VERIFIED fence is not consulted here.   *)
PersistFailure(w) ==
  /\ wk[w].pc = "provider" /\ ~IsTranslation(wk[w].r)
  /\ IF PersistIsAllowed(w)
       THEN /\ text' = SaveFailure(text, wk[w].r)
            /\ doc' = Rollup(text', "dispatch")
            /\ Conclude(w, "FAILED")
       ELSE Conclude(w, "NOOP") /\ UNCHANGED <<doc, text>>
  /\ UNCHANGED <<req, up, queue, sn>>

(* Mutant of OutcomeFor: whatever is not FAILED is COMPLETED. *)
OutcomeUnlessFailed(state) == IF state = "FAILED" THEN "FAILED" ELSE "COMPLETED"

(* _outcome_for_final_processing_state *)
OutcomeFor(state) ==
  CASE state = "READY"   -> "COMPLETED"
    [] state = "PARTIAL" -> "PARTIAL"
    [] OTHER             -> "FAILED"

(* Mutant of PersistSuccess: no VERIFIED write fence. *)
PersistUnverified(w, src, heb) ==
  /\ wk[w].pc = "provider" /\ ~IsTranslation(wk[w].r)
  /\ IF ~PersistIsAllowed(w)
       THEN /\ text' = [text EXCEPT !.pages = FALSE]
            /\ Conclude(w, "NOOP")
            /\ UNCHANGED doc
       ELSE /\ text' = SaveResults(text, src, heb, wk[w].r)
            /\ doc' = Rollup(text', "ocr")
            /\ Conclude(w, OutcomeFor(doc'))
  /\ UNCHANGED <<req, up, queue, sn>>

(* The success path of the persist transaction: a VERIFIED row makes it    *)
(* restore the state Phase 1 captured, otherwise the rows are saved and    *)
(* rolled up.                                                              *)
PersistSuccess(w, src, heb) ==
  /\ wk[w].pc = "provider" /\ ~IsTranslation(wk[w].r)
  /\ IF ~PersistIsAllowed(w)
       THEN /\ text' = [text EXCEPT !.pages = FALSE]
            /\ Conclude(w, "NOOP")
            /\ UNCHANGED doc
     ELSE IF text.ver # {}
       THEN /\ text' = [text EXCEPT !.pages = FALSE]
            /\ doc' = RestorePrior(doc, wk[w].prior)
            /\ Conclude(w, OutcomeFor(doc'))
     ELSE /\ text' = SaveResults(text, src, heb, wk[w].r)
          /\ doc' = Rollup(text', "ocr")
          /\ Conclude(w, OutcomeFor(doc'))
  /\ UNCHANGED <<req, up, queue, sn>>

(* execute_hebrew_translation_retry with _claim_translation_retry. A       *)
(* PROCESSING Document defers while it is fresh; once stale it is rolled   *)
(* up first, and keeps that roll-up when the retry is not eligible.        *)
TranslationClaim(w) ==
  /\ wk[w].pc = "start" /\ IsTranslation(wk[w].r)
  /\ \/ /\ ~PersistIsAllowed(w)
        /\ Conclude(w, "NOOP") /\ UNCHANGED doc
     \/ /\ PersistIsAllowed(w) /\ doc = "PROCESSING"
        /\ Release(w) /\ UNCHANGED doc
     \/ LET observed == IF doc = "PROCESSING" THEN RollupDisplayed(text) ELSE doc IN
        /\ PersistIsAllowed(w)
        /\ IF Translatable(observed, up, text)
             THEN /\ doc' = "PROCESSING"
                  /\ wk' = [wk EXCEPT ![w].pc = "provider"]
             ELSE Conclude(w, "NOOP") /\ doc' = observed
  /\ UNCHANGED <<req, up, text, queue, sn>>

(* The persist transaction of execute_hebrew_translation_retry. *)
PersistTranslation(w, heb) ==
  /\ wk[w].pc = "provider" /\ IsTranslation(wk[w].r)
  /\ PersistIsAllowed(w)
  /\ doc \in {"PROCESSING", "RECOVERY_REQUIRED"}
  /\ TranslationSource(up, text)
  /\ text' = [text EXCEPT !.heb = heb, !.by = wk[w].r]
  /\ doc' = Rollup(text', "ocr")
  /\ Conclude(w, IF heb = "failed" THEN "FAILED" ELSE "COMPLETED")
  /\ UNCHANGED <<req, up, queue, sn>>

(* The same transaction refused: by the lease, by                          *)
(* validate_document_for_hebrew_translation_retry_persistence (the         *)
(* SOURCE_TEXT may have been edited meanwhile), or by a database error,    *)
(* which leaves the message unacknowledged.                                *)
RefuseTranslation(w) ==
  /\ wk[w].pc = "provider" /\ IsTranslation(wk[w].r)
  /\ IF ~PersistIsAllowed(w)
       THEN Conclude(w, "NOOP")
       ELSE \E out \in {"NOOP", "RETRYABLE"} :
              wk' = [wk EXCEPT ![w].pc = "restore", ![w].out = out]
  /\ UNCHANGED <<req, doc, up, text, queue, sn>>

(* _restore_processing_state_after_retry_abort: a transaction of its own   *)
(* that does not ask PersistIsAllowed; its errors are swallowed.           *)
RestoreAfterAbort(w) ==
  /\ wk[w].pc = "restore"
  /\ \/ doc' = IF doc = "PROCESSING" THEN Rollup(text, "ocr") ELSE doc
     \/ "restore_error" \in Events /\ UNCHANGED doc
  /\ IF wk[w].out = "RETRYABLE" THEN Release(w) ELSE Conclude(w, wk[w].out)
  /\ UNCHANGED <<req, up, text, queue, sn>>

(* _terminal_status_and_failure *)
TerminalStatus(out) == IF out = "NOOP" THEN "FAILED" ELSE out

(* Mutant of Terminalize: a parked request may finish under the overlay. *)
TerminalizeUnderOverlay(w) ==
  LET r == wk[w].r IN
  /\ wk[w].pc = "terminalize"
  /\ IF req[r].status \in Terminal
       THEN Acknowledge(w) /\ UNCHANGED req
     ELSE IF req[r].token = wk[w].token
       THEN /\ req' = [req EXCEPT ![r].status = TerminalStatus(wk[w].out),
                                  ![r].token = 0, ![r].lease = "none"]
            /\ Acknowledge(w)
     ELSE Release(w) /\ UNCHANGED req
  /\ UNCHANGED <<doc, up, text, queue, sn>>

(* terminalize_process_document_request. A refusal defers the delivery. *)
Terminalize(w) ==
  LET r == wk[w].r IN
  /\ wk[w].pc = "terminalize"
  /\ IF req[r].status \in Terminal
       THEN Acknowledge(w) /\ UNCHANGED req
     ELSE IF /\ req[r].token = wk[w].token
             /\ \/ req[r].status = "RUNNING"
                \/ req[r].status = "RECOVERY_REQUIRED" /\ doc \in Ordinary
       THEN /\ req' = [req EXCEPT ![r].status = TerminalStatus(wk[w].out),
                                  ![r].token = 0, ![r].lease = "none"]
            /\ Acknowledge(w)
     ELSE Release(w) /\ UNCHANGED req
  /\ UNCHANGED <<doc, up, text, queue, sn>>

(* DeleteMessage; its errors are swallowed and the message stays. *)
Ack(w) ==
  /\ wk[w].pc = "ack"
  /\ queue' \in {queue, queue \ {<<wk[w].r, wk[w].slot>>}}
  /\ Release(w)
  /\ UNCHANGED <<req, doc, up, text, sn>>

(* The worker dies, execute_payload raises, or the outcome is RETRYABLE:   *)
(* message and lease stay.                                                 *)
WorkerCrash(w) ==
  /\ wk[w].pc # "idle"
  /\ Release(w)
  /\ UNCHANGED <<req, doc, up, text, queue, sn>>

-----------------------------------------------------------------------------
SenderStep(s) ==
  \/ SaveUpload(s) \/ FailUpload(s) \/ FallbackReprocess(s)
  \/ EnqueueCreate(s) \/ EnqueueCoalesce(s)
  \/ SendAccepted(s) \/ SendFailed(s)
  \/ Finalize(s) \/ ReloadAndMark(s) \/ MarkCoalesced(s)

SenderNext(s) ==
  \/ BeginUpload(s) \/ AssessTranslation(s)
  \/ \E payload \in AllPayloads : AssessReprocess(s, payload)
  \/ \E r \in Requests : Recover(s, r) \/ StaffRetry(s, r)
  \/ SenderStep(s)
  \/ SenderCrash(s)

Execute(w) ==
  \/ Phase1(w) \/ SourcesInvalid(w) \/ PageIncomplete(w) \/ PersistFailure(w)
  \/ \E src \in SourceResults, heb \in TranslationResults :
       PersistSuccess(w, src, heb)
  \/ TranslationClaim(w) \/ RefuseTranslation(w) \/ RestoreAfterAbort(w)
  \/ \E heb \in TranslationResults : PersistTranslation(w, heb)

WorkerNext(w) ==
  \/ \E m \in queue : Receive(w, m)
  \/ Claim(w) \/ Execute(w) \/ Terminalize(w) \/ Ack(w)
  \/ WorkerCrash(w)

EnvNext ==
  \/ \E r \in Requests : Age(r) \/ LeaseExpires(r) \/ FenceCommand(r) \/ Abandon(r)
  \/ \E type \in {"src", "heb"} : VerifyText(type)

Next ==
  \/ \E s \in Senders : SenderNext(s)
  \/ \E w \in Workers : WorkerNext(w)
  \/ EnvNext

Spec == Init /\ [][Next]_vars

-----------------------------------------------------------------------------
(* What the scheduling of the code justifies. SQS redelivers a message     *)
(* until it is deleted and the workers poll for ever, so a request with a  *)
(* message is received and claimed again and again, and not every claim    *)
(* dies half way; SQS does not refuse every send; leases and ages are wall *)
(* clock; recover_process_document_requests is run again and again, as the *)
(* runbook asks. Nobody is obliged to click, and nobody is obliged to      *)
(* survive: crashes stay possible everywhere.                              *)
Fairness ==
  /\ \A r \in Requests :
       /\ WF_vars(LeaseExpires(r))
       /\ WF_vars(Age(r))
       /\ SF_vars(\E w \in Workers, m \in queue : m[1] = r /\ Receive(w, m))
       /\ SF_vars(\E w \in Workers : wk[w].r = r /\ Claim(w))
       /\ SF_vars(\E s \in Senders : Recover(s, r))
       /\ SF_vars(\E s \in Senders : sn[s].r = r /\ SendAccepted(s))
  /\ \A w \in Workers : WF_vars(Execute(w)) /\ WF_vars(Terminalize(w)) /\ WF_vars(Ack(w))
  /\ \A s \in Senders : WF_vars(SenderStep(s))

FairSpec == Spec /\ Fairness

-----------------------------------------------------------------------------
(* Properties. *)

Request == [status : Statuses, payload : AllPayloads \cup {"NONE"}, token : Nat,
            grants : Nat, lease : {"none", "live", "expired"}, enq : BOOLEAN,
            aged : BOOLEAN, staff : BOOLEAN]

Outcomes == {"none", "COMPLETED", "PARTIAL", "FAILED", "NOOP", "RETRYABLE"}

Worker == [pc : {"idle", "claim", "start", "provider", "restore", "terminalize", "ack"},
           r : Nat, slot : Slots \cup {0}, token : Nat,
           prior : ProcessingStates \cup {"none"}, out : Outcomes]

Sender == [pc : {"idle", "save", "assess", "fallback", "enqueue", "send",
                 "finalizeSuccess", "finalizeFailure", "reload", "mark"},
           payload : AllPayloads \cup {"NONE"}, r : Nat,
           seen : ProcessingStates \cup {"none"},
           seenUp : {"none", "UPLOADING", "UPLOADED", "FAILED"}]

TextRecord == [src : RowStates, heb : RowStates, fail : BOOLEAN,
               last : {"none", "ocr", "dispatch"}, ver : SUBSET {"src", "heb"},
               pages : BOOLEAN, by : Nat]

Sending == {"send", "finalizeSuccess", "finalizeFailure", "reload", "mark"}

(* The types of the variables; a process that is past its first step names *)
(* a request.                                                              *)
TypeOK ==
  /\ req \in [Requests -> Request]
  /\ doc \in ProcessingStates
  /\ up \in {"UPLOADING", "UPLOADED", "FAILED"}
  /\ text \in TextRecord
  /\ queue \subseteq Requests \X Slots
  /\ wk \in [Workers -> Worker]
  /\ sn \in [Senders -> Sender]
  /\ \A w \in Workers : wk[w].pc # "idle" => wk[w].r \in Requests
  /\ \A s \in Senders : sn[s].pc \in Sending => sn[s].r \in Requests

(* The strengthening that makes the safety properties inductive.           *)
Created(r) == req[r].status # "NONE"

(* Messages and processes only name rows that exist. *)
RefersToCreated ==
  /\ \A m \in queue : Created(m[1])
  /\ \A w \in Workers : wk[w].pc # "idle" => Created(wk[w].r) /\ wk[w].slot \in Slots
  /\ \A s \in Senders : sn[s].pc \in Sending => Created(sn[s].r)

(* The locals a process relies on at its next step. A sender that saves    *)
(* the Document writes back what it still holds; a run that started under  *)
(* an ordinary state never restores the overlay.                           *)
LocalsAreSet ==
  /\ \A w \in Workers :
       /\ wk[w].pc = "terminalize" => wk[w].out \in Terminal \cup {"NOOP"}
       /\ wk[w].pc = "restore" => wk[w].out \in {"NOOP", "RETRYABLE"}
       /\ wk[w].pc = "provider" /\ ~IsTranslation(wk[w].r)
            => wk[w].prior \in ProcessingStates \ {"RECOVERY_REQUIRED"}
  /\ \A s \in Senders : sn[s].pc = "save" => sn[s].seen \in ProcessingStates

(* Rows are created in order, and only after every earlier one finished. *)
CreatedInOrder ==
  \A r, q \in Requests :
    r < q /\ Created(q) => req[r].status \in Terminal

(* A row that still waits was never granted; a lease belongs to a RUNNING  *)
(* row.                                                                    *)
GrantsMatchStatus ==
  \A r \in Requests :
    /\ req[r].grants <= 1
    /\ req[r].status \in Waiting \cup {"NONE"} => req[r].grants = 0
    /\ req[r].lease # "none" => req[r].status = "RUNNING"

(* A worker that may still be granted its request, or that holds the       *)
(* grant, has a message that is not deleted; only messages of terminal or  *)
(* parked requests are about to be deleted.                                *)
HeldMessagesRemain ==
  \A w \in Workers :
    /\ wk[w].pc = "ack" => req[wk[w].r].status \in Terminal \cup {"RECOVERY_REQUIRED"}
    /\ wk[w].pc \notin {"idle", "ack"}
         /\ req[wk[w].r].status \in Waiting \cup {"RUNNING"}
         => <<wk[w].r, wk[w].slot>> \in queue

(* A document never has two unfinished requests, however enqueue, claim,   *)
(* fence, abandon and retry interleave: a parked request still blocks.     *)
OneActiveRequest ==
  \A r, q \in Requests :
    req[r].status \in Active /\ req[q].status \in Active => r = q

(* No request is ever handed to a second execution: duplicate and          *)
(* redelivered messages, resends after an ambiguous send, an expired lease *)
(* and the recovery command never lead to a second claim.                  *)
ExecutedAtMostOnce == \A r \in Requests : req[r].grants <= 1

(* The document shows the recovery overlay only while a request is parked, *)
(* so that staff always find the request that explains the overlay and no  *)
(* finished request leaves it behind.                                      *)
OverlayIsParked ==
  doc = "RECOVERY_REQUIRED" => \E r \in Requests : req[r].status = "RECOVERY_REQUIRED"

(* While a request is RUNNING a message for it is still in the queue, so   *)
(* if its holder dies a later delivery will fence it. No acknowledgement,  *)
(* by whichever worker holds a copy, may break this.                       *)
RunningKeepsMessage ==
  \A r \in Requests :
    req[r].status = "RUNNING" => \E slot \in Slots : <<r, slot>> \in queue

(* All of it: what holds initially and is preserved by every step (for     *)
(* OverlayIsParked, of instances without stale uploads).                   *)
InductiveInvariant ==
  /\ TypeOK /\ RefersToCreated /\ LocalsAreSet
  /\ CreatedInOrder /\ GrantsMatchStatus
  /\ HeldMessagesRemain /\ RunningKeepsMessage

(* A document shown as READY really has the text rows it expects: roll-up, *)
(* restore after a VERIFIED fence, overlay replacement and late workers    *)
(* keep processing_state_user and the rows together; and a request that    *)
(* finished COMPLETED has left readable text, until a later request runs.  *)
FinishedHasText ==
  /\ doc = "READY" => /\ text.heb = "usable"
                      /\ ~Hebrew => text.src = "usable"
  /\ \A r \in Requests :
       /\ req[r].status = "COMPLETED"
       /\ \A q \in Requests : q > r => req[q].status \in Waiting \cup {"NONE"}
       => text.heb = "usable"

(* An uploaded document that shows PROCESSING has a request that accounts  *)
(* for it (status-flow.md: "worker is still processing"), unless the       *)
(* upload's process died before it created the first one.                  *)
ProcessingHasRequest ==
  doc = "PROCESSING" /\ up = "UPLOADED" =>
    \/ \E r \in Requests : req[r].status \in Active
    \/ \A r \in Requests : req[r].status = "NONE"

(* A finished request row is never written again: late finalization of a   *)
(* send, late terminalization and resends all leave it alone.              *)
TerminalIsFinal ==
  [][\A r \in Requests : req[r].status \in Terminal => req'[r] = req[r]]_vars

(* Text rows are written only for a request that is still unfinished and   *)
(* that no later request has replaced: a worker that outlived its lease    *)
(* loses the right to write when staff abandon its request.                *)
TextWrittenByLatest ==
  [][ <<text.src, text.heb, text.fail>>' # <<text.src, text.heb, text.fail>>
      => \E r \in Requests :
           /\ text'.by = r
           /\ req[r].status \in {"RUNNING", "RECOVERY_REQUIRED"}
           /\ \A q \in Requests : q > r => req[q].status = "NONE" ]_vars

(* A worker changes the document's state only on behalf of a request whose *)
(* lease token it still owns, or when it fences.                           *)
DocumentWrittenByHolder ==
  [][\A w \in Workers :
       wk'[w] # wk[w] /\ wk[w].pc # "claim" /\ doc' # doc => PersistIsAllowed(w)]_vars

(* A worker starts provider work only for a RUNNING request: a parked one  *)
(* does not authorize it.                                                  *)
ProviderStartsRunning ==
  [][\A w \in Workers :
       wk[w].pc = "start" /\ wk'[w].pc = "provider"
         => req[wk[w].r].status = "RUNNING"]_vars

(* A row that a reviewer has VERIFIED is never replaced: not by a worker   *)
(* that started before the review, nor by a translation retry.             *)
VerifiedTextIsKept ==
  [][\A type \in text.ver : Row(text', "ocr", type) = Row(text, "ocr", type)]_vars

(* The durable request implements RequestLifecycle. *)
PhaseOf(status) ==
  CASE status = "NONE"              -> "absent"
    [] status \in Waiting           -> "waiting"
    [] status = "RUNNING"           -> "running"
    [] status = "RECOVERY_REQUIRED" -> "parked"
    [] OTHER                        -> "done"

Lifecycle == INSTANCE RequestLifecycle
               WITH phase <- [r \in Requests |-> PhaseOf(req[r].status)]

LifecycleSpec == Lifecycle!Spec

(* A RUNNING request does not stay so: its holder finishes it or another   *)
(* delivery fences it, whatever crashes.                                   *)
RunningIsSettled ==
  \A r \in Requests : req[r].status = "RUNNING" ~> req[r].status # "RUNNING"

(* An upload request that nobody claimed is eventually claimed, although   *)
(* the web process may die before it sends, sends may fail, and its        *)
(* outcome may be unknown; unless the document stops being a valid upload  *)
(* target (the client reports a failed upload, text was already there).    *)
UploadIsClaimed ==
  \A r \in Requests :
    req[r].payload = "UPLOAD" /\ req[r].status \in Waiting
      ~> req[r].status \notin Waiting \/ ~UploadIntentValid(up, text)

(* The same for a reprocess request, as the enqueue module promises: a     *)
(* stranded QUEUED row is repaired by the recovery command.                *)
ReprocessIsClaimed ==
  \A r \in Requests :
    req[r].payload = "REPROCESS" /\ req[r].status \in Waiting
      ~> req[r].status \notin Waiting
=============================================================================
