-------------------------- MODULE TranskribusRuns --------------------------
(***************************************************************************)
(* Handwritten documents: the TranskribusRun rows of one document, the     *)
(* snapshot each run is associated with, and the SOURCE_TEXT row that a    *)
(* run, the staff's edits and the activation of a corrected transcript     *)
(* write in turn. The HEBREW mirror is written in the same transactions    *)
(* with the same text and is left out.                                     *)
(*                                                                         *)
(* A delivery holds the request lease until it loses it, and then goes on  *)
(* as a stale worker: run rows are written without asking for the lease.   *)
(***************************************************************************)
EXTENDS Naturals

CONSTANTS
  TrRunCount,       \* bound: run rows of the document
  TrWorkers,        \* deliveries that may overlap
  TrMode,           \* mode of the runs: UPLOAD_CREATED or EXISTING_SERVER
  TrForceReprocess, \* TRANSKRIBUS_FORCE_REPROCESS
  TrActivation      \* whether the staff activate corrected transcripts

ASSUME TranskribusAssumption ==
  /\ TrRunCount \in Nat /\ TrMode \in {"UPLOAD_CREATED", "EXISTING_SERVER"}
  /\ TrForceReprocess \in BOOLEAN /\ TrActivation \in BOOLEAN

VARIABLES
  tRun,     \* tRun[r]: the run rows, in order of creation
  tRemote,  \* tRemote[r]: the transcript at Transkribus of the job of run r
  tSnap,    \* tSnap[x]: source_kind of the READY snapshot with content x
  tRow,     \* the SOURCE_TEXT row and its binding
  tFetched, \* snapshots of COMPLETED corrected/current attempts
  tWorker   \* tWorker[w]: program counter and locals of a delivery

tVars == <<tRun, tRemote, tSnap, tRow, tFetched, tWorker>>

TrRuns == 1..TrRunCount
Upload == TrMode = "UPLOAD_CREATED"

(* What a recognition reads, what a transcriber makes of it at Transkribus, *)
(* and what the staff make of the row.                                     *)
TrTexts == {"recognised", "corrected", "edited"}

(* PAGE XML differs between jobs even when their texts do not. *)
Contents == [job : TrRuns, text : {"recognised", "corrected"}]
NoSnapshot == [job |-> 0, text |-> "none"]

(* remote: document_id_transkribus is stored. job: the durable ids of the  *)
(* recognition.                                                            *)
NoTrRun == [status |-> "NONE", remote |-> FALSE, job |-> FALSE, assoc |-> NoSnapshot]

(* drifted: text or revision differ from what bound was bound to. *)
NoTrRow == [text |-> "none", bound |-> NoSnapshot, drifted |-> FALSE,
            verified |-> FALSE]

IdleTrWorker == [pc |-> "idle", run |-> 0, source |-> 0, snap |-> NoSnapshot,
                 resumed |-> FALSE, holds |-> FALSE]

Init_Transkribus ==
  /\ tRun = [r \in TrRuns |-> NoTrRun]
  /\ tRemote = [r \in TrRuns |-> "none"]
  /\ tSnap = [x \in Contents |-> "none"]
  /\ tRow = NoTrRow
  /\ tFetched = {}
  /\ tWorker = [w \in TrWorkers |-> IdleTrWorker]

Created == {r \in TrRuns : tRun[r].status # "NONE"}
WithStatus(S) == {r \in TrRuns : tRun[r].status \in S}
Newest(S) == CHOOSE r \in S : \A q \in S : q <= r
RunOf(w) == tRun[tWorker[w].run]
EndDelivery(w) == tWorker' = [tWorker EXCEPT ![w] = IdleTrWorker]
ToPc(w, pc) == tWorker' = [tWorker EXCEPT ![w].pc = pc]

------------------------------------------------------------------------------
(* Which run a delivery works on. *)

(* find_blocking_upload_run: the newest run that keeps a second document   *)
(* from being uploaded.                                                    *)
BlockingRuns ==
  WithStatus({"STARTED", "UPLOADED", "RECOGNITION_STARTED", "SUCCEEDED"})
    \cup {r \in WithStatus({"FAILED"}) : tRun[r].remote}

(* _run_is_reusable_for_recognition_retry *)
ReusableRuns ==
  {r \in WithStatus({"FAILED", "UPLOADED", "RECOGNITION_STARTED"}) : tRun[r].remote}

(* inspect_local_completion_bindings: structurally complete for a run. *)
StructurallyComplete(x) == tRow.text # "none" /\ tRow.bound = x

Durable(r) == tRun[r].remote /\ tRun[r].job
Associated(r) == tRun[r].assoc # NoSnapshot

(* find_upload_local_completion_resume_run *)
UploadResume ==
  {r \in BlockingRuns :
     /\ r = Newest(BlockingRuns) /\ Durable(r)
     /\ \/ tRun[r].status = "RECOGNITION_STARTED"
        \/ tRun[r].status = "SUCCEEDED" /\ Associated(r)}

(* find_existing_server_local_completion_resume_run; more than one         *)
(* candidate is refused as ambiguous.                                      *)
ExistingStarted == {r \in WithStatus({"RECOGNITION_STARTED"}) : Durable(r)}
ExistingIncomplete ==
  {r \in WithStatus({"SUCCEEDED"}) :
     Durable(r) /\ Associated(r) /\ ~StructurallyComplete(tRun[r].assoc)}
ExistingResume ==
  IF ExistingStarted # {} THEN ExistingStarted ELSE ExistingIncomplete

ResumeRuns ==
  IF Upload THEN (IF TrForceReprocess THEN {} ELSE UploadResume) ELSE ExistingResume

------------------------------------------------------------------------------
(* Deliveries. *)

(* A new delivery takes the lease; whoever had it has lost it. *)
Deliver(w) ==
  /\ tWorker[w].pc = "idle"
  /\ tWorker' = [v \in TrWorkers |->
       IF v = w THEN [IdleTrWorker EXCEPT !.pc = "plan", !.holds = TRUE]
       ELSE [tWorker[v] EXCEPT !.holds = FALSE]]
  /\ UNCHANGED <<tRun, tRemote, tSnap, tRow, tFetched>>

(* _resume_run_local_completion: an associated snapshot is completed from  *)
(* as it is, otherwise the finished job is fetched again.                  *)
PlanResume(w, r) ==
  /\ tWorker[w].pc = "plan"
  /\ ResumeRuns = {r}
  /\ tWorker' = [tWorker EXCEPT ![w] =
       [@ EXCEPT !.run = r, !.resumed = TRUE, !.snap = tRun[r].assoc,
                 !.pc = IF Associated(r) THEN "complete" ELSE "fetch"]]
  /\ UNCHANGED <<tRun, tRemote, tSnap, tRow, tFetched>>

(* A new document, or a second recognition of the one of `source`, which   *)
(* verified text forbids.                                                  *)
PlanNew(w) ==
  /\ tWorker[w].pc = "plan"
  /\ ResumeRuns = {}
  /\ Upload /\ ~TrForceReprocess => BlockingRuns = {}
  /\ ToPc(w, "new")
  /\ UNCHANGED <<tRun, tRemote, tSnap, tRow, tFetched>>

PlanRecognitionOnly(w, source) ==
  /\ tWorker[w].pc = "plan"
  /\ ResumeRuns = {} /\ Upload /\ ~TrForceReprocess
  /\ source \in ReusableRuns
  /\ ~tRow.verified
  /\ tWorker' = [tWorker EXCEPT ![w] = [@ EXCEPT !.pc = "new", !.source = source]]
  /\ UNCHANGED <<tRun, tRemote, tSnap, tRow, tFetched>>

(* start_run *)
StartRun(w) ==
  /\ tWorker[w].pc = "new"
  /\ \E r \in TrRuns \ Created :
       /\ \A q \in TrRuns \ Created : r <= q
       /\ tRun' = [tRun EXCEPT ![r] = [NoTrRun EXCEPT !.status = "STARTED",
                                                      !.remote = ~Upload]]
       /\ tWorker' = [tWorker EXCEPT ![w] =
            [@ EXCEPT !.run = r, !.pc = IF Upload THEN "upload" ELSE "recognise"]]
  /\ UNCHANGED <<tRemote, tSnap, tRow, tFetched>>

(* mark_uploaded after the upload, or apply_source_upload_metadata. *)
MarkUploaded(w) ==
  /\ tWorker[w].pc = "upload"
  /\ tRun' = [tRun EXCEPT ![tWorker[w].run] =
                [@ EXCEPT !.status = "UPLOADED", !.remote = TRUE]]
  /\ ToPc(w, "recognise")
  /\ UNCHANGED <<tRemote, tSnap, tRow, tFetched>>

(* mark_recognition_started: the job id is durable before its result is.   *)
MarkRecognitionStarted(w) ==
  /\ tWorker[w].pc = "recognise"
  /\ tRun' = [tRun EXCEPT ![tWorker[w].run] =
                [@ EXCEPT !.status = "RECOGNITION_STARTED", !.job = TRUE]]
  /\ ToPc(w, "fetch")
  /\ UNCHANGED <<tRemote, tSnap, tRow, tFetched>>

(* The job has ended and its transcript, as it is now, is read. *)
FetchTranscript(w) ==
  LET r == tWorker[w].run
      text == IF tRemote[r] = "none" THEN "recognised" ELSE tRemote[r] IN
  /\ tWorker[w].pc = "fetch"
  /\ tRemote' = [tRemote EXCEPT ![r] = text]
  /\ tWorker' = [tWorker EXCEPT ![w] =
       [@ EXCEPT !.pc = "store", !.snap = [job |-> r, text |-> text]]]
  /\ UNCHANGED <<tRun, tSnap, tRow, tFetched>>

(* The provider or the selection fails: a delivery that created the run    *)
(* marks it FAILED, whatever its status is by now; one that resumed it     *)
(* leaves it alone.                                                        *)
Fails(w) == IF tWorker[w].resumed THEN UNCHANGED tRun
            ELSE tRun' = [tRun EXCEPT ![tWorker[w].run].status = "FAILED"]

FailRun(w) ==
  /\ tWorker[w].pc \in {"upload", "recognise", "fetch"}
  /\ tWorker[w].pc = "upload" => tWorker[w].source = 0
  /\ Fails(w)
  /\ EndDelivery(w)
  /\ UNCHANGED <<tRemote, tSnap, tRow, tFetched>>

(* store_transkribus_transcript_snapshot: the READY snapshot with the same *)
(* PAGE XML is reused whatever its source_kind is.                         *)
Stored(x, kind) == IF tSnap[x] = "none" THEN [tSnap EXCEPT ![x] = kind] ELSE tSnap

StoreSnapshot(w) ==
  /\ tWorker[w].pc = "store"
  /\ RunOf(w).status = "RECOGNITION_STARTED"
  /\ tSnap' = Stored(tWorker[w].snap, "AUTOMATIC_HTR")
  /\ ToPc(w, "associate")
  /\ UNCHANGED <<tRun, tRemote, tRow, tFetched>>

(* Mutant: a later delivery's snapshot replaces the association. *)
AnySnapshot(r, x) == tSnap[x] = "AUTOMATIC_HTR"

(* associate_run_with_automatic_snapshot *)
MayAssociate(r, x) ==
  tSnap[x] = "AUTOMATIC_HTR" /\ tRun[r].assoc \in {NoSnapshot, x}

Associate(w) ==
  LET r == tWorker[w].run
      x == tWorker[w].snap IN
  /\ tWorker[w].pc = "associate"
  /\ \/ /\ MayAssociate(r, x)
        /\ tRun' = [tRun EXCEPT ![r].assoc = x]
        /\ ToPc(w, "complete")
     \/ ~MayAssociate(r, x) /\ Fails(w) /\ EndDelivery(w)
  /\ UNCHANGED <<tRemote, tSnap, tRow, tFetched>>

(* Mutant: an edited row does not count as written. *)
DoneUnedited(w) ==
  /\ StructurallyComplete(tWorker[w].snap) /\ ~tRow.drifted
  /\ RunOf(w).status = "SUCCEEDED"

(* A duplicate delivery: the run has ended and its text was written. *)
AlreadyDone(w) ==
  StructurallyComplete(tWorker[w].snap) /\ RunOf(w).status = "SUCCEEDED"

(* complete_transkribus_local_success, one transaction. Without the lease  *)
(* or with another snapshot than the associated one it changes nothing.    *)
CompleteLocally(w) ==
  LET r == tWorker[w].run
      x == tWorker[w].snap IN
  /\ tWorker[w].pc = "complete"
  /\ tWorker[w].holds
  /\ tRun[r].assoc = x
  /\ \/ AlreadyDone(w) /\ ~tRow.verified /\ UNCHANGED <<tRow, tRun>>
     \/ /\ tRow.verified
        /\ tRun' = [tRun EXCEPT ![r].status = "SUCCEEDED"]
        /\ UNCHANGED tRow
     \/ /\ ~AlreadyDone(w) /\ ~tRow.verified
        /\ tRow' = [text |-> x.text, bound |-> x, drifted |-> FALSE, verified |-> FALSE]
        /\ tRun' = [tRun EXCEPT ![r].status = "SUCCEEDED"]
  /\ EndDelivery(w)
  /\ UNCHANGED <<tRemote, tSnap, tFetched>>

(* The delivery gives up without a write, or its process dies; or it goes  *)
(* on after its lease is gone.                                             *)
StopDelivery(w) ==
  /\ tWorker[w].pc # "idle"
  /\ EndDelivery(w)
  /\ UNCHANGED <<tRun, tRemote, tSnap, tRow, tFetched>>

------------------------------------------------------------------------------
(* Transcribers and staff. *)

CorrectAtTranskribus(r) ==
  /\ tRemote[r] = "recognised"
  /\ tRemote' = [tRemote EXCEPT ![r] = "corrected"]
  /\ UNCHANGED <<tRun, tSnap, tRow, tFetched, tWorker>>

(* edit_pending_text_result, edit_verified_text_result; the revision moves *)
(* with the text, so the row drifts from its binding.                      *)
EditRow ==
  /\ tRow.text \notin {"none", "edited"}
  /\ tRow' = [tRow EXCEPT !.text = "edited", !.drifted = TRUE]
  /\ UNCHANGED <<tRun, tRemote, tSnap, tFetched, tWorker>>

VerifyRow ==
  /\ tRow.text # "none" /\ ~tRow.verified
  /\ tRow' = [tRow EXCEPT !.verified = TRUE]
  /\ UNCHANGED <<tRun, tRemote, tSnap, tFetched, tWorker>>

(* resolve_audit_transkribus_run: the newest usable SUCCEEDED upload run. *)
AuditRuns == {r \in WithStatus({"SUCCEEDED"}) : Upload /\ Durable(r)}

(* A corrected/current attempt COMPLETED (see CorrectedCurrentSync). *)
FetchCorrected ==
  /\ TrActivation /\ AuditRuns # {}
  /\ LET r == Newest(AuditRuns)
         x == [job |-> r, text |-> tRemote[r]] IN
     /\ tRemote[r] # "none" /\ x \notin tFetched
     /\ tSnap' = Stored(x, "CORRECTED_CURRENT_SYNC")
     /\ tFetched' = tFetched \cup {x}
  /\ UNCHANGED <<tRun, tRemote, tRow, tWorker>>

(* activate_corrected_current_sync_attempt with both confirmations as the  *)
(* staff give them; the row has the text and revision of the preview, or   *)
(* nothing changes. A row of these runs is never without a binding.        *)
Activate(x, allowVerified, allowEdited) ==
  LET changes == tRow.text # x.text IN
  /\ x \in tFetched /\ tRow.text # "none"
  /\ tRow.bound # x \/ tRow.drifted
  /\ changes /\ tRow.verified => allowVerified
  /\ changes /\ tRow.drifted => allowEdited
  /\ tRow' = [text |-> x.text, bound |-> x, drifted |-> FALSE,
              verified |-> tRow.verified /\ ~changes]
  /\ UNCHANGED <<tRun, tRemote, tSnap, tFetched, tWorker>>

WorkOn(w) ==
  \/ Deliver(w)
  \/ \E r \in TrRuns : PlanResume(w, r) \/ PlanRecognitionOnly(w, r)
  \/ PlanNew(w) \/ StartRun(w) \/ MarkUploaded(w) \/ MarkRecognitionStarted(w)
  \/ FetchTranscript(w) \/ FailRun(w) \/ StoreSnapshot(w) \/ Associate(w)
  \/ CompleteLocally(w) \/ StopDelivery(w)

Next_Transkribus ==
  \/ \E w \in TrWorkers : WorkOn(w)
  \/ \E r \in TrRuns : CorrectAtTranskribus(r)
  \/ EditRow \/ VerifyRow \/ FetchCorrected
  \/ \E x \in Contents, v, e \in BOOLEAN : Activate(x, v, e)

Spec_Transkribus == Init_Transkribus /\ [][Next_Transkribus]_tVars

------------------------------------------------------------------------------
(* Properties *)

(* Every row, snapshot and program counter has one of its shapes. *)
TranskribusTypeOK ==
  /\ tRun \in [TrRuns ->
       [status : {"NONE", "STARTED", "UPLOADED", "RECOGNITION_STARTED", "SUCCEEDED",
                  "FAILED"},
        remote : BOOLEAN, job : BOOLEAN, assoc : Contents \cup {NoSnapshot}]]
  /\ tRemote \in [TrRuns -> {"none", "recognised", "corrected"}]
  /\ tSnap \in [Contents -> {"none", "AUTOMATIC_HTR", "CORRECTED_CURRENT_SYNC"}]
  /\ tRow \in [text : {"none"} \cup TrTexts, bound : Contents \cup {NoSnapshot},
               drifted : BOOLEAN, verified : BOOLEAN]
  /\ tFetched \subseteq Contents
  /\ tWorker \in [TrWorkers ->
       [pc : {"idle", "plan", "new", "upload", "recognise", "fetch", "store",
              "associate", "complete"},
        run : TrRuns \cup {0}, source : TrRuns \cup {0},
        snap : Contents \cup {NoSnapshot}, resumed : BOOLEAN, holds : BOOLEAN]]

(* What run r stands for never changes: two deliveries of one run, one of  *)
(* them stale, may fetch different transcripts of its job.                 *)
AssociationIsKept ==
  [][\A r \in TrRuns : Associated(r) => tRun'[r].assoc = tRun[r].assoc]_tVars

(* A delivery that finds its run SUCCEEDED is a duplicate of one that      *)
(* wrote the text; it leaves alone what the staff edited since.            *)
KeepsEdits ==
  \A w \in TrWorkers :
    (/\ tWorker[w].pc = "complete" /\ tWorker'[w].pc = "idle"
     /\ RunOf(w).status = "SUCCEEDED" /\ tRow.text = "edited")
    => tRow'.text = "edited"
EditsSurviveDuplicates == [][KeepsEdits]_tVars
=============================================================================
