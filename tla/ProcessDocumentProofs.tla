------------------------ MODULE ProcessDocumentProofs ------------------------
(***************************************************************************)
(* Proofs about ProcessDocument for every number of requests, workers,     *)
(* senders and message copies.                                             *)
(***************************************************************************)
EXTENDS ProcessDocument, TLAPS

-----------------------------------------------------------------------------
(* What any step may do to the request rows. *)

(* The document's first unused row is created, when no row is active. *)
CreatesRow(r, row) ==
  /\ req[r].status = "NONE"
  /\ \A q \in Requests : q < r => req[q].status \in Terminal
  /\ row.status = "QUEUED" /\ row.token = 0 /\ row.grants = 0 /\ row.lease = "none"

(* A waiting row is sent again, finalized or aged. *)
KeepsWaiting(r, row) ==
  /\ req[r].status \in Waiting /\ row.status \in Waiting
  /\ row = [req[r] EXCEPT !.status = row.status, !.enq = row.enq, !.aged = row.aged]

(* Only a request with an undeleted message is granted. *)
GrantsRow(r, row) ==
  /\ req[r].status \in Waiting /\ row.status = "RUNNING"
  /\ row.grants = req[r].grants + 1
  /\ row.payload = req[r].payload
  /\ \E slot \in Slots : <<r, slot>> \in queue

ExpiresLease(r, row) ==
  req[r].lease = "live" /\ row = [req[r] EXCEPT !.lease = "expired"]

ParksRow(r, row) ==
  /\ req[r].status = "RUNNING"
  /\ row = [req[r] EXCEPT !.status = "RECOVERY_REQUIRED", !.lease = "none"]

(* A parked request finishes only when the overlay is gone. *)
FinishesRow(r, row) ==
  /\ req[r].status \in {"RUNNING", "RECOVERY_REQUIRED"}
  /\ row.status \in Terminal /\ row.lease = "none"
  /\ row.grants = req[r].grants
  /\ row.payload = req[r].payload
  /\ req[r].status = "RECOVERY_REQUIRED" => doc' \in Ordinary

RowStep(r, row) ==
  \/ CreatesRow(r, row) \/ KeepsWaiting(r, row) \/ GrantsRow(r, row)
  \/ ExpiresLease(r, row) \/ ParksRow(r, row) \/ FinishesRow(r, row)

RequestStep ==
  \/ req' = req
  \/ \E r \in Requests, row \in Request :
       req' = [req EXCEPT ![r] = row] /\ RowStep(r, row)

(* Every step leaves the rows alone or takes one row along its lifecycle.  *)
LEMMA StepsFollowRows ==
  ASSUME TypeOK, RefersToCreated, LocalsAreSet, HeldMessagesRemain, Next
  PROVE  RequestStep
<1> USE DEF TypeOK, RequestStep
<1>1. ASSUME NEW s \in Senders, EnqueueCreate(s) PROVE RequestStep
  <2>1. CASE UNCHANGED req
    BY <2>1
  <2>2. CASE \E r \in Requests :
               /\ req[r].status = "NONE"
               /\ \A q \in Requests : q < r => req[q].status # "NONE"
               /\ req' = [req EXCEPT ![r] = [NoRequest EXCEPT !.status = "QUEUED",
                                                   !.payload = sn[s].payload]]
    <3>1. PICK r \in Requests :
               /\ req[r].status = "NONE"
               /\ \A q \in Requests : q < r => req[q].status # "NONE"
               /\ req' = [req EXCEPT ![r] = [NoRequest EXCEPT !.status = "QUEUED",
                                                   !.payload = sn[s].payload]]
      BY <2>2
    <3> DEFINE row == [NoRequest EXCEPT !.status = "QUEUED", !.payload = sn[s].payload]
    <3>2. row \in Request
      BY DEF Request, NoRequest, Sender, Statuses, Active, Waiting
    <3>3. \A q \in Requests : q < r => req[q].status \in Terminal
      BY <1>1, <3>1 DEF EnqueueCreate, NoActiveRequest, Request, Statuses
    <3>4. CreatesRow(r, row)
      BY <3>1, <3>3 DEF CreatesRow, NoRequest
    <3>5. QED
      BY <3>1, <3>2, <3>4 DEF RowStep
  <2>3. QED
    BY <1>1, <2>1, <2>2 DEF EnqueueCreate
<1>2. ASSUME NEW s \in Senders, EnqueueCoalesce(s) PROVE RequestStep
  <2>1. PICK r \in Requests :
          \/ req' = req
          \/ /\ req[r].status = "ENQUEUE_FAILED"
             /\ req' = [req EXCEPT ![r].status = "QUEUED", ![r].aged = FALSE]
    BY <1>2 DEF EnqueueCoalesce
  <2> DEFINE row == [req[r] EXCEPT !.status = "QUEUED", !.aged = FALSE]
  <2>2. row \in Request
    <3>1. req[r] \in Request
      OBVIOUS
    <3>2. QED
      BY <3>1 DEF Request, Statuses, Active, Waiting
  <2>3. req[r].status = "ENQUEUE_FAILED" => KeepsWaiting(r, row)
    BY ZenonT(60) DEF KeepsWaiting, Request, Waiting
  <2>4. QED
    BY <2>1, <2>2, <2>3 DEF RowStep
<1>3. ASSUME NEW s \in Senders, Finalize(s) PROVE RequestStep
  <2> DEFINE r == sn[s].r
             sent == [req[r] EXCEPT !.enq = TRUE, !.aged = FALSE]
             failed == [req[r] EXCEPT !.status = "ENQUEUE_FAILED", !.aged = FALSE]
  <2>1. r \in Requests
    BY <1>3 DEF Finalize, Sending
  <2>2. sent \in Request /\ failed \in Request
    BY <2>1, ZenonT(60) DEF Request, Statuses, Active, Waiting
  <2>3. UnclaimedQueued(r) => KeepsWaiting(r, sent) /\ KeepsWaiting(r, failed)
    BY <2>1 DEF KeepsWaiting, UnclaimedQueued, Request, Waiting
  <2>4. \/ req' = req
        \/ /\ UnclaimedQueued(r)
           /\ \/ req' = [req EXCEPT ![r] = sent]
              \/ req' = [req EXCEPT ![r] = failed]
    BY <1>3, <2>1 DEF Finalize
  <2>5. QED
    BY <2>1, <2>2, <2>3, <2>4 DEF RowStep
<1>4. ASSUME NEW r \in Requests, Age(r) PROVE RequestStep
  <2> DEFINE row == [req[r] EXCEPT !.aged = TRUE]
  <2>1. row \in Request
    BY <1>4 DEF Age, Stranded, Request, Statuses, Active, Waiting, Terminal
  <2>2. KeepsWaiting(r, row)
    BY <1>4 DEF KeepsWaiting, Age, Stranded, Request, Statuses, Active, Waiting, Terminal
  <2>3. req' = [req EXCEPT ![r] = row]
    BY <1>4 DEF Age, Stranded, Request, Statuses, Active, Waiting, Terminal
  <2>4. QED
    BY <2>1, <2>2, <2>3 DEF RowStep
<1>5. ASSUME NEW s \in Senders, NEW r \in Requests, Recover(s, r) PROVE RequestStep
  <2> DEFINE row == [req[r] EXCEPT !.status = "QUEUED", !.aged = FALSE, !.enq = FALSE]
  <2>1. row \in Request
    BY <1>5 DEF Recover, Recoverable, Stranded, Request, Statuses, Active, Waiting, Terminal
  <2>2. KeepsWaiting(r, row)
    BY <1>5 DEF KeepsWaiting, Recover, Recoverable, Stranded, Request, Statuses, Active, Waiting, Terminal
  <2>3. req' = [req EXCEPT ![r] = row]
    BY <1>5 DEF Recover, Recoverable, Stranded, Request, Statuses, Active, Waiting, Terminal
  <2>4. QED
    BY <2>1, <2>2, <2>3 DEF RowStep
<1>6. ASSUME NEW r \in Requests, LeaseExpires(r) PROVE RequestStep
  <2> DEFINE row == [req[r] EXCEPT !.lease = "expired"]
  <2>1. row \in Request
    BY <1>6 DEF LeaseExpires, Request, Statuses, Active, Waiting, Terminal
  <2>2. ExpiresLease(r, row)
    BY <1>6 DEF ExpiresLease, LeaseExpires, Request, Statuses, Active, Waiting, Terminal
  <2>3. req' = [req EXCEPT ![r] = row]
    BY <1>6 DEF LeaseExpires, Request, Statuses, Active, Waiting, Terminal
  <2>4. QED
    BY <2>1, <2>2, <2>3 DEF RowStep
<1>7. ASSUME NEW r \in Requests, LeaseLost(r), Fence(r) PROVE RequestStep
  <2> DEFINE row == [req[r] EXCEPT !.status = "RECOVERY_REQUIRED", !.lease = "none"]
  <2>1. row \in Request
    BY <1>7 DEF LeaseLost, Fence, Request, Statuses, Active, Waiting, Terminal
  <2>2. ParksRow(r, row)
    BY <1>7 DEF ParksRow, LeaseLost, Fence, Request, Statuses, Active, Waiting, Terminal
  <2>3. req' = [req EXCEPT ![r] = row]
    BY <1>7 DEF LeaseLost, Fence, Request, Statuses, Active, Waiting, Terminal
  <2>4. QED
    BY <2>1, <2>2, <2>3 DEF RowStep
<1>8. ASSUME NEW r \in Requests, AbandonRequest(r) PROVE RequestStep
  <2> DEFINE row == [req[r] EXCEPT !.status = "FAILED", !.token = 0, !.staff = TRUE]
  <2>1. row \in Request
    BY <1>8 DEF AbandonRequest, Request, Statuses, Active, Waiting, Terminal
  <2>2. FinishesRow(r, row)
    BY <1>8 DEF FinishesRow, AbandonRequest, Request, Statuses, Active, Waiting, Terminal
  <2>3. req' = [req EXCEPT ![r] = row]
    BY <1>8 DEF AbandonRequest, Request, Statuses, Active, Waiting, Terminal
  <2>4. QED
    BY <2>1, <2>2, <2>3 DEF RowStep
<1>9. ASSUME NEW w \in Workers, ClaimExecute(w) PROVE RequestStep
  <2> DEFINE r == wk[w].r
             row == [req[r] EXCEPT !.status = "RUNNING", !.lease = "live",
                                   !.token = req[r].grants + 1,
                                   !.grants = req[r].grants + 1,
                                   !.aged = FALSE, !.enq = FALSE]
  <2>1. r \in Requests
    BY <1>9 DEF ClaimExecute
  <2>2. row \in Request
    <3>1. req[r] \in Request
      BY <2>1
    <3>2. req[r].grants + 1 \in Nat
      BY <3>1 DEF Request
    <3>3. QED
      BY <3>1, <3>2 DEF Request, Statuses, Active, Waiting
  <2>3. GrantsRow(r, row)
    <3>1. <<r, wk[w].slot>> \in queue /\ wk[w].slot \in Slots
      BY <1>9, <2>1 DEF ClaimExecute, HeldMessagesRemain, RefersToCreated
    <3>2. QED
      BY <1>9, <2>1, <3>1, ZenonT(60) DEF GrantsRow, ClaimExecute, Request
  <2>4. req' = [req EXCEPT ![r] = row]
    BY <1>9, <2>1 DEF ClaimExecute, Request
  <2>5. QED
    BY <2>1, <2>2, <2>3, <2>4 DEF RowStep
<1>10. ASSUME NEW w \in Workers, Terminalize(w) PROVE RequestStep
  <2> DEFINE r == wk[w].r
             row == [req[r] EXCEPT !.status = TerminalStatus(wk[w].out),
                                   !.token = 0, !.lease = "none"]
  <2>1. r \in Requests
    BY <1>10 DEF Terminalize
  <2>2. TerminalStatus(wk[w].out) \in Terminal
    BY <1>10 DEF Terminalize, LocalsAreSet, TerminalStatus, Terminal
  <2>3. row \in Request
    <3>1. req[r] \in Request
      BY <2>1
    <3>2. TerminalStatus(wk[w].out) \in Statuses
      BY <2>2 DEF Statuses
    <3>3. QED
      BY <3>1, <3>2 DEF Request
  <2>4. \/ req' = req
        \/ /\ req[r].status \in {"RUNNING", "RECOVERY_REQUIRED"}
           /\ req[r].status = "RECOVERY_REQUIRED" => doc' \in Ordinary
           /\ req' = [req EXCEPT ![r] = row]
    BY <1>10, <2>1 DEF Terminalize
  <2>5. req' = req \/ FinishesRow(r, row)
    BY <2>1, <2>2, <2>4 DEF FinishesRow, Request
  <2>6. QED
    BY <2>1, <2>3, <2>4, <2>5 DEF RowStep
<1>11. ASSUME NEW s \in Senders, NEW r \in Requests, StaffRetry(s, r) PROVE RequestStep
  BY <1>8, <1>11 DEF StaffRetry
<1>12. ASSUME NEW r \in Requests, FenceCommand(r) \/ Abandon(r) PROVE RequestStep
  BY <1>7, <1>8, <1>12 DEF FenceCommand, Abandon
<1>13. ASSUME NEW w \in Workers, Claim(w) PROVE RequestStep
  <2>1. CASE ClaimFence(w)
    BY <1>7, <2>1 DEF ClaimFence
  <2>2. QED
    BY <1>9, <1>13, <2>1 DEF Claim, ClaimAck, ClaimDefer
<1>14. ASSUME NEW s \in Senders, SenderNext(s) PROVE RequestStep
  BY <1>1, <1>2, <1>3, <1>5, <1>11, <1>14
  DEF SenderNext, SenderStep, BeginUpload, SaveUpload, FailUpload, AssessReprocess,
      FallbackReprocess, AssessTranslation, SendAccepted, SendFailed, ReloadAndMark,
      MarkCoalesced, SenderCrash
<1>15. ASSUME NEW w \in Workers, Execute(w) PROVE req' = req
  BY <1>15
  DEF Execute, Phase1, SourcesInvalid, PageIncomplete, PersistFailure, PersistSuccess,
      TranslationClaim, RefuseTranslation, RestoreAfterAbort, PersistTranslation
<1>16. ASSUME NEW w \in Workers, WorkerNext(w) PROVE RequestStep
  BY <1>10, <1>13, <1>15, <1>16 DEF WorkerNext, Receive, Ack, WorkerCrash
<1>17. ASSUME EnvNext PROVE RequestStep
  BY <1>4, <1>6, <1>12, <1>17 DEF EnvNext, VerifyText
<1>18. QED
  BY <1>14, <1>16, <1>17 DEF Next

-----------------------------------------------------------------------------
(* What follows from the row steps alone. *)

LEMMA OrderIsKept ==
  ASSUME TypeOK, CreatedInOrder, GrantsMatchStatus, RequestStep
  PROVE  CreatedInOrder'
<1> USE DEF TypeOK, CreatedInOrder, Created
<1>1. CASE req' = req
  BY <1>1
<1>2. ASSUME NEW r \in Requests, NEW row \in Request,
             req' = [req EXCEPT ![r] = row], RowStep(r, row)
      PROVE  CreatedInOrder'
  <2>1. Requests \subseteq Nat
    BY MaxRequestsAssumption DEF Requests
  <2>2. CASE CreatesRow(r, row)
    BY <1>2, <2>1, <2>2 DEF CreatesRow, Terminal
  <2>3. CASE ~CreatesRow(r, row)
    <3>1. req[r].status \notin Terminal \cup {"NONE"} \/ row = req[r]
      BY <1>2, <2>3
      DEF RowStep, KeepsWaiting, GrantsRow, ExpiresLease, ParksRow, FinishesRow,
          Waiting, Terminal, GrantsMatchStatus, Request
    <3>2. QED
      BY <1>2, <2>1, <3>1
  <2>4. QED
    BY <2>2, <2>3
<1>3. QED
  BY <1>1, <1>2 DEF RequestStep

LEMMA GrantsAreKept ==
  ASSUME TypeOK, GrantsMatchStatus, RequestStep
  PROVE  GrantsMatchStatus'
<1> USE DEF TypeOK, GrantsMatchStatus
<1>1. CASE req' = req
  BY <1>1
<1>2. ASSUME NEW r \in Requests, NEW row \in Request,
             req' = [req EXCEPT ![r] = row], RowStep(r, row)
      PROVE  GrantsMatchStatus'
  <2>1. /\ row.grants <= 1
        /\ row.status \in Waiting \cup {"NONE"} => row.grants = 0
        /\ row.lease # "none" => row.status = "RUNNING"
    <3>1. req[r] \in Request
      OBVIOUS
    <3> USE <1>2, <3>1 DEF Request, Waiting, Terminal
    <3>2. CASE CreatesRow(r, row)
      BY <3>2 DEF CreatesRow
    <3>3. CASE KeepsWaiting(r, row)
      BY <3>3 DEF KeepsWaiting
    <3>4. CASE GrantsRow(r, row)
      BY <3>4 DEF GrantsRow
    <3>5. CASE ExpiresLease(r, row)
      BY <3>5 DEF ExpiresLease
    <3>6. CASE ParksRow(r, row)
      BY <3>6 DEF ParksRow
    <3>7. CASE FinishesRow(r, row)
      BY <3>7 DEF FinishesRow
    <3>8. QED
      BY <3>2, <3>3, <3>4, <3>5, <3>6, <3>7 DEF RowStep
  <2>2. QED
    BY <1>2, <2>1
<1>3. QED
  BY <1>1, <1>2 DEF RequestStep

(* A created row stays created with its payload, a terminal row stays as   *)
(* it is, a parked row stays parked or is terminal.                        *)
RowsAdvance ==
  \A r \in Requests :
    /\ Created(r) => Created(r)' /\ req'[r].payload = req[r].payload
    /\ req[r].status \in Terminal => req'[r] = req[r]
    /\ req[r].status \in Terminal \cup {"RECOVERY_REQUIRED"}
         => req'[r].status \in Terminal \cup {"RECOVERY_REQUIRED"}

LEMMA RowsAdvanceByStep ==
  ASSUME TypeOK, GrantsMatchStatus, RequestStep
  PROVE  RowsAdvance
<1> USE DEF TypeOK, RowsAdvance, Created
<1>1. CASE req' = req
  BY <1>1
<1>2. ASSUME NEW r \in Requests, NEW row \in Request,
             req' = [req EXCEPT ![r] = row], RowStep(r, row)
      PROVE  RowsAdvance
  <2>1. /\ row.status # "NONE"
        /\ req[r].status # "NONE" => row.payload = req[r].payload
        /\ req[r].status \notin Terminal
        /\ req[r].status = "RECOVERY_REQUIRED"
             => row.status \in Terminal \cup {"RECOVERY_REQUIRED"}
    <3>1. req[r] \in Request
      OBVIOUS
    <3>2. QED
      BY <1>2, <3>1
      DEF RowStep, CreatesRow, KeepsWaiting, GrantsRow, ExpiresLease, ParksRow,
          FinishesRow, Waiting, Terminal, Request, GrantsMatchStatus
  <2>2. QED
    BY <1>2, <2>1
<1>3. QED
  BY <1>1, <1>2 DEF RequestStep

-----------------------------------------------------------------------------
(* What any step may do to the workers, the senders and the queue. *)

LEMMA IdleTypes ==
  /\ IdleWorker \in Worker /\ IdleWorker.pc = "idle"
  /\ IdleSender \in Sender /\ IdleSender.pc = "idle"
BY DEF IdleWorker, Worker, Outcomes, IdleSender, Sender

(* The locals of a worker after its step. *)
WellHeld(rec) ==
  rec.pc # "idle" =>
    /\ rec.r \in Requests /\ rec.slot \in Slots /\ Created(rec.r)
    /\ rec.pc = "ack" => req'[rec.r].status \in Terminal \cup {"RECOVERY_REQUIRED"}
    /\ rec.pc # "ack" /\ req[rec.r].status \in Waiting \cup {"RUNNING"}
         => <<rec.r, rec.slot>> \in queue
    /\ rec.pc = "terminalize" => rec.out \in Terminal \cup {"NOOP"}
    /\ rec.pc = "restore" => rec.out \in {"NOOP", "RETRYABLE"}
    /\ rec.pc = "provider" /\ ~IsTranslation(rec.r)
         => rec.prior \in ProcessingStates \ {"RECOVERY_REQUIRED"}

WorkerStep ==
  \/ wk' = wk
  \/ \E w \in Workers, rec \in Worker : wk' = [wk EXCEPT ![w] = rec] /\ WellHeld(rec)

(* What the worker lemmas assume. *)
WorkerContext == TypeOK /\ RefersToCreated /\ LocalsAreSet /\ HeldMessagesRemain

LEMMA ReleaseIsWorkerStep ==
  ASSUME NEW w \in Workers, Release(w)
  PROVE  WorkerStep
<1>1. IdleWorker \in Worker /\ WellHeld(IdleWorker)
  BY DEF IdleWorker, Worker, WellHeld, Outcomes
<1>2. QED
  BY <1>1 DEF Release, WorkerStep

LEMMA ConcludeIsWorkerStep ==
  ASSUME WorkerContext, NEW w \in Workers, wk[w].pc \notin {"idle", "ack"},
         NEW out \in Terminal \cup {"NOOP"}, Conclude(w, out)
  PROVE  WorkerStep
<1> DEFINE rec == [wk[w] EXCEPT !.pc = "terminalize", !.out = out, !.prior = "none"]
<1>1. wk[w] \in Worker /\ wk \in [Workers -> Worker]
  BY DEF WorkerContext, TypeOK
<1>2. rec \in Worker
  BY <1>1 DEF Worker, Outcomes, Terminal
<1>3. rec.pc = "terminalize" /\ rec.r = wk[w].r /\ rec.slot = wk[w].slot /\ rec.out = out
  BY <1>1 DEF Worker
<1>4. WellHeld(rec)
  BY <1>3
  DEF WellHeld, WorkerContext, TypeOK, RefersToCreated, HeldMessagesRemain
<1>5. wk' = [wk EXCEPT ![w] = rec]
  BY <1>1 DEF Conclude, Worker
<1>6. QED
  BY <1>2, <1>4, <1>5 DEF WorkerStep

LEMMA AcknowledgeIsWorkerStep ==
  ASSUME WorkerContext, NEW w \in Workers, wk[w].pc # "idle", Acknowledge(w),
         req'[wk[w].r].status \in Terminal \cup {"RECOVERY_REQUIRED"}
  PROVE  WorkerStep
<1> DEFINE rec == [IdleWorker EXCEPT !.pc = "ack", !.r = wk[w].r, !.slot = wk[w].slot]
<1>1. wk[w] \in Worker
  BY DEF WorkerContext, TypeOK
<1>2. rec \in Worker
  BY <1>1 DEF Worker, IdleWorker, Outcomes
<1>3. WellHeld(rec)
  BY DEF WellHeld, WorkerContext, TypeOK, RefersToCreated, IdleWorker
<1>4. QED
  BY <1>2, <1>3 DEF WorkerStep, Acknowledge

LEMMA StepsFollowWorkers ==
  ASSUME WorkerContext, Next
  PROVE  WorkerStep
<1>1. ASSUME NEW w \in Workers, NEW m \in queue, Receive(w, m) PROVE WorkerStep
  <2> DEFINE rec == [IdleWorker EXCEPT !.pc = "claim", !.r = m[1], !.slot = m[2]]
  <2>1. m \in Requests \X Slots /\ Created(m[1]) /\ m = <<m[1], m[2]>>
    BY DEF WorkerContext, TypeOK, RefersToCreated
  <2>2. rec \in Worker
    <3>1. m[1] \in Nat /\ m[2] \in Slots
      BY <2>1, MaxRequestsAssumption DEF Requests
    <3>2. QED
      BY <3>1, IdleTypes DEF Worker
  <2>3. WellHeld(rec)
    BY <2>1 DEF WellHeld, IdleWorker
  <2>4. QED
    BY <1>1, <2>2, <2>3 DEF WorkerStep, Receive
<1>2. ASSUME NEW w \in Workers, Claim(w) PROVE WorkerStep
  <2>1. CASE ClaimAck(w)
    BY <2>1, AcknowledgeIsWorkerStep DEF ClaimAck
  <2>2. CASE ClaimExecute(w)
    <3> DEFINE rec == [wk[w] EXCEPT !.pc = "start",
                                    !.token = req[wk[w].r].grants + 1]
    <3>1. /\ wk[w] \in Worker /\ wk \in [Workers -> Worker]
          /\ wk[w].pc = "claim" /\ wk[w].r \in Requests /\ req[wk[w].r] \in Request
      BY <2>2 DEF WorkerContext, TypeOK, ClaimExecute
    <3>2. req[wk[w].r].grants + 1 \in Nat
      BY <3>1 DEF Request
    <3>3. rec \in Worker
      BY <3>1, <3>2 DEF Worker
    <3>4. rec.pc = "start" /\ rec.r = wk[w].r /\ rec.slot = wk[w].slot
      BY <3>1 DEF Worker
    <3>5. WellHeld(rec)
      BY <3>1, <3>4
      DEF WellHeld, WorkerContext, TypeOK, RefersToCreated, HeldMessagesRemain
    <3>6. wk' = [wk EXCEPT ![w] = rec]
      BY <2>2, <3>1 DEF ClaimExecute, Worker
    <3>7. QED
      BY <3>3, <3>5, <3>6 DEF WorkerStep
  <2>3. CASE ClaimFence(w)
    <3>1. wk[w].pc = "claim" /\ wk[w].r \in Requests /\ req \in [Requests -> Request]
      BY <2>3 DEF ClaimFence, WorkerContext, TypeOK
    <3>2. req'[wk[w].r].status = "RECOVERY_REQUIRED"
      BY <2>3, <3>1 DEF ClaimFence, Fence, Request
    <3>3. QED
      BY <2>3, <3>1, <3>2, AcknowledgeIsWorkerStep DEF ClaimFence
  <2>4. CASE ClaimDefer(w)
    BY <2>4, ReleaseIsWorkerStep DEF ClaimDefer
  <2>5. QED
    BY <1>2, <2>1, <2>2, <2>3, <2>4 DEF Claim
<1>3. ASSUME NEW w \in Workers, Execute(w) PROVE WorkerStep
  <2> USE ConcludeIsWorkerStep, ReleaseIsWorkerStep DEF Terminal
  <2>1. CASE Phase1(w)
    <3>1. CASE Conclude(w, "NOOP")
      BY <2>1, <3>1 DEF Phase1
    <3>2. CASE /\ doc # "RECOVERY_REQUIRED"
               /\ wk' = [wk EXCEPT ![w].pc = "provider", ![w].prior = doc]
      <4> DEFINE rec == [wk[w] EXCEPT !.pc = "provider", !.prior = doc]
      <4>1. /\ wk[w] \in Worker /\ wk \in [Workers -> Worker]
            /\ wk[w].pc = "start" /\ doc \in ProcessingStates
        BY <2>1 DEF WorkerContext, TypeOK, Phase1
      <4>2. rec \in Worker
        BY <4>1 DEF Worker
      <4>3. /\ rec.pc = "provider" /\ rec.r = wk[w].r /\ rec.slot = wk[w].slot
            /\ rec.prior = doc
        BY <4>1 DEF Worker
      <4>4. WellHeld(rec)
        BY <3>2, <4>1, <4>3
        DEF WellHeld, WorkerContext, TypeOK, RefersToCreated, HeldMessagesRemain
      <4>5. wk' = [wk EXCEPT ![w] = rec]
        BY <3>2, <4>1 DEF Worker
      <4>6. QED
        BY <4>2, <4>4, <4>5 DEF WorkerStep
    <3>3. QED
      BY <2>1, <3>1, <3>2 DEF Phase1
  <2>2. CASE SourcesInvalid(w) \/ PageIncomplete(w) \/ PersistFailure(w)
    BY <2>2 DEF SourcesInvalid, PageIncomplete, PersistFailure
  <2>3. ASSUME NEW src \in SourceResults, NEW heb \in TranslationResults,
               PersistSuccess(w, src, heb)
        PROVE  WorkerStep
    BY <2>3 DEF PersistSuccess, OutcomeFor
  <2>4. CASE TranslationClaim(w)
    <3>1. CASE Conclude(w, "NOOP") \/ Release(w)
      BY <2>4, <3>1 DEF TranslationClaim
    <3>2. CASE wk' = [wk EXCEPT ![w].pc = "provider"]
      <4> DEFINE rec == [wk[w] EXCEPT !.pc = "provider"]
      <4>1. /\ wk[w] \in Worker /\ wk \in [Workers -> Worker]
            /\ wk[w].pc = "start" /\ IsTranslation(wk[w].r)
        BY <2>4 DEF WorkerContext, TypeOK, TranslationClaim
      <4>2. rec \in Worker
        BY <4>1 DEF Worker
      <4>3. rec.pc = "provider" /\ rec.r = wk[w].r /\ rec.slot = wk[w].slot
        BY <4>1 DEF Worker
      <4>4. WellHeld(rec)
        BY <4>1, <4>3
        DEF WellHeld, WorkerContext, TypeOK, RefersToCreated, HeldMessagesRemain
      <4>5. wk' = [wk EXCEPT ![w] = rec]
        BY <3>2, <4>1 DEF Worker
      <4>6. QED
        BY <4>2, <4>4, <4>5 DEF WorkerStep
    <3>3. QED
      BY <2>4, <3>1, <3>2 DEF TranslationClaim
  <2>5. CASE RefuseTranslation(w)
    <3>1. CASE Conclude(w, "NOOP")
      BY <2>5, <3>1 DEF RefuseTranslation
    <3>2. ASSUME NEW out \in {"NOOP", "RETRYABLE"},
                 wk' = [wk EXCEPT ![w].pc = "restore", ![w].out = out]
          PROVE  WorkerStep
      <4> DEFINE rec == [wk[w] EXCEPT !.pc = "restore", !.out = out]
      <4>1. /\ wk[w] \in Worker /\ wk \in [Workers -> Worker]
            /\ wk[w].pc = "provider"
        BY <2>5 DEF WorkerContext, TypeOK, RefuseTranslation
      <4>2. rec \in Worker
        BY <4>1 DEF Worker, Outcomes
      <4>3. /\ rec.pc = "restore" /\ rec.r = wk[w].r /\ rec.slot = wk[w].slot
            /\ rec.out = out
        BY <4>1 DEF Worker
      <4>4. WellHeld(rec)
        BY <4>1, <4>3
        DEF WellHeld, WorkerContext, TypeOK, RefersToCreated, HeldMessagesRemain
      <4>5. wk' = [wk EXCEPT ![w] = rec]
        BY <3>2, <4>1 DEF Worker
      <4>6. QED
        BY <4>2, <4>4, <4>5 DEF WorkerStep
    <3>3. QED
      BY <2>5, <3>1, <3>2 DEF RefuseTranslation
  <2>6. CASE RestoreAfterAbort(w)
    <3>1. wk[w].out \in {"NOOP", "RETRYABLE"} /\ wk[w].pc = "restore"
      BY <2>6 DEF RestoreAfterAbort, WorkerContext, LocalsAreSet
    <3>2. QED
      BY <2>6, <3>1 DEF RestoreAfterAbort
  <2>7. ASSUME NEW heb \in TranslationResults, PersistTranslation(w, heb)
        PROVE  WorkerStep
    BY <2>7 DEF PersistTranslation
  <2>8. QED
    BY <1>3, <2>1, <2>2, <2>3, <2>4, <2>5, <2>6, <2>7 DEF Execute
<1>4. ASSUME NEW w \in Workers, Terminalize(w) PROVE WorkerStep
  <2> DEFINE r == wk[w].r
  <2>1. r \in Requests /\ req \in [Requests -> Request] /\ wk[w].pc = "terminalize"
    BY <1>4 DEF Terminalize, WorkerContext, TypeOK
  <2>2. TerminalStatus(wk[w].out) \in Terminal
    BY <2>1 DEF WorkerContext, LocalsAreSet, TerminalStatus, Terminal
  <2>3. CASE Release(w)
    BY <2>3, ReleaseIsWorkerStep
  <2>4. CASE Acknowledge(w)
    <3>1. req'[r].status \in Terminal \/ Release(w)
      BY <1>4, <2>1, <2>2 DEF Terminalize, Request
    <3>2. QED
      BY <2>1, <2>4, <3>1, AcknowledgeIsWorkerStep, ReleaseIsWorkerStep
  <2>5. QED
    BY <1>4, <2>3, <2>4 DEF Terminalize
<1>5. ASSUME NEW w \in Workers, Ack(w) \/ WorkerCrash(w) PROVE WorkerStep
  BY <1>5, ReleaseIsWorkerStep DEF Ack, WorkerCrash
<1>6. ASSUME NEW s \in Senders, SenderNext(s) PROVE wk' = wk
  BY <1>6
  DEF SenderNext, SenderStep, BeginUpload, SaveUpload, FailUpload, AssessReprocess,
      FallbackReprocess, AssessTranslation, EnqueueCreate, EnqueueCoalesce,
      SendAccepted, SendFailed, Finalize, ReloadAndMark, MarkCoalesced, SenderCrash,
      Recover, StaffRetry
<1>7. ASSUME EnvNext PROVE wk' = wk
  BY <1>7 DEF EnvNext, Age, LeaseExpires, FenceCommand, Abandon, VerifyText
<1>8. QED
  BY <1>1, <1>2, <1>3, <1>4, <1>5, <1>6, <1>7 DEF Next, WorkerNext, WorkerStep
(* The locals of a sender after its step. *)
WellSent(rec) ==
  /\ rec.pc \in Sending => rec.r \in Requests /\ req'[rec.r].status # "NONE"
  /\ rec.pc = "save" => rec.seen \in ProcessingStates

SenderMove ==
  \/ sn' = sn
  \/ \E s \in Senders, rec \in Sender : sn' = [sn EXCEPT ![s] = rec] /\ WellSent(rec)

LEMMA DoneIsSenderMove ==
  ASSUME NEW s \in Senders, Done(s)
  PROVE  SenderMove
<1>1. IdleSender \in Sender /\ WellSent(IdleSender)
  BY DEF IdleSender, Sender, WellSent, Sending
<1>2. QED
  BY <1>1 DEF Done, SenderMove

(* A sender goes on with a created row of its choice. *)
LEMMA GoOnIsSenderMove ==
  ASSUME TypeOK, NEW s \in Senders, NEW pc \in Sending, NEW r \in Requests,
         req'[r].status # "NONE",
         sn' = [sn EXCEPT ![s].pc = pc, ![s].r = r]
  PROVE  SenderMove
<1> DEFINE rec == [sn[s] EXCEPT !.pc = pc, !.r = r]
<1>1. sn[s] \in Sender /\ sn \in [Senders -> Sender]
  BY DEF TypeOK
<1>2. r \in Nat
  BY MaxRequestsAssumption DEF Requests
<1>3. rec \in Sender
  BY <1>1, <1>2 DEF Sender, Sending
<1>4. WellSent(rec)
  BY <1>1 DEF WellSent, Sending, Sender
<1>5. sn' = [sn EXCEPT ![s] = rec]
  BY <1>1 DEF Sender
<1>6. QED
  BY <1>3, <1>4, <1>5 DEF SenderMove

LEMMA GoToIsSenderMove ==
  ASSUME TypeOK, NEW s \in Senders, NEW pc \in Sending, sn[s].pc \in Sending,
         req'[sn[s].r].status # "NONE", GoTo(s, pc)
  PROVE  SenderMove
<1>1. sn[s] \in Sender /\ sn \in [Senders -> Sender] /\ sn[s].r \in Requests
  BY DEF TypeOK
<1>2. sn' = [sn EXCEPT ![s].pc = pc, ![s].r = sn[s].r]
  BY <1>1 DEF GoTo, Sender
<1>3. QED
  BY <1>1, <1>2, GoOnIsSenderMove

LEMMA StepsFollowSenders ==
  ASSUME TypeOK, RefersToCreated, RowsAdvance, Next
  PROVE  SenderMove
<1> USE DoneIsSenderMove
<1>1. \A s \in Senders : sn[s] \in Sender
  BY DEF TypeOK
<1>2. ASSUME NEW s \in Senders, BeginUpload(s) PROVE SenderMove
  <2> DEFINE rec == [IdleSender EXCEPT !.pc = "save", !.payload = "UPLOAD",
                                       !.seen = doc, !.seenUp = up]
  <2>1. rec \in Sender /\ rec.pc = "save" /\ rec.seen = doc
    BY IdleTypes DEF Sender, AllPayloads, TypeOK
  <2>2. rec \in Sender /\ WellSent(rec)
    BY <2>1 DEF TypeOK, WellSent, Sending
  <2>3. QED
    BY <1>2, <2>2 DEF BeginUpload, SenderMove
<1>3. ASSUME NEW s \in Senders, NEW payload \in AllPayloads,
             NEW pc \in {"assess", "enqueue", "fallback"},
             sn' = [sn EXCEPT ![s] = [IdleSender EXCEPT !.payload = payload, !.pc = pc]]
      PROVE  SenderMove
  <2> DEFINE rec == [IdleSender EXCEPT !.payload = payload, !.pc = pc]
  <2>1. rec \in Sender /\ rec.pc = pc
    BY IdleTypes DEF Sender
  <2>2. WellSent(rec)
    BY <2>1 DEF WellSent, Sending
  <2>3. QED
    BY <1>3, <2>1, <2>2 DEF SenderMove
<1>4. ASSUME NEW s \in Senders, SaveUpload(s) PROVE SenderMove
  BY <1>3, <1>4 DEF SaveUpload, AllPayloads, IdleSender
<1>5. ASSUME NEW s \in Senders, NEW payload \in AllPayloads, AssessReprocess(s, payload)
      PROVE  SenderMove
  BY <1>3, <1>5 DEF AssessReprocess
<1>6. ASSUME NEW s \in Senders, AssessTranslation(s) PROVE SenderMove
  BY <1>3, <1>6 DEF AssessTranslation, AllPayloads, Done, IdleSender
<1>7. ASSUME NEW s \in Senders, FallbackReprocess(s) PROVE SenderMove
  <2>1. CASE Done(s)
    BY <2>1
  <2>2. CASE ~Done(s)
    <3>1. PICK r \in Requests : /\ req[r].status = "QUEUED" /\ req' = req
                                /\ sn' = [sn EXCEPT ![s].pc = "mark", ![s].r = r]
      BY <1>7, <2>2 DEF FallbackReprocess
    <3>2. QED
      BY <3>1, GoOnIsSenderMove DEF Created, Sending
  <2>3. QED
    BY <2>1, <2>2
<1>8. ASSUME NEW s \in Senders, EnqueueCreate(s) PROVE SenderMove
  <2>1. CASE Done(s)
    BY <2>1
  <2>2. CASE ~Done(s)
    <3>1. PICK r \in Requests :
            /\ req' = [req EXCEPT ![r] = [NoRequest EXCEPT !.status = "QUEUED",
                                                !.payload = sn[s].payload]]
            /\ sn' = [sn EXCEPT ![s].pc = "send", ![s].r = r]
      BY <1>8, <2>2 DEF EnqueueCreate
    <3>2. req'[r].status # "NONE"
      BY <3>1 DEF Created, NoRequest, TypeOK
    <3>3. QED
      BY <3>1, <3>2, GoOnIsSenderMove DEF Sending
  <2>3. QED
    BY <2>1, <2>2
<1>9. ASSUME NEW s \in Senders, EnqueueCoalesce(s) PROVE SenderMove
  <2>1. CASE Done(s)
    BY <2>1
  <2>2. CASE ~Done(s)
    <3>1. PICK r \in Requests :
            /\ req[r].status \in Active
            /\ \E pc \in {"send", "mark"} : sn' = [sn EXCEPT ![s].pc = pc, ![s].r = r]
      BY <1>9, <2>2 DEF EnqueueCoalesce
    <3>2. req'[r].status # "NONE"
      BY <3>1 DEF RowsAdvance, Created, Active, Waiting
    <3>3. QED
      BY <3>1, <3>2, GoOnIsSenderMove DEF Sending
  <2>3. QED
    BY <2>1, <2>2
<1>10. ASSUME NEW s \in Senders,
              SendAccepted(s) \/ SendFailed(s) \/ Finalize(s) PROVE SenderMove
  <2>1. PICK pc \in Sending : sn[s].pc \in Sending /\ GoTo(s, pc)
    BY <1>10 DEF SendAccepted, SendFailed, Finalize, Sending
  <2>2. req'[sn[s].r].status # "NONE"
    BY <2>1 DEF RefersToCreated, RowsAdvance, TypeOK, Created
  <2>3. QED
    BY <2>1, <2>2, GoToIsSenderMove
<1>11. ASSUME NEW s \in Senders,
              \/ FailUpload(s) \/ ReloadAndMark(s) \/ MarkCoalesced(s) \/ SenderCrash(s)
       PROVE  SenderMove
  BY <1>11 DEF FailUpload, ReloadAndMark, MarkCoalesced, SenderCrash
<1>12. ASSUME NEW s \in Senders, NEW r \in Requests, Recover(s, r) PROVE SenderMove
  <2> DEFINE rec == [IdleSender EXCEPT !.pc = "send", !.r = r, !.payload = req[r].payload]
  <2>1. r \in Nat /\ req[r] \in Request
    BY MaxRequestsAssumption DEF Requests, TypeOK
  <2>2. req[r].payload \in AllPayloads \cup {"NONE"}
    BY <2>1 DEF Request
  <2>3. rec \in Sender /\ rec.pc = "send" /\ rec.r = r
    BY <2>1, <2>2, IdleTypes DEF Sender
  <2>4. req'[r].status # "NONE"
    BY <1>12 DEF Recover, Recoverable, Stranded, RowsAdvance, Created
  <2>5. WellSent(rec)
    BY <2>3, <2>4 DEF WellSent
  <2>6. QED
    BY <1>12, <2>3, <2>5 DEF Recover, SenderMove
<1>13. ASSUME NEW s \in Senders, NEW r \in Requests, StaffRetry(s, r) PROVE SenderMove
  <2> DEFINE rec == [IdleSender EXCEPT !.pc = "assess", !.payload = req[r].payload]
  <2>1. req[r] \in Request
    BY DEF TypeOK
  <2>2. req[r].payload \in AllPayloads \cup {"NONE"}
    BY <2>1 DEF Request
  <2>3. rec \in Sender /\ WellSent(rec)
    <3>1. rec \in Sender /\ rec.pc = "assess"
      BY <2>2, IdleTypes DEF Sender
    <3>2. QED
      BY <3>1 DEF WellSent, Sending
  <2>4. QED
    BY <1>13, <2>3 DEF StaffRetry, SenderMove
<1>14. ASSUME NEW w \in Workers, WorkerNext(w) PROVE sn' = sn
  BY <1>14
  DEF WorkerNext, Receive, Claim, ClaimAck, ClaimExecute, ClaimFence, ClaimDefer,
      Execute, Phase1, SourcesInvalid, PageIncomplete, PersistFailure, PersistSuccess,
      TranslationClaim, RefuseTranslation, RestoreAfterAbort, PersistTranslation,
      Terminalize, Ack, WorkerCrash
<1>15. ASSUME EnvNext PROVE sn' = sn
  BY <1>15 DEF EnvNext, Age, LeaseExpires, FenceCommand, Abandon, VerifyText
<1>16. QED
  BY <1>2, <1>4, <1>5, <1>6, <1>7, <1>8, <1>9, <1>10, <1>11, <1>12, <1>13, <1>14, <1>15
  DEF Next, SenderNext, SenderStep, SenderMove
QueueStep ==
  \/ /\ queue \subseteq queue' /\ queue' \subseteq Requests \X Slots
     /\ \A m \in queue' : m \in queue \/ Created(m[1])
  \/ \E w \in Workers :
       wk[w].pc = "ack" /\ queue' = queue \ {<<wk[w].r, wk[w].slot>>}

LEMMA StepsFollowQueue ==
  ASSUME TypeOK, RefersToCreated, Next
  PROVE  QueueStep
<1> USE DEF QueueStep
<1>1. CASE UNCHANGED queue
  BY <1>1 DEF TypeOK
<1>2. ASSUME NEW r \in Requests, Created(r), Deliver(r) PROVE QueueStep
  <2>1. CASE UNCHANGED queue
    BY <1>1, <2>1
  <2>2. CASE \E m \in {r} \X Slots : queue' = queue \cup {m}
    BY <1>2, <2>2 DEF TypeOK
  <2>3. QED
    BY <1>2, <2>1, <2>2 DEF Deliver
<1>3. ASSUME NEW s \in Senders, SendAccepted(s) \/ SendFailed(s) PROVE QueueStep
  <2>1. sn[s].r \in Requests /\ Created(sn[s].r)
    BY <1>3 DEF SendAccepted, SendFailed, TypeOK, RefersToCreated, Sending
  <2>2. QED
    BY <1>1, <1>2, <1>3, <2>1 DEF SendAccepted, SendFailed
<1>4. ASSUME NEW w \in Workers, Ack(w) PROVE QueueStep
  BY <1>1, <1>4 DEF Ack
<1>5. ASSUME NEW s \in Senders, SenderNext(s) PROVE QueueStep
  BY <1>1, <1>3, <1>5
  DEF SenderNext, SenderStep, BeginUpload, SaveUpload, FailUpload, AssessReprocess,
      FallbackReprocess, AssessTranslation, EnqueueCreate, EnqueueCoalesce, Finalize,
      ReloadAndMark, MarkCoalesced, SenderCrash, Recover, StaffRetry
<1>6. ASSUME NEW w \in Workers, WorkerNext(w) PROVE QueueStep
  BY <1>1, <1>4, <1>6
  DEF WorkerNext, Receive, Claim, ClaimAck, ClaimExecute, ClaimFence, ClaimDefer,
      Execute, Phase1, SourcesInvalid, PageIncomplete, PersistFailure, PersistSuccess,
      TranslationClaim, RefuseTranslation, RestoreAfterAbort, PersistTranslation,
      Terminalize, WorkerCrash
<1>7. ASSUME EnvNext PROVE QueueStep
  BY <1>1, <1>7 DEF EnvNext, Age, LeaseExpires, FenceCommand, Abandon, VerifyText
<1>8. QED
  BY <1>5, <1>6, <1>7 DEF Next

-----------------------------------------------------------------------------
(* What any step may do to the Document row and its text. *)

LEMMA RollupIsOrdinary ==
  \A t, engine : Rollup(t, engine) \in Ordinary /\ RollupDisplayed(t) \in Ordinary
BY DEF Rollup, RollupDisplayed, Ordinary

(* The overlay appears only with a parked request.                         *)
DocumentStep ==
  /\ doc' \in ProcessingStates
  /\ "stale_upload" \notin Events /\ doc' = "RECOVERY_REQUIRED"
       => \/ doc = "RECOVERY_REQUIRED"
          \/ \E r \in Requests : req'[r].status = "RECOVERY_REQUIRED"

LEMMA StepsFollowDocument ==
  ASSUME TypeOK, LocalsAreSet, Next
  PROVE  DocumentStep
<1> USE DEF DocumentStep
<1>1. CASE UNCHANGED doc
  BY <1>1 DEF TypeOK
<1>2. CASE doc' \in Ordinary \cup {"PROCESSING"}
  BY <1>2 DEF Ordinary, ProcessingStates
<1>3. ASSUME NEW r \in Requests, Fence(r) PROVE DocumentStep
  <2>1. req'[r].status = "RECOVERY_REQUIRED"
    BY <1>3 DEF Fence, TypeOK, Request
  <2>2. QED
    BY <1>1, <1>3, <2>1 DEF Fence, ProcessingStates
<1>4. ASSUME NEW r \in Requests, AbandonRequest(r) PROVE DocumentStep
  BY <1>2, <1>4 DEF AbandonRequest
<1>5. ASSUME NEW s \in Senders, SaveUpload(s) PROVE DocumentStep
  <2>1. sn[s].seen \in ProcessingStates
    BY <1>5 DEF SaveUpload, LocalsAreSet
  <2>2. QED
    BY <1>2, <1>5, <2>1 DEF SaveUpload
<1>6. ASSUME NEW s \in Senders, SenderNext(s) PROVE DocumentStep
  BY <1>1, <1>2, <1>4, <1>5, <1>6
  DEF SenderNext, SenderStep, BeginUpload, FailUpload, AssessReprocess,
      FallbackReprocess, AssessTranslation, EnqueueCreate, EnqueueCoalesce, SendAccepted,
      SendFailed, Finalize, ReloadAndMark, MarkCoalesced, SenderCrash, Recover,
      StaffRetry, Ordinary
<1>7. ASSUME NEW w \in Workers, NEW src \in SourceResults, NEW heb \in TranslationResults,
             PersistSuccess(w, src, heb)
      PROVE  DocumentStep
  <2>1. wk[w].prior \in ProcessingStates \ {"RECOVERY_REQUIRED"}
    BY <1>7 DEF PersistSuccess, LocalsAreSet
  <2>2. CASE doc' = RestorePrior(doc, wk[w].prior)
    BY <2>1, <2>2 DEF RestorePrior, ProcessingStates, TypeOK
  <2>3. QED
    BY <1>1, <1>2, <1>7, <2>2, RollupIsOrdinary DEF PersistSuccess
<1>8. ASSUME NEW w \in Workers, Execute(w) PROVE DocumentStep
  BY <1>1, <1>2, <1>7, <1>8, RollupIsOrdinary
  DEF Execute, Phase1, SourcesInvalid, PageIncomplete, PersistFailure,
      TranslationClaim, RefuseTranslation, RestoreAfterAbort, PersistTranslation, Ordinary
<1>9. ASSUME NEW w \in Workers, Claim(w) PROVE DocumentStep
  <2>1. CASE ClaimFence(w)
    BY <1>3, <2>1 DEF ClaimFence, TypeOK
  <2>2. QED
    BY <1>1, <1>9, <2>1 DEF Claim, ClaimAck, ClaimExecute, ClaimDefer
<1>10. ASSUME NEW w \in Workers, WorkerNext(w) PROVE DocumentStep
  BY <1>1, <1>8, <1>9, <1>10 DEF WorkerNext, Receive, Terminalize, Ack, WorkerCrash
<1>11. ASSUME EnvNext PROVE DocumentStep
  BY <1>1, <1>3, <1>4, <1>11
  DEF EnvNext, Age, LeaseExpires, FenceCommand, Abandon, VerifyText
<1>12. QED
  BY <1>6, <1>10, <1>11 DEF Next

LEMMA TextIsTyped ==
  ASSUME TypeOK, Next
  PROVE  text' \in TextRecord /\ up' \in {"UPLOADING", "UPLOADED", "FAILED"}
<1> DEFINE Goal == text' \in TextRecord /\ up' \in {"UPLOADING", "UPLOADED", "FAILED"}
<1>1. text \in TextRecord /\ up \in {"UPLOADING", "UPLOADED", "FAILED"}
  BY DEF TypeOK
<1>2. ASSUME NEW s \in Senders, SenderNext(s) PROVE Goal
  BY <1>1, <1>2
  DEF SenderNext, SenderStep, BeginUpload, SaveUpload, FailUpload, AssessReprocess,
      FallbackReprocess, AssessTranslation, EnqueueCreate, EnqueueCoalesce, SendAccepted,
      SendFailed, Finalize, ReloadAndMark, MarkCoalesced, SenderCrash, Recover, StaffRetry
<1>3. ASSUME NEW w \in Workers, wk[w].r \in Nat, Execute(w) PROVE Goal
  <2>1. UNCHANGED up
    BY <1>3
    DEF Execute, Phase1, SourcesInvalid, PageIncomplete, PersistFailure, PersistSuccess,
        TranslationClaim, RefuseTranslation, RestoreAfterAbort, PersistTranslation
  <2>2. \A pages \in BOOLEAN : [text EXCEPT !.pages = pages] \in TextRecord
    BY <1>1 DEF TextRecord
  <2>3. SaveFailure(text, wk[w].r) \in TextRecord
    BY <1>1, <1>3 DEF SaveFailure, TextRecord
  <2>4. ASSUME NEW src \in SourceResults, NEW heb \in TranslationResults
        PROVE  SaveResults(text, src, heb, wk[w].r) \in TextRecord
    <3>1. src \in RowStates /\ heb \in RowStates
      BY SourceResultsAssumption, TranslationResultsAssumption DEF RowStates
    <3>2. (IF Hebrew THEN src ELSE heb) \in RowStates
      BY <3>1
    <3>3. QED
      BY <1>1, <1>3, <3>1, <3>2 DEF SaveResults, TextRecord
  <2>5. ASSUME NEW heb \in TranslationResults
        PROVE  [text EXCEPT !.heb = heb, !.by = wk[w].r] \in TextRecord
    <3>1. heb \in RowStates
      BY TranslationResultsAssumption DEF RowStates
    <3>2. QED
      BY <1>1, <1>3, <3>1 DEF TextRecord
  <2>6. QED
    BY <1>1, <1>3, <2>1, <2>2, <2>3, <2>4, <2>5
    DEF Execute, Phase1, SourcesInvalid, PageIncomplete, PersistFailure, PersistSuccess,
        TranslationClaim, RefuseTranslation, RestoreAfterAbort, PersistTranslation
<1>4. ASSUME NEW w \in Workers, WorkerNext(w) PROVE Goal
  <2>1. wk[w].r \in Nat
    BY DEF TypeOK, Worker
  <2>2. QED
    BY <1>1, <1>3, <1>4, <2>1
    DEF WorkerNext, Receive, Claim, ClaimAck, ClaimExecute, ClaimFence, ClaimDefer,
        Terminalize, Ack, WorkerCrash
<1>5. ASSUME EnvNext PROVE Goal
  <2>1. ASSUME NEW type \in {"src", "heb"}, VerifyText(type) PROVE Goal
    BY <1>1, <2>1 DEF VerifyText, TextRecord
  <2>2. QED
    BY <1>1, <1>5, <2>1 DEF EnvNext, Age, LeaseExpires, FenceCommand, Abandon
<1>6. QED
  BY <1>2, <1>4, <1>5 DEF Next
-----------------------------------------------------------------------------
(* The inductive invariant. *)

LEMMA InitEstablishesInvariant == Init => InductiveInvariant
<1> SUFFICES ASSUME Init PROVE InductiveInvariant
  OBVIOUS
<1>1. NoRequest \in Request
  BY DEF NoRequest, Request, Statuses
<1>2. /\ req = [r \in Requests |-> NoRequest] /\ queue = {}
      /\ wk = [w \in Workers |-> IdleWorker] /\ sn = [s \in Senders |-> IdleSender]
  BY DEF Init
<1>3. \A fail \in BOOLEAN : NoText \in TextRecord /\ SaveFailure(NoText, 0) \in TextRecord
  BY DEF NoText, TextRecord, RowStates, SaveFailure
<1>4. \A heb \in {"failed", "usable"} : SaveResults(NoText, "usable", heb, 0) \in TextRecord
  BY DEF NoText, TextRecord, RowStates, SaveResults
<1>5. /\ doc \in ProcessingStates /\ up \in {"UPLOADING", "UPLOADED", "FAILED"}
      /\ text \in TextRecord
  BY <1>3, <1>4, RollupIsOrdinary DEF Init, ProcessingStates
<1>6. TypeOK
  BY <1>1, <1>2, <1>5, IdleTypes DEF TypeOK, Sending
<1>7. RefersToCreated /\ LocalsAreSet /\ HeldMessagesRemain
  BY <1>2, IdleTypes DEF RefersToCreated, LocalsAreSet, HeldMessagesRemain, Sending
<1>8. CreatedInOrder /\ GrantsMatchStatus /\ RunningKeepsMessage
  BY <1>2 DEF CreatedInOrder, Created, GrantsMatchStatus, RunningKeepsMessage, NoRequest
<1>9. QED
  BY <1>6, <1>7, <1>8 DEF InductiveInvariant

LEMMA StepKeepsInvariant ==
  ASSUME InductiveInvariant, [Next]_vars
  PROVE  InductiveInvariant'
<1>1. CASE UNCHANGED vars
  BY <1>1
  DEF vars, InductiveInvariant, TypeOK, RefersToCreated, LocalsAreSet, CreatedInOrder,
      GrantsMatchStatus, HeldMessagesRemain, RunningKeepsMessage, Created, IsTranslation
<1>2. CASE Next
  <2> USE DEF InductiveInvariant
  <2>1. RequestStep
    BY <1>2, StepsFollowRows
  <2>2. RowsAdvance
    BY <2>1, RowsAdvanceByStep
  <2>3. WorkerStep /\ SenderMove /\ QueueStep
    BY <1>2, <2>2, StepsFollowWorkers, StepsFollowSenders, StepsFollowQueue
    DEF WorkerContext
  <2>4. queue' \subseteq Requests \X Slots
    BY <2>3 DEF QueueStep, TypeOK
  <2>5. ASSUME NEW w \in Workers
        PROVE  wk'[w] \in Worker /\ (wk'[w] = wk[w] \/ WellHeld(wk'[w]))
    BY <2>3 DEF WorkerStep, TypeOK
  <2>6. ASSUME NEW s \in Senders
        PROVE  sn'[s] \in Sender /\ (sn'[s] = sn[s] \/ WellSent(sn'[s]))
    BY <2>3 DEF SenderMove, TypeOK
  <2>7. TypeOK'
    <3>1. req' \in [Requests -> Request]
      BY <2>1 DEF RequestStep, TypeOK
    <3>2. wk' \in [Workers -> Worker] /\ sn' \in [Senders -> Sender]
      BY <2>3 DEF WorkerStep, SenderMove, TypeOK
    <3>3. doc' \in ProcessingStates
      BY <1>2, StepsFollowDocument DEF DocumentStep
    <3>4. \A w \in Workers : wk'[w].pc # "idle" => wk'[w].r \in Requests
      BY <2>5 DEF WellHeld, TypeOK
    <3>5. \A s \in Senders : sn'[s].pc \in Sending => sn'[s].r \in Requests
      BY <2>6 DEF WellSent, TypeOK
    <3>6. QED
      BY <1>2, <2>4, <3>1, <3>2, <3>3, <3>4, <3>5, TextIsTyped DEF TypeOK
  <2>8. RefersToCreated'
    <3>1. \A m \in queue' : Created(m[1])'
      BY <2>2, <2>3, <2>4 DEF QueueStep, RefersToCreated, RowsAdvance, TypeOK
    <3>2. ASSUME NEW w \in Workers, wk'[w].pc # "idle"
          PROVE  Created(wk[w].r)' /\ wk'[w].slot \in Slots
      BY <2>2, <2>5, <3>2 DEF WellHeld, RefersToCreated, RowsAdvance, TypeOK, Created
    <3>3. ASSUME NEW s \in Senders, sn'[s].pc \in Sending
          PROVE  Created(sn[s].r)'
      BY <2>2, <2>6, <3>3 DEF WellSent, RefersToCreated, RowsAdvance, TypeOK, Created
    <3>4. QED
      BY <3>1, <3>2, <3>3 DEF RefersToCreated
  <2>9. LocalsAreSet'
    <3>1. ASSUME NEW w \in Workers
          PROVE  /\ wk'[w].pc = "terminalize" => wk'[w].out \in Terminal \cup {"NOOP"}
                 /\ wk'[w].pc = "restore" => wk'[w].out \in {"NOOP", "RETRYABLE"}
                 /\ wk'[w].pc = "provider" /\ ~IsTranslation(wk[w].r)'
                      => wk'[w].prior \in ProcessingStates \ {"RECOVERY_REQUIRED"}
      <4>1. wk'[w].pc # "idle" =>
              wk'[w].r \in Requests /\ req'[wk'[w].r].payload = req[wk'[w].r].payload
        BY <2>2, <2>5 DEF WellHeld, RefersToCreated, RowsAdvance, TypeOK
      <4>2. QED
        BY <2>5, <4>1 DEF WellHeld, LocalsAreSet, IsTranslation
    <3>2. ASSUME NEW s \in Senders, sn'[s].pc = "save"
          PROVE  sn'[s].seen \in ProcessingStates
      BY <2>6, <3>2 DEF WellSent, LocalsAreSet
    <3>3. QED
      BY <3>1, <3>2 DEF LocalsAreSet
  <2>10. CreatedInOrder' /\ GrantsMatchStatus'
    BY <2>1, OrderIsKept, GrantsAreKept
  <2>11. ASSUME NEW r \in Requests, req'[r].status \in Waiting \cup {"RUNNING"}, Created(r)
         PROVE  /\ req[r].status \in Waiting \cup {"RUNNING"}
                /\ \A slot \in Slots : <<r, slot>> \in queue => <<r, slot>> \in queue'
    <3>1. req[r].status \in Waiting \cup {"RUNNING"}
      BY <2>2, <2>11
      DEF RowsAdvance, Waiting, Terminal, TypeOK, Request, Statuses, Active, Created
    <3>2. QED
      BY <2>3, <3>1 DEF QueueStep, HeldMessagesRemain, TypeOK, Waiting, Terminal
  <2>12. HeldMessagesRemain'
    <3>1. ASSUME NEW w \in Workers, wk'[w].pc = "ack"
          PROVE  req'[wk'[w].r].status \in Terminal \cup {"RECOVERY_REQUIRED"}
      BY <2>2, <2>5, <3>1 DEF WellHeld, HeldMessagesRemain, RowsAdvance, TypeOK
    <3>2. ASSUME NEW w \in Workers, wk'[w].pc \notin {"idle", "ack"},
                 req'[wk'[w].r].status \in Waiting \cup {"RUNNING"}
          PROVE  <<wk'[w].r, wk'[w].slot>> \in queue'
      <4>1. /\ wk'[w].r \in Requests /\ wk'[w].slot \in Slots /\ Created(wk'[w].r)
            /\ req[wk'[w].r].status \in Waiting \cup {"RUNNING"}
                 => <<wk'[w].r, wk'[w].slot>> \in queue
        BY <2>5, <3>2 DEF WellHeld, HeldMessagesRemain, RefersToCreated, TypeOK
      <4>2. QED
        BY <2>11, <3>2, <4>1
    <3>3. QED
      BY <3>1, <3>2 DEF HeldMessagesRemain
  <2>13. RunningKeepsMessage'
    <3>1. ASSUME NEW r \in Requests, req'[r].status = "RUNNING"
          PROVE  \E slot \in Slots : <<r, slot>> \in queue
      BY <2>1, <3>1, ZenonT(60)
      DEF RequestStep, RowStep, CreatesRow, KeepsWaiting, GrantsRow, ExpiresLease,
          ParksRow, FinishesRow, RunningKeepsMessage, GrantsMatchStatus, Waiting,
          Terminal, TypeOK, Request
    <3>2. ASSUME NEW r \in Requests, req'[r].status = "RUNNING"
          PROVE  Created(r)
      BY <3>1, <3>2 DEF RefersToCreated
    <3>3. QED
      BY <2>11, <3>1, <3>2 DEF RunningKeepsMessage
  <2>14. QED
    BY <2>7, <2>8, <2>9, <2>10, <2>12, <2>13
<1>3. QED
  BY <1>1, <1>2

(* The inductive invariant holds in every reachable state, for any number  *)
(* of requests, workers, senders and message copies.                       *)
THEOREM InvariantHolds == Spec => []InductiveInvariant
<1>1. Init => InductiveInvariant
  BY InitEstablishesInvariant
<1>2. InductiveInvariant /\ [Next]_vars => InductiveInvariant'
  BY StepKeepsInvariant
<1>3. QED
  BY <1>1, <1>2, PTL DEF Spec
-----------------------------------------------------------------------------
(* Safety properties. *)

(* Type correctness of the request table, the Document, the queue and the  *)
(* locals of every process.                                                *)
THEOREM TypesAreCorrect == Spec => []TypeOK
<1>1. InductiveInvariant => TypeOK
  BY DEF InductiveInvariant
<1>2. QED
  BY <1>1, InvariantHolds, PTL

(* process_document_request_enqueue never leaves a document with two       *)
(* unfinished requests.                                                    *)
THEOREM OneRequestIsActive == Spec => []OneActiveRequest
<1>1. InductiveInvariant => OneActiveRequest
  <2> SUFFICES ASSUME InductiveInvariant, NEW r \in Requests, NEW q \in Requests,
                      req[r].status \in Active, req[q].status \in Active
               PROVE  r = q
    BY DEF OneActiveRequest
  <2>1. Requests \subseteq Nat
    BY MaxRequestsAssumption DEF Requests
  <2>2. Created(r) /\ Created(q)
    BY DEF Created, Active, Waiting
  <2>3. ~(r < q) /\ ~(q < r)
    BY <2>2 DEF InductiveInvariant, CreatedInOrder, Active, Waiting, Terminal
  <2>4. QED
    BY <2>1, <2>3
<1>2. QED
  BY <1>1, InvariantHolds, PTL

(* claim_process_document_request never hands a request to a second        *)
(* execution.                                                              *)
THEOREM RequestsExecuteAtMostOnce == Spec => []ExecutedAtMostOnce
<1>1. InductiveInvariant => ExecutedAtMostOnce
  BY DEF InductiveInvariant, GrantsMatchStatus, ExecutedAtMostOnce
<1>2. QED
  BY <1>1, InvariantHolds, PTL

(* No acknowledgement takes away the last message of a RUNNING request.    *)
THEOREM RunningRequestsKeepAMessage == Spec => []RunningKeepsMessage
<1>1. InductiveInvariant => RunningKeepsMessage
  BY DEF InductiveInvariant
<1>2. QED
  BY <1>1, InvariantHolds, PTL

(* Without stale saves of the Document, its overlay always has a parked    *)
(* request: the abandon service and terminalization agree on when it goes. *)
THEOREM OverlayHasParkedRequest ==
  ASSUME "stale_upload" \notin Events
  PROVE  Spec => []OverlayIsParked
<1>1. Init => OverlayIsParked
  BY RollupIsOrdinary DEF Init, OverlayIsParked, Ordinary
<1>2. InductiveInvariant /\ OverlayIsParked /\ [Next]_vars => OverlayIsParked'
  <2> SUFFICES ASSUME InductiveInvariant, OverlayIsParked, [Next]_vars,
                      doc' = "RECOVERY_REQUIRED"
               PROVE  \E r \in Requests : req'[r].status = "RECOVERY_REQUIRED"
    BY DEF OverlayIsParked
  <2>1. CASE UNCHANGED vars
    BY <2>1 DEF vars, OverlayIsParked
  <2>2. CASE Next
    <3>1. RequestStep /\ DocumentStep
      BY <2>2, StepsFollowRows, StepsFollowDocument DEF InductiveInvariant
    <3>2. CASE doc = "RECOVERY_REQUIRED"
      <4>1. PICK r \in Requests : req[r].status = "RECOVERY_REQUIRED"
        BY <3>2 DEF OverlayIsParked
      <4>2. req'[r].status = "RECOVERY_REQUIRED"
        BY <3>1, <4>1, ZenonT(60)
        DEF RequestStep, RowStep, CreatesRow, KeepsWaiting, GrantsRow, ExpiresLease,
            ParksRow, FinishesRow, Waiting, Ordinary, InductiveInvariant, TypeOK, Request,
            GrantsMatchStatus
      <4>3. QED
        BY <4>2
    <3>3. QED
      BY <3>1, <3>2 DEF DocumentStep
  <2>3. QED
    BY <2>1, <2>2
<1>3. QED
  BY <1>1, <1>2, InvariantHolds, PTL DEF Spec

(* Late finalization, late terminalization and resends never touch a       *)
(* finished request row.                                                   *)
THEOREM FinishedRequestsStay == Spec => TerminalIsFinal
<1> DEFINE Step == \A r \in Requests : req[r].status \in Terminal => req'[r] = req[r]
<1>1. InductiveInvariant /\ [Next]_vars => [Step]_vars
  <2> SUFFICES ASSUME InductiveInvariant, Next PROVE Step
    BY DEF vars
  <2>1. RowsAdvance
    BY StepsFollowRows, RowsAdvanceByStep DEF InductiveInvariant
  <2>2. QED
    BY <2>1 DEF RowsAdvance
<1>2. QED
  BY <1>1, InvariantHolds, PTL DEF Spec, TerminalIsFinal

(* automated_process_document_persist_is_allowed keeps a worker that       *)
(* outlived its request from writing text.                                 *)
THEOREM OnlyLatestRequestWritesText == Spec => TextWrittenByLatest
<1> DEFINE Changed == <<text.src, text.heb, text.fail>>' # <<text.src, text.heb, text.fail>>
           Latest == \E r \in Requests :
                       /\ text'.by = r
                       /\ req[r].status \in {"RUNNING", "RECOVERY_REQUIRED"}
                       /\ \A q \in Requests : q > r => req[q].status = "NONE"
<1>1. InductiveInvariant /\ [Next]_vars => [Changed => Latest]_vars
  <2> SUFFICES ASSUME InductiveInvariant, Next, Changed PROVE Latest
    BY DEF vars
  <2>1. text \in TextRecord
    BY DEF InductiveInvariant, TypeOK
  <2>2. ASSUME NEW w \in Workers, wk[w].pc # "idle", PersistIsAllowed(w), text'.by = wk[w].r
        PROVE  Latest
    <3>1. wk[w].r \in Requests /\ req[wk[w].r].status \in {"RUNNING", "RECOVERY_REQUIRED"}
      BY <2>2 DEF PersistIsAllowed, InductiveInvariant, TypeOK
    <3>2. \A q \in Requests : q > wk[w].r => req[q].status = "NONE"
      BY <3>1, MaxRequestsAssumption
      DEF InductiveInvariant, CreatedInOrder, Created, Terminal, Requests
    <3>3. QED
      BY <2>2, <3>1, <3>2
  <2>3. ASSUME NEW s \in Senders, SenderNext(s) PROVE FALSE
    BY <2>3
    DEF SenderNext, SenderStep, BeginUpload, SaveUpload, FailUpload, AssessReprocess,
        FallbackReprocess, AssessTranslation, EnqueueCreate, EnqueueCoalesce, SendAccepted,
        SendFailed, Finalize, ReloadAndMark, MarkCoalesced, SenderCrash, Recover, StaffRetry
  <2>4. ASSUME EnvNext PROVE FALSE
    <3>1. ASSUME NEW type \in {"src", "heb"}, VerifyText(type) PROVE FALSE
      BY <2>1, <3>1 DEF VerifyText, TextRecord
    <3>2. QED
      BY <2>4, <3>1 DEF EnvNext, Age, LeaseExpires, FenceCommand, Abandon
  <2>5. ASSUME NEW w \in Workers, WorkerNext(w) PROVE Latest
    <3>1. \A pages \in BOOLEAN : text' # [text EXCEPT !.pages = pages]
      BY <2>1 DEF TextRecord
    <3>2. CASE PersistFailure(w)
      BY <2>1, <2>2, <3>2 DEF PersistFailure, SaveFailure, TextRecord
    <3>3. ASSUME NEW src \in SourceResults, NEW heb \in TranslationResults,
                 PersistSuccess(w, src, heb)
          PROVE  Latest
      BY <2>1, <2>2, <3>1, <3>3 DEF PersistSuccess, SaveResults, TextRecord
    <3>4. ASSUME NEW heb \in TranslationResults, PersistTranslation(w, heb)
          PROVE  Latest
      BY <2>1, <2>2, <3>4 DEF PersistTranslation, TextRecord
    <3>5. CASE PageIncomplete(w)
      BY <3>1, <3>5 DEF PageIncomplete
    <3>6. QED
      BY <2>5, <3>2, <3>3, <3>4, <3>5
      DEF WorkerNext, Receive, Claim, ClaimAck, ClaimExecute, ClaimFence, ClaimDefer,
          Execute, Phase1, SourcesInvalid, TranslationClaim, RefuseTranslation,
          RestoreAfterAbort, Terminalize, Ack, WorkerCrash
  <2>6. QED
    BY <2>3, <2>4, <2>5 DEF Next
<1>2. QED
  BY <1>1, InvariantHolds, PTL DEF Spec, TextWrittenByLatest

-----------------------------------------------------------------------------
(* What a worker that holds a grant may rely on. *)

Working == {"start", "provider", "restore", "terminalize"}

(* A request has one working worker at most, and was granted to it.        *)
WorkersAreExclusive ==
  \A w \in Workers : wk[w].pc \in Working =>
    /\ req[wk[w].r].grants = 1
    /\ \A v \in Workers : wk[v].pc \in Working /\ wk[v].r = wk[w].r => v = w

(* Only its own steps change a worker.                                     *)
LEMMA WorkersMoveThemselves ==
  ASSUME TypeOK, Next, NEW w \in Workers, wk'[w] # wk[w]
  PROVE  WorkerNext(w)
<1>1. wk \in [Workers -> Worker]
  BY DEF TypeOK
<1>2. ASSUME NEW s \in Senders, SenderNext(s) PROVE wk' = wk
  BY <1>2
  DEF SenderNext, SenderStep, BeginUpload, SaveUpload, FailUpload, AssessReprocess,
      FallbackReprocess, AssessTranslation, EnqueueCreate, EnqueueCoalesce, SendAccepted,
      SendFailed, Finalize, ReloadAndMark, MarkCoalesced, SenderCrash, Recover, StaffRetry
<1>3. ASSUME EnvNext PROVE wk' = wk
  BY <1>3 DEF EnvNext, Age, LeaseExpires, FenceCommand, Abandon, VerifyText
<1>4. ASSUME NEW v \in Workers, WorkerNext(v), v # w PROVE wk'[w] = wk[w]
  BY <1>1, <1>4
  DEF WorkerNext, Receive, Claim, ClaimAck, ClaimExecute, ClaimFence, ClaimDefer,
      Execute, Phase1, SourcesInvalid, PageIncomplete, PersistFailure, PersistSuccess,
      TranslationClaim, RefuseTranslation, RestoreAfterAbort, PersistTranslation,
      Terminalize, Ack, WorkerCrash, Release, Conclude, Acknowledge
<1>5. QED
  BY <1>2, <1>3, <1>4 DEF Next

(* A worker starts to work with a grant, and works on for the same request *)
(* and token.                                                              *)
LEMMA WorkGoesOn ==
  ASSUME TypeOK, NEW w \in Workers, WorkerNext(w), wk'[w].pc \in Working
  PROVE  \/ ClaimExecute(w) /\ wk'[w].r = wk[w].r
         \/ /\ wk[w].pc \in Working
            /\ wk'[w].r = wk[w].r /\ wk'[w].token = wk[w].token
<1> USE DEF Working
<1>1. wk \in [Workers -> Worker] /\ wk[w] \in Worker
  BY DEF TypeOK
<1>2. IdleWorker.pc = "idle"
  BY IdleTypes
<1>3. ASSUME NEW out, Conclude(w, out)
      PROVE  wk'[w].r = wk[w].r /\ wk'[w].token = wk[w].token
  BY <1>1, <1>3 DEF Conclude, Worker
<1>4. ASSUME Release(w) \/ Acknowledge(w) PROVE FALSE
  BY <1>1, <1>2, <1>4 DEF Release, Acknowledge, IdleWorker
<1>5. CASE Execute(w)
  <2> DEFINE Same == wk'[w].r = wk[w].r /\ wk'[w].token = wk[w].token
  <2>1. ASSUME Phase1(w) PROVE Same
    BY <1>1, <1>3, <2>1 DEF Phase1, Worker
  <2>2. ASSUME \/ SourcesInvalid(w) \/ PageIncomplete(w) \/ PersistFailure(w)
               \/ \E src \in SourceResults, heb \in TranslationResults :
                    PersistSuccess(w, src, heb)
               \/ \E heb \in TranslationResults : PersistTranslation(w, heb)
        PROVE  Same
    BY <1>3, <2>2
    DEF SourcesInvalid, PageIncomplete, PersistFailure, PersistSuccess, PersistTranslation
  <2>3. ASSUME TranslationClaim(w) PROVE Same
    BY <1>1, <1>3, <1>4, <2>3 DEF TranslationClaim, Worker
  <2>4. ASSUME RefuseTranslation(w) PROVE Same
    BY <1>1, <1>3, <2>4 DEF RefuseTranslation, Worker
  <2>5. ASSUME RestoreAfterAbort(w) PROVE Same
    BY <1>3, <1>4, <2>5 DEF RestoreAfterAbort
  <2>6. wk[w].pc \in Working
    BY <1>5
    DEF Execute, Phase1, SourcesInvalid, PageIncomplete, PersistFailure, PersistSuccess,
        TranslationClaim, RefuseTranslation, RestoreAfterAbort, PersistTranslation
  <2>7. QED
    BY <1>5, <2>1, <2>2, <2>3, <2>4, <2>5, <2>6 DEF Execute
<1>6. CASE ClaimExecute(w)
  BY <1>1, <1>6 DEF ClaimExecute, Worker
<1>7. CASE \E m \in queue : Receive(w, m)
  BY <1>1, <1>7 DEF Receive, IdleWorker
<1>8. ASSUME Terminalize(w) \/ Ack(w) \/ WorkerCrash(w) PROVE FALSE
  BY <1>4, <1>8 DEF Terminalize, Ack, WorkerCrash
<1>9. ASSUME ClaimAck(w) \/ ClaimFence(w) \/ ClaimDefer(w) PROVE FALSE
  BY <1>4, <1>9 DEF ClaimAck, ClaimFence, ClaimDefer
<1>10. QED
  BY <1>5, <1>6, <1>7, <1>8, <1>9 DEF WorkerNext, Claim

(* The grants of a row are never taken back.                               *)
LEMMA GrantsGrow ==
  ASSUME TypeOK, GrantsMatchStatus, RequestStep, NEW r \in Requests, req[r].grants = 1
  PROVE  /\ req'[r].grants = 1
         /\ req'[r].status \in {"RUNNING", "RECOVERY_REQUIRED"} =>
              /\ req[r].status \in {"RUNNING", "RECOVERY_REQUIRED"}
              /\ req'[r].token = req[r].token
<1> USE DEF TypeOK
<1>1. CASE req' = req
  BY <1>1
<1>2. ASSUME NEW q \in Requests, NEW row \in Request,
             req' = [req EXCEPT ![q] = row], RowStep(q, row)
      PROVE  /\ req'[r].grants = 1
             /\ req'[r].status \in {"RUNNING", "RECOVERY_REQUIRED"} =>
                  /\ req[r].status \in {"RUNNING", "RECOVERY_REQUIRED"}
                  /\ req'[r].token = req[r].token
  <2>1. CASE q # r
    BY <1>2, <2>1
  <2>2. CASE q = r
    <3>1. req'[r] = row /\ req[r] \in Request /\ req[r].status \notin Waiting \cup {"NONE"}
      BY <1>2, <2>2 DEF GrantsMatchStatus
    <3>2. QED
      BY <1>2, <2>2, <3>1, ZenonT(60)
      DEF RowStep, CreatesRow, KeepsWaiting, GrantsRow, ExpiresLease, ParksRow, FinishesRow,
          Request, Terminal, GrantsMatchStatus
  <2>3. QED
    BY <2>1, <2>2
<1>3. QED
  BY <1>1, <1>2 DEF RequestStep

(* A claimed row never waits again. *)
LEMMA ClaimedStaysClaimed ==
  ASSUME TypeOK, RequestStep, NEW r \in Requests, req[r].status \notin Waiting \cup {"NONE"}
  PROVE  req'[r].status \notin Waiting \cup {"NONE"}
<1>1. ASSUME NEW q \in Requests, NEW row \in Request,
             req' = [req EXCEPT ![q] = row], RowStep(q, row)
      PROVE  req'[r].status \notin Waiting \cup {"NONE"}
  <2>1. CASE q # r
    BY <1>1, <2>1 DEF TypeOK
  <2>2. CASE q = r
    <3>1. req'[r] = row /\ req[r] \in Request
      BY <1>1, <2>2 DEF TypeOK
    <3>2. row.status \notin Waiting \cup {"NONE"}
      BY <1>1, <2>2, <3>1
      DEF RowStep, CreatesRow, KeepsWaiting, GrantsRow, ExpiresLease, ParksRow, FinishesRow,
          Request, Waiting, Terminal
    <3>3. QED
      BY <3>1, <3>2
  <2>3. QED
    BY <2>1, <2>2
<1>2. QED
  BY <1>1 DEF RequestStep

(* Who may write, could write before. *)
LEMMA PermissionIsOld ==
  ASSUME InductiveInvariant, WorkersAreExclusive, Next,
         NEW w \in Workers, wk[w].pc \in Working, wk'[w].pc \in Working, PersistIsAllowed(w)'
  PROVE  PersistIsAllowed(w)
<1>1. wk'[w].r = wk[w].r /\ wk'[w].token = wk[w].token
  BY WorkersMoveThemselves, WorkGoesOn DEF InductiveInvariant, ClaimExecute, Working
<1>2. wk[w].r \in Requests /\ req[wk[w].r].grants = 1
  BY DEF InductiveInvariant, TypeOK, WorkersAreExclusive, Working
<1>3. RequestStep
  BY StepsFollowRows DEF InductiveInvariant
<1>4. QED
  BY <1>1, <1>2, <1>3, GrantsGrow DEF PersistIsAllowed, InductiveInvariant

(* Two workers never may write. *)
LEMMA OneMayWrite ==
  ASSUME InductiveInvariant, WorkersAreExclusive,
         NEW w \in Workers, wk[w].pc \in Working, PersistIsAllowed(w),
         NEW v \in Workers, wk[v].pc \in Working, PersistIsAllowed(v)
  PROVE  v = w
<1>1. /\ wk[w].r \in Requests /\ wk[v].r \in Requests
      /\ req[wk[w].r].status \in {"RUNNING", "RECOVERY_REQUIRED"}
      /\ req[wk[v].r].status \in {"RUNNING", "RECOVERY_REQUIRED"}
  BY DEF InductiveInvariant, TypeOK, PersistIsAllowed, Working
<1>2. wk[w].r \in Nat /\ wk[v].r \in Nat
  BY <1>1, MaxRequestsAssumption DEF Requests
<1>3. ~(wk[w].r < wk[v].r) /\ ~(wk[v].r < wk[w].r)
  BY <1>1 DEF InductiveInvariant, CreatedInOrder, Created, Terminal
<1>4. wk[w].r = wk[v].r
  BY <1>1, <1>2, <1>3
<1>5. QED
  BY <1>4 DEF WorkersAreExclusive

LEMMA ExclusionIsKept ==
  ASSUME InductiveInvariant, WorkersAreExclusive, [Next]_vars
  PROVE  WorkersAreExclusive'
<1>1. CASE UNCHANGED vars
  BY <1>1 DEF vars, WorkersAreExclusive
<1>2. CASE Next
  <2>1. RequestStep
    BY <1>2, StepsFollowRows DEF InductiveInvariant
  <2>2. ASSUME NEW w \in Workers, wk'[w].pc \in Working
        PROVE  /\ wk'[w].r \in Requests
               /\ \/ ClaimExecute(w) /\ wk'[w].r = wk[w].r
                  \/ wk[w].pc \in Working /\ wk'[w].r = wk[w].r
    BY <1>2, <2>2, WorkersMoveThemselves, WorkGoesOn
    DEF InductiveInvariant, TypeOK, ClaimExecute, Working
  <2>3. ASSUME NEW w \in Workers, ClaimExecute(w)
        PROVE  /\ req[wk[w].r].grants = 0 /\ req'[wk[w].r].grants = 1
               /\ wk'[w] # wk[w] /\ \A v \in Workers : wk'[v] # wk[v] => v = w
    <3>1. wk[w].r \in Requests /\ wk \in [Workers -> Worker] /\ req \in [Requests -> Request]
      BY <2>3 DEF ClaimExecute, InductiveInvariant, TypeOK
    <3>2. req[wk[w].r].grants = 0 /\ req[wk[w].r].grants \in Nat
      BY <2>3, <3>1 DEF ClaimExecute, InductiveInvariant, GrantsMatchStatus, Request
    <3>3. req'[wk[w].r].grants = req[wk[w].r].grants + 1
      <4> DEFINE r == wk[w].r
                 row == [req[r] EXCEPT !.status = "RUNNING", !.lease = "live",
                                       !.token = req[r].grants + 1,
                                       !.grants = req[r].grants + 1,
                                       !.aged = FALSE, !.enq = FALSE]
      <4>1. req' = [req EXCEPT ![r] = row]
        BY <2>3, <3>1 DEF ClaimExecute, Request
      <4>2. row.grants = req[r].grants + 1
        BY <3>1 DEF Request
      <4> QED  BY <3>1, <4>1, <4>2
    <3>4. wk'[w] # wk[w] /\ \A v \in Workers : wk'[v] # wk[v] => v = w
      BY <2>3, <3>1 DEF ClaimExecute, Worker
    <3> QED  BY <3>2, <3>3, <3>4
  <2>4. ASSUME NEW w \in Workers, wk[w].pc \in Working
        PROVE  req[wk[w].r].grants = 1 /\ req'[wk[w].r].grants = 1
    BY <2>1, <2>4, GrantsGrow DEF InductiveInvariant, TypeOK, WorkersAreExclusive, Working
  <2>5. ASSUME NEW w \in Workers, wk'[w].pc \in Working
        PROVE  req'[wk'[w].r].grants = 1
    BY <2>2, <2>3, <2>4, <2>5
  <2>6. ASSUME NEW w \in Workers, wk'[w].pc \in Working,
               NEW v \in Workers, wk'[v].pc \in Working, wk'[v].r = wk'[w].r
        PROVE  v = w
    <3>1. CASE ClaimExecute(w)
      <4>1. CASE ClaimExecute(v)
        BY <2>3, <3>1, <4>1
      <4>2. CASE wk[v].pc \in Working
        BY <2>2, <2>3, <2>4, <2>6, <3>1, <4>2
      <4>3. QED
        BY <2>2, <2>6, <4>1, <4>2
    <3>2. CASE ClaimExecute(v)
      BY <2>2, <2>3, <2>4, <2>6, <3>1, <3>2
    <3>3. QED
      BY <2>2, <2>6, <3>1, <3>2 DEF WorkersAreExclusive
  <2>7. QED
    BY <2>5, <2>6 DEF WorkersAreExclusive
<1>3. QED
  BY <1>1, <1>2

-----------------------------------------------------------------------------
(* READY and COMPLETED stand for text. *)

ReadyText(t) == t.heb = "usable" /\ (~Hebrew => t.src = "usable")

(* What the Hebrew row holds after a completed request: a translation may  *)
(* come back blank, and is saved.                                          *)
CompletedTexts == {"usable"} \cup (TranslationResults \cap {"blank"})

(* The part of FinishedHasText about requests. *)
CompletedHasText ==
  \A r \in Requests :
    /\ req[r].status = "COMPLETED"
    /\ \A q \in Requests : q > r => req[q].status \in Waiting \cup {"NONE"}
    => text.heb \in CompletedTexts

(* What a worker captured or concluded is true while it may still write.   *)
WorkersReportText ==
  \A w \in Workers : PersistIsAllowed(w) =>
    /\ wk[w].pc = "provider" /\ ~IsTranslation(wk[w].r) /\ wk[w].prior = "READY"
         => ReadyText(text)
    /\ wk[w].pc = "terminalize" /\ wk[w].out = "COMPLETED" => text.heb \in CompletedTexts

TextInvariant ==
  /\ InductiveInvariant /\ WorkersAreExclusive
  /\ doc = "READY" => ReadyText(text)
  /\ WorkersReportText /\ CompletedHasText

(* The roll-up is READY only when the expected rows are usable. *)
LEMMA ReadyRollupHasText ==
  ASSUME NEW t, NEW engine, Rollup(t, engine) = "READY"
  PROVE  engine = "ocr" /\ ReadyText(t)
<1> DEFINE rows == {Row(t, engine, type) : type \in ExpectedTypes}
<1>1. rows = {"usable"}
  BY DEF Rollup
<1>2. \A type \in ExpectedTypes : Row(t, engine, type) = "usable"
  BY <1>1
<1>3. "heb" \in ExpectedTypes /\ (~Hebrew => "src" \in ExpectedTypes)
  BY DEF ExpectedTypes
<1>4. engine = "ocr"
  BY <1>2, <1>3 DEF Row
<1>5. QED
  BY <1>2, <1>3, <1>4 DEF Row, ReadyText

(* The rows of the runtime engine stay as they are, and the document       *)
(* becomes READY only over usable ones.                                    *)
RowsAreKept ==
  /\ text'.src = text.src /\ text'.heb = text.heb
  /\ doc' = "READY" => doc = "READY" \/ ReadyText(text)

(* A worker that may write replaces them, and knows what it wrote. *)
ReplacesRows(w) ==
  /\ PersistIsAllowed(w) /\ wk[w].pc = "provider" /\ wk'[w].pc = "terminalize"
  /\ doc' = "READY" => ReadyText(text')
  /\ wk'[w].out = "COMPLETED" => text'.heb \in CompletedTexts

(* Concluding, and nothing else, sets the outcome. *)
LEMMA ConcludeSetsOutcome ==
  ASSUME TypeOK, NEW w \in Workers, NEW out, Conclude(w, out)
  PROVE  wk'[w].pc = "terminalize" /\ wk'[w].out = out /\ wk'[w].r = wk[w].r
BY DEF TypeOK, Worker, Conclude

LEMMA StepsFollowText ==
  ASSUME TextInvariant, "stale_upload" \notin Events, Next
  PROVE  RowsAreKept \/ \E w \in Workers : ReplacesRows(w)
<1> DEFINE Goal == RowsAreKept \/ \E w \in Workers : ReplacesRows(w)
<1> USE ReadyRollupHasText
<1>1. text \in TextRecord /\ TypeOK
  BY DEF TextInvariant, InductiveInvariant, TypeOK
<1>2. \A pages \in BOOLEAN : /\ [text EXCEPT !.pages = pages].src = text.src
                             /\ [text EXCEPT !.pages = pages].heb = text.heb
  BY <1>1 DEF TextRecord
<1>3. doc = "READY" => ReadyText(text)
  BY DEF TextInvariant
<1>4. RollupDisplayed(text) = "READY" => ReadyText(text)
  BY DEF RollupDisplayed
<1>5. ASSUME NEW r \in Requests, AbandonRequest(r), UNCHANGED text PROVE Goal
  BY <1>4, <1>5 DEF AbandonRequest, ReplaceOverlay, RowsAreKept
<1>6. ASSUME NEW s \in Senders, SenderNext(s) PROVE Goal
  BY <1>5, <1>6
  DEF SenderNext, SenderStep, BeginUpload, SaveUpload, FailUpload, AssessReprocess,
      FallbackReprocess, AssessTranslation, EnqueueCreate, EnqueueCoalesce, SendAccepted,
      SendFailed, Finalize, ReloadAndMark, MarkCoalesced, SenderCrash, Recover, StaffRetry,
      RowsAreKept
<1>7. ASSUME NEW w \in Workers, PersistFailure(w) PROVE Goal
  <2>1. /\ SaveFailure(text, wk[w].r).src = text.src
        /\ SaveFailure(text, wk[w].r).heb = text.heb
    BY <1>1 DEF TextRecord, SaveFailure
  <2>2. Rollup(text', "dispatch") # "READY"
    OBVIOUS
  <2>3. QED
    BY <1>7, <2>1, <2>2 DEF PersistFailure, RowsAreKept
<1>8. ASSUME NEW w \in Workers, NEW src \in SourceResults, NEW heb \in TranslationResults,
             PersistSuccess(w, src, heb)
      PROVE  Goal
  <2>1. CASE ~PersistIsAllowed(w)
    BY <1>2, <1>8, <2>1 DEF PersistSuccess, RowsAreKept
  <2>2. CASE PersistIsAllowed(w) /\ text.ver # {}
    <3>1. wk[w].prior = "READY" => ReadyText(text)
      BY <1>8, <2>2 DEF PersistSuccess, TextInvariant, WorkersReportText
    <3>2. QED
      BY <1>2, <1>8, <2>2, <3>1 DEF PersistSuccess, RowsAreKept, RestorePrior
  <2>3. CASE PersistIsAllowed(w) /\ text.ver = {}
    <3>1. doc' = Rollup(text', "ocr") /\ Conclude(w, OutcomeFor(doc'))
      BY <1>8, <2>3 DEF PersistSuccess
    <3>2. OutcomeFor(doc') = "COMPLETED" => doc' = "READY"
      BY DEF OutcomeFor
    <3>3. wk'[w].pc = "terminalize" /\ wk'[w].out = OutcomeFor(doc')
      BY <1>1, <3>1, ConcludeSetsOutcome
    <3>4. doc' = "READY" => ReadyText(text')
      BY <3>1
    <3>5. ReplacesRows(w)
      BY <1>8, <2>3, <3>2, <3>3, <3>4 DEF PersistSuccess, ReplacesRows, ReadyText, CompletedTexts
    <3>6. QED
      BY <3>5
  <2>4. QED
    BY <2>1, <2>2, <2>3
<1>9. ASSUME NEW w \in Workers, NEW heb \in TranslationResults, PersistTranslation(w, heb)
      PROVE  Goal
  <2>1. text'.heb = heb
    BY <1>1, <1>9 DEF PersistTranslation, TextRecord
  <2>2. doc' = "READY" => ReadyText(text')
    BY <1>9 DEF PersistTranslation
  <2>3. wk'[w].pc = "terminalize"
        /\ wk'[w].out = IF heb = "failed" THEN "FAILED" ELSE "COMPLETED"
    BY <1>1, <1>9, ConcludeSetsOutcome DEF PersistTranslation
  <2>4. heb = "failed" \/ heb \in CompletedTexts
    BY TranslationResultsAssumption DEF CompletedTexts
  <2>5. ReplacesRows(w)
    BY <1>9, <2>1, <2>2, <2>3, <2>4 DEF PersistTranslation, ReplacesRows
  <2>6. QED
    BY <2>5
<1>10. ASSUME NEW w \in Workers, PageIncomplete(w) PROVE Goal
  BY <1>2, <1>10 DEF PageIncomplete, RowsAreKept
<1>11. ASSUME NEW w \in Workers, TranslationClaim(w) \/ RestoreAfterAbort(w) PROVE Goal
  BY <1>4, <1>11 DEF TranslationClaim, RestoreAfterAbort, RowsAreKept
<1>12. ASSUME NEW w \in Workers, WorkerNext(w) PROVE Goal
  <2>1. CASE Execute(w)
    BY <1>7, <1>8, <1>9, <1>10, <1>11, <2>1
    DEF Execute, Phase1, SourcesInvalid, RefuseTranslation, RowsAreKept
  <2>2. CASE Claim(w)
    BY <2>2 DEF Claim, ClaimAck, ClaimExecute, ClaimFence, ClaimDefer, Fence, RowsAreKept
  <2>3. QED
    BY <1>12, <2>1, <2>2 DEF WorkerNext, Receive, Terminalize, Ack, WorkerCrash, RowsAreKept
<1>13. ASSUME EnvNext PROVE Goal
  <2>1. ASSUME NEW type \in {"src", "heb"}, VerifyText(type) PROVE Goal
    BY <1>1, <2>1 DEF VerifyText, TextRecord, RowsAreKept
  <2>2. QED
    BY <1>5, <1>13, <2>1
    DEF EnvNext, Age, LeaseExpires, FenceCommand, Fence, Abandon, RowsAreKept
<1>14. QED
  BY <1>6, <1>12, <1>13 DEF Next

(* A step that lets a worker report text had its reason. *)
LEMMA ReportsHaveReasons ==
  ASSUME TextInvariant, Next, "stale_upload" \notin Events,
         NEW w \in Workers, PersistIsAllowed(w)',
         \/ wk'[w].pc = "provider" /\ ~IsTranslation(wk[w].r)' /\ wk'[w].prior = "READY"
         \/ wk'[w].pc = "terminalize" /\ wk'[w].out = "COMPLETED"
  PROVE  \/ wk'[w] = wk[w]
         \/ /\ wk'[w].pc = "provider" /\ UNCHANGED text /\ doc = "READY"
         \/ ReplacesRows(w)
         \/ /\ wk'[w].pc = "terminalize"
            /\ text'.heb = text.heb /\ ReadyText(text)
<1> SUFFICES ASSUME wk'[w] # wk[w]
             PROVE  \/ wk'[w].pc = "provider" /\ UNCHANGED text /\ doc = "READY"
                    \/ ReplacesRows(w)
                    \/ wk'[w].pc = "terminalize" /\ text'.heb = text.heb /\ ReadyText(text)
  OBVIOUS
<1> DEFINE Goal == \/ wk'[w].pc = "provider" /\ UNCHANGED text /\ doc = "READY"
                   \/ ReplacesRows(w)
                   \/ wk'[w].pc = "terminalize" /\ text'.heb = text.heb /\ ReadyText(text)
<1>1. TypeOK /\ wk \in [Workers -> Worker] /\ text \in TextRecord /\ WorkerNext(w)
  BY WorkersMoveThemselves DEF TextInvariant, InductiveInvariant, TypeOK
<1>2. IdleWorker.pc = "idle" /\ IdleWorker.out = "none"
  BY DEF IdleWorker
<1>3. ASSUME NEW out, Conclude(w, out) PROVE wk'[w].pc = "terminalize" /\ out = "COMPLETED"
  BY <1>1, <1>3, ConcludeSetsOutcome
<1>4. ASSUME Release(w) \/ Acknowledge(w) PROVE FALSE
  BY <1>1, <1>2, <1>4 DEF Release, Acknowledge, IdleWorker
<1>5. ASSUME Phase1(w) PROVE Goal
  <2>1. CASE Conclude(w, "NOOP")
    BY <1>3, <2>1
  <2>2. QED
    BY <1>1, <1>5, <2>1 DEF Phase1, Worker
<1>6. ASSUME NEW src \in SourceResults, NEW heb \in TranslationResults,
             PersistSuccess(w, src, heb)
      PROVE  Goal
  <2>1. CASE ~PersistIsAllowed(w)
    BY <1>3, <1>6, <2>1 DEF PersistSuccess
  <2>2. CASE PersistIsAllowed(w) /\ text.ver # {}
    <3>1. text'.heb = text.heb /\ OutcomeFor(doc') = "COMPLETED"
      BY <1>1, <1>3, <1>6, <2>2 DEF PersistSuccess, TextRecord
    <3>2. doc' = "READY" /\ doc' = RestorePrior(doc, wk[w].prior)
      BY <1>6, <2>2, <3>1 DEF PersistSuccess, OutcomeFor
    <3>3. wk[w].prior = "READY" \/ doc = "READY"
      BY <3>2 DEF RestorePrior
    <3>4. ReadyText(text)
      BY <1>6, <2>2, <3>3 DEF PersistSuccess, TextInvariant, WorkersReportText
    <3>5. wk'[w].pc = "terminalize"
      BY <1>1, <1>6, <2>2, ConcludeSetsOutcome DEF PersistSuccess
    <3>6. QED
      BY <3>1, <3>4, <3>5
  <2>3. CASE PersistIsAllowed(w) /\ text.ver = {}
    <3>1. doc' = Rollup(text', "ocr") /\ Conclude(w, OutcomeFor(doc'))
      BY <1>6, <2>3 DEF PersistSuccess
    <3>2. OutcomeFor(doc') = "COMPLETED" => doc' = "READY"
      BY DEF OutcomeFor
    <3>3. wk'[w].pc = "terminalize" /\ wk'[w].out = OutcomeFor(doc')
      BY <1>1, <3>1, ConcludeSetsOutcome
    <3>4. doc' = "READY" => ReadyText(text')
      BY <3>1, ReadyRollupHasText
    <3>5. QED
      BY <1>6, <2>3, <3>2, <3>3, <3>4 DEF PersistSuccess, ReplacesRows, ReadyText, CompletedTexts
  <2>4. QED
    BY <2>1, <2>2, <2>3
<1>7. ASSUME NEW heb \in TranslationResults, PersistTranslation(w, heb) PROVE Goal
  <2>1. text'.heb = heb /\ doc' = Rollup(text', "ocr")
    BY <1>1, <1>7 DEF PersistTranslation, TextRecord
  <2>2. /\ wk'[w].pc = "terminalize"
        /\ wk'[w].out = IF heb = "failed" THEN "FAILED" ELSE "COMPLETED"
    BY <1>1, <1>7, ConcludeSetsOutcome DEF PersistTranslation
  <2>3. heb = "failed" \/ heb \in CompletedTexts
    BY TranslationResultsAssumption DEF CompletedTexts
  <2>4. QED
    BY <1>7, <2>1, <2>2, <2>3, ReadyRollupHasText DEF PersistTranslation, ReplacesRows
<1>8. ASSUME SourcesInvalid(w) \/ PageIncomplete(w) \/ PersistFailure(w) PROVE FALSE
  BY <1>3, <1>8 DEF SourcesInvalid, PageIncomplete, PersistFailure
<1>9. ASSUME TranslationClaim(w) PROVE Goal
  <2>1. CASE wk' = [wk EXCEPT ![w].pc = "provider"]
    <3>1. wk'[w].pc = "provider" /\ wk'[w].r = wk[w].r
      BY <1>1, <2>1 DEF Worker
    <3>2. req' = req /\ req[wk[w].r].payload = "TRANSLATION"
      BY <1>9 DEF TranslationClaim, IsTranslation
    <3>3. QED
      BY <3>1, <3>2 DEF IsTranslation
  <2>2. CASE Conclude(w, "NOOP") \/ Release(w)
    BY <1>3, <1>4, <2>2
  <2>3. QED
    BY <1>9, <2>1, <2>2 DEF TranslationClaim
<1>10. ASSUME RefuseTranslation(w) \/ RestoreAfterAbort(w) PROVE FALSE
  <2>1. wk[w].pc = "restore" => wk[w].out # "COMPLETED"
    BY DEF TextInvariant, InductiveInvariant, LocalsAreSet
  <2>2. QED
    BY <1>1, <1>3, <1>4, <1>10, <2>1 DEF RefuseTranslation, RestoreAfterAbort, Worker
<1>11. ASSUME Claim(w) \/ Terminalize(w) \/ Ack(w) \/ WorkerCrash(w) PROVE FALSE
  BY <1>1, <1>2, <1>4, <1>11, ZenonT(60)
  DEF Claim, ClaimAck, ClaimExecute, ClaimFence, ClaimDefer, Terminalize, Ack, WorkerCrash,
      Worker
<1>12. ASSUME NEW m \in queue, Receive(w, m) PROVE FALSE
  BY <1>1, <1>12 DEF Receive, IdleWorker
<1>13. QED
  BY <1>1, <1>5, <1>6, <1>7, <1>8, <1>9, <1>10, <1>11, <1>12 DEF WorkerNext, Execute

(* Only the conclusion of the worker that may write completes a request. *)
LEMMA CompletedByReport ==
  ASSUME TextInvariant, Next, NEW r \in Requests,
         req'[r].status = "COMPLETED", req[r].status # "COMPLETED"
  PROVE  text.heb \in CompletedTexts /\ UNCHANGED text
<1> DEFINE Goal == text.heb \in CompletedTexts /\ UNCHANGED text
<1>1. TypeOK /\ req \in [Requests -> Request]
  BY DEF TextInvariant, InductiveInvariant, TypeOK
<1>2. ASSUME NEW w \in Workers, Terminalize(w) PROVE Goal
  <2>1. /\ wk[w].pc = "terminalize" /\ wk[w].r = r /\ PersistIsAllowed(w)
        /\ TerminalStatus(wk[w].out) = "COMPLETED" /\ UNCHANGED text
    BY <1>1, <1>2 DEF Terminalize, PersistIsAllowed, Request
  <2>2. wk[w].out = "COMPLETED"
    BY <2>1 DEF TerminalStatus
  <2>3. QED
    BY <2>1, <2>2 DEF TextInvariant, WorkersReportText
<1>3. ASSUME NEW q \in Requests, AbandonRequest(q) PROVE FALSE
  BY <1>1, <1>3 DEF AbandonRequest, Request
<1>4. ASSUME NEW s \in Senders, SenderNext(s) PROVE FALSE
  <2>1. CASE req' = req
    BY <2>1
  <2>2. ASSUME EnqueueCreate(s) \/ EnqueueCoalesce(s) \/ Finalize(s) PROVE FALSE
    <3>1. CASE EnqueueCreate(s)
      <4>1. \/ req' = req
            \/ \E q \in Requests :
                 req' = [req EXCEPT ![q] = [NoRequest EXCEPT !.status = "QUEUED",
                                                   !.payload = sn[s].payload]]
        BY <3>1 DEF EnqueueCreate
      <4>2. \A p : [NoRequest EXCEPT !.status = "QUEUED", !.payload = p].status = "QUEUED"
        BY DEF NoRequest
      <4>3. QED
        BY <1>1, <4>1, <4>2
    <3>2. CASE EnqueueCoalesce(s)
      BY <1>1, <3>2 DEF EnqueueCoalesce, Request
    <3>3. CASE Finalize(s)
      <4>1. sn[s].r \in Requests
        BY <1>1, <3>3 DEF Finalize, TypeOK, Sending
      <4>2. QED
        BY <1>1, <3>3, <4>1 DEF Finalize, Request
    <3>4. QED
      BY <2>2, <3>1, <3>2, <3>3
  <2>3. ASSUME NEW q \in Requests, Recover(s, q) PROVE FALSE
    BY <1>1, <2>3 DEF Recover, Request
  <2>4. QED
    BY <1>3, <1>4, <2>1, <2>2, <2>3
    DEF SenderNext, SenderStep, BeginUpload, SaveUpload, FailUpload, AssessReprocess,
        FallbackReprocess, AssessTranslation, SendAccepted, SendFailed, ReloadAndMark,
        MarkCoalesced, SenderCrash, StaffRetry
<1>5. ASSUME NEW q \in Requests, Fence(q) PROVE FALSE
  BY <1>1, <1>5 DEF Fence, Request
<1>6. ASSUME NEW w \in Workers, Claim(w) PROVE FALSE
  <2>1. wk[w].pc = "claim" => wk[w].r \in Requests
    BY <1>1 DEF TypeOK
  <2>2. CASE ClaimExecute(w)
    <3> DEFINE q == wk[w].r
               row == [req[q] EXCEPT !.status = "RUNNING", !.lease = "live",
                                     !.token = req[q].grants + 1,
                                     !.grants = req[q].grants + 1,
                                     !.aged = FALSE, !.enq = FALSE]
    <3>1. q \in Requests /\ req' = [req EXCEPT ![q] = row]
      BY <1>1, <2>1, <2>2 DEF ClaimExecute, Request
    <3>2. row.status = "RUNNING"
      BY <1>1, <3>1 DEF Request
    <3> HIDE DEF q, row
    <3>3. QED
      BY <1>1, <3>1, <3>2
  <2>3. CASE ClaimFence(w)
    BY <1>5, <2>1, <2>3 DEF ClaimFence
  <2>4. QED
    BY <1>6, <2>2, <2>3 DEF Claim, ClaimAck, ClaimDefer
<1>7. ASSUME NEW w \in Workers, Execute(w) PROVE req' = req
  BY <1>7
  DEF Execute, Phase1, SourcesInvalid, PageIncomplete, PersistFailure, PersistSuccess,
      TranslationClaim, RefuseTranslation, RestoreAfterAbort, PersistTranslation
<1>8. ASSUME NEW w \in Workers, WorkerNext(w) PROVE Goal
  BY <1>2, <1>6, <1>7, <1>8 DEF WorkerNext, Receive, Ack, WorkerCrash
<1>9. ASSUME EnvNext PROVE FALSE
  BY <1>1, <1>3, <1>5, <1>9
  DEF EnvNext, Age, LeaseExpires, FenceCommand, Abandon, VerifyText, Request
<1>10. QED
  BY <1>4, <1>8, <1>9 DEF Next

LEMMA TextInvariantIsKept ==
  ASSUME TextInvariant, [Next]_vars, "stale_upload" \notin Events
  PROVE  TextInvariant'
<1>1. CASE UNCHANGED vars
  <2>1. InductiveInvariant' /\ WorkersAreExclusive'
    BY StepKeepsInvariant, ExclusionIsKept DEF TextInvariant
  <2>2. QED
    BY <1>1, <2>1
    DEF vars, TextInvariant, WorkersReportText, CompletedHasText, PersistIsAllowed,
        IsTranslation, ReadyText
<1>2. CASE Next
  <2>1. InductiveInvariant' /\ WorkersAreExclusive'
    BY StepKeepsInvariant, ExclusionIsKept DEF TextInvariant
  <2>2. RowsAreKept \/ \E w \in Workers : ReplacesRows(w)
    BY <1>2, StepsFollowText
  <2>3. doc' = "READY" => ReadyText(text')
    BY <2>2 DEF RowsAreKept, ReplacesRows, TextInvariant, ReadyText
  <2>4. ASSUME NEW w \in Workers, PersistIsAllowed(w)',
               \/ wk'[w].pc = "provider" /\ ~IsTranslation(wk[w].r)' /\ wk'[w].prior = "READY"
               \/ wk'[w].pc = "terminalize" /\ wk'[w].out = "COMPLETED"
        PROVE  /\ wk'[w].pc = "provider" => ReadyText(text')
               /\ wk'[w].pc = "terminalize" => text'.heb \in CompletedTexts
    <3>1. CASE wk'[w] = wk[w]
      <4>1. PersistIsAllowed(w)
        BY <1>2, <2>4, <3>1, PermissionIsOld DEF TextInvariant, Working
      <4>2. wk[w].pc = "provider" => ~IsTranslation(wk[w].r) /\ wk[w].prior = "READY"
        <5>1. RowsAdvance
          BY <1>2, StepsFollowRows, RowsAdvanceByStep DEF TextInvariant, InductiveInvariant
        <5>2. wk[w].pc # "idle" => wk[w].r \in Requests /\ Created(wk[w].r)
          BY DEF TextInvariant, InductiveInvariant, TypeOK, RefersToCreated
        <5>3. QED
          BY <2>4, <3>1, <5>1, <5>2 DEF RowsAdvance, IsTranslation
      <4>3. /\ wk[w].pc = "provider" => ReadyText(text)
            /\ wk[w].pc = "terminalize" => text.heb \in CompletedTexts
        BY <2>4, <3>1, <4>1, <4>2 DEF TextInvariant, WorkersReportText
      <4>4. CASE RowsAreKept
        BY <3>1, <4>3, <4>4 DEF RowsAreKept, ReadyText
      <4>5. ASSUME NEW v \in Workers, ReplacesRows(v)
            PROVE  /\ wk'[w].pc = "provider" => ReadyText(text')
                   /\ wk'[w].pc = "terminalize" => text'.heb \in CompletedTexts
        <5>1. v = w
          BY <2>4, <3>1, <4>1, <4>5, OneMayWrite DEF TextInvariant, ReplacesRows, Working
        <5>2. QED
          BY <3>1, <4>5, <5>1 DEF ReplacesRows
      <4>6. QED
        BY <2>2, <4>4, <4>5
    <3>2. CASE wk'[w] # wk[w]
      BY <1>2, <2>4, <3>2, ReportsHaveReasons
      DEF ReplacesRows, TextInvariant, ReadyText, CompletedTexts
    <3>3. QED
      BY <3>1, <3>2
  <2>5. WorkersReportText'
    BY <2>4 DEF WorkersReportText
  <2>6. ASSUME NEW r \in Requests, req'[r].status = "COMPLETED",
               \A q \in Requests : q > r => req'[q].status \in Waiting \cup {"NONE"}
        PROVE  text'.heb \in CompletedTexts
    <3>1. CASE req[r].status # "COMPLETED"
      BY <1>2, <2>6, <3>1, CompletedByReport
    <3>2. CASE req[r].status = "COMPLETED"
      <4>1. ASSUME NEW q \in Requests, q > r PROVE req[q].status \in Waiting \cup {"NONE"}
        BY <1>2, <2>6, <4>1, StepsFollowRows, ClaimedStaysClaimed
        DEF TextInvariant, InductiveInvariant
      <4>2. text.heb \in CompletedTexts
        BY <3>2, <4>1 DEF TextInvariant, CompletedHasText
      <4>3. ASSUME NEW w \in Workers, ReplacesRows(w) PROVE FALSE
        <5>1. /\ wk[w].r \in Requests
              /\ req[wk[w].r].status \in {"RUNNING", "RECOVERY_REQUIRED"}
          BY <4>3 DEF ReplacesRows, PersistIsAllowed, TextInvariant, InductiveInvariant, TypeOK
        <5>2. wk[w].r \in Nat /\ r \in Nat
          BY <5>1, MaxRequestsAssumption DEF Requests
        <5>3. ~(wk[w].r < r)
          BY <3>2, <5>1
          DEF TextInvariant, InductiveInvariant, CreatedInOrder, Created, Terminal
        <5>4. ~(wk[w].r > r) /\ wk[w].r # r
          BY <3>2, <4>1, <5>1 DEF Waiting
        <5>5. QED
          BY <5>2, <5>3, <5>4
      <4>4. QED
        BY <2>2, <4>2, <4>3 DEF RowsAreKept
    <3>3. QED
      BY <3>1, <3>2
  <2>7. CompletedHasText'
    BY <2>6 DEF CompletedHasText
  <2>8. QED
    BY <2>1, <2>3, <2>5, <2>7 DEF TextInvariant
<1>3. QED
  BY <1>1, <1>2

(* A READY document has every text it shows and a COMPLETED request has    *)
(* left a Hebrew row that did not fail: roll-up, the VERIFIED fence's      *)
(* restore, overlay replacement and late workers keep the document's state *)
(* and outcome together with the rows, where no upload saves a stale       *)
(* Document.                                                               *)
THEOREM ReadyHasReadableText ==
  ASSUME "stale_upload" \notin Events
  PROVE  Spec => []((doc = "READY" => ReadyText(text)) /\ CompletedHasText)
<1>1. Init => TextInvariant
  <2> SUFFICES ASSUME Init PROVE TextInvariant
    OBVIOUS
  <2>1. /\ wk = [w \in Workers |-> IdleWorker] /\ req = [r \in Requests |-> NoRequest]
        /\ doc = "READY" => doc = Rollup(text, "ocr") \/ doc = Rollup(text, "dispatch")
    BY DEF Init
  <2>2. doc = "READY" => ReadyText(text)
    BY <2>1, ReadyRollupHasText
  <2>3. WorkersAreExclusive /\ WorkersReportText /\ CompletedHasText
    BY <2>1, IdleTypes
    DEF WorkersAreExclusive, WorkersReportText, CompletedHasText, Working, NoRequest
  <2>4. QED
    BY <2>2, <2>3, InitEstablishesInvariant DEF TextInvariant
<1>2. TextInvariant /\ [Next]_vars => TextInvariant'
  BY TextInvariantIsKept
<1>3. TextInvariant => (doc = "READY" => ReadyText(text)) /\ CompletedHasText
  BY DEF TextInvariant
<1>4. QED
  BY <1>1, <1>2, <1>3, PTL DEF Spec

(* With translations that are not blank (the engine refuses one shorter    *)
(* than the floor, unless the source is as short), a COMPLETED request has *)
(* left readable text as well.                                             *)
THEOREM FinishedHasReadableText ==
  ASSUME "stale_upload" \notin Events, "blank" \notin TranslationResults
  PROVE  Spec => []FinishedHasText
<1>1. CompletedTexts = {"usable"}
  BY DEF CompletedTexts
<1>2. (doc = "READY" => ReadyText(text)) /\ CompletedHasText => FinishedHasText
  BY <1>1 DEF FinishedHasText, CompletedHasText, ReadyText
<1>3. QED
  BY <1>2, ReadyHasReadableText, PTL

-----------------------------------------------------------------------------
(* PROCESSING is accounted for. *)

(* Nothing is requested before the upload is complete. *)
UploadComesFirst ==
  \/ \E r \in Requests : Created(r)
  \/ \E s \in Senders : sn[s].pc = "enqueue"
  => up = "UPLOADED"

(* A worker that concluded has taken the document out of PROCESSING. *)
ConcludedIsNotProcessing ==
  \A w \in Workers :
    wk[w].pc = "terminalize" /\ PersistIsAllowed(w) => doc # "PROCESSING"

ProcessingInvariant ==
  /\ InductiveInvariant /\ WorkersAreExclusive
  /\ text.ver = {} /\ UploadComesFirst
  /\ ConcludedIsNotProcessing /\ ProcessingHasRequest

(* A completed upload stays complete, and senders enqueue only after one. *)
LEMMA UploadStaysComplete ==
  ASSUME TypeOK, Events = {}, Next
  PROVE  /\ up = "UPLOADED" => up' = "UPLOADED"
         /\ \A s \in Senders : sn'[s].pc = "enqueue" => sn[s].pc = "enqueue" \/ up' = "UPLOADED"
<1> DEFINE Goal == /\ up = "UPLOADED" => up' = "UPLOADED"
                   /\ \A s \in Senders :
                        sn'[s].pc = "enqueue" => sn[s].pc = "enqueue" \/ up' = "UPLOADED"
<1>1. sn \in [Senders -> Sender]
  BY DEF TypeOK
<1>2. ASSUME NEW s \in Senders, Done(s), UNCHANGED up PROVE Goal
  BY <1>1, <1>2, IdleTypes DEF Done
<1>3. ASSUME NEW s \in Senders, NEW pc \in Sending, UNCHANGED up,
             \/ GoTo(s, pc)
             \/ \E r \in Requests : sn' = [sn EXCEPT ![s].pc = pc, ![s].r = r]
      PROVE  Goal
  BY <1>1, <1>3 DEF GoTo, Sending, Sender
<1>4. ASSUME NEW s \in Senders, NEW rec, sn' = [sn EXCEPT ![s] = rec],
             rec.pc = "enqueue" => up' = "UPLOADED", up = "UPLOADED" => up' = "UPLOADED"
      PROVE  Goal
  BY <1>1, <1>4
<1>5. ASSUME NEW s \in Senders, BeginUpload(s) PROVE Goal
  BY <1>4, <1>5 DEF BeginUpload, IdleSender
<1>6. ASSUME NEW s \in Senders, SaveUpload(s) PROVE Goal
  BY <1>4, <1>6 DEF SaveUpload
<1>7. ASSUME NEW s \in Senders, FailUpload(s) PROVE Goal
  BY <1>4, <1>7, IdleTypes DEF FailUpload, Done
<1>8. ASSUME NEW s \in Senders, NEW payload \in AllPayloads, AssessReprocess(s, payload)
      PROVE  Goal
  BY <1>4, <1>8 DEF AssessReprocess, Reprocessable, IdleSender
<1>9. ASSUME NEW s \in Senders, AssessTranslation(s) PROVE Goal
  BY <1>4, <1>9 DEF AssessTranslation, Translatable, TranslationSource, IdleSender
<1>10. ASSUME NEW s \in Senders, NEW r \in Requests, Recover(s, r) PROVE Goal
  BY <1>4, <1>10 DEF Recover, IdleSender
<1>11. ASSUME NEW s \in Senders, NEW r \in Requests, StaffRetry(s, r) PROVE Goal
  BY <1>4, <1>11 DEF StaffRetry, IdleSender
<1>12. ASSUME NEW s \in Senders, FallbackReprocess(s) \/ EnqueueCreate(s) \/ EnqueueCoalesce(s)
       PROVE  Goal
  <2>1. "mark" \in Sending /\ "send" \in Sending
    BY DEF Sending
  <2>2. CASE FallbackReprocess(s)
    BY <1>2, <1>3, <2>1, <2>2 DEF FallbackReprocess
  <2>3. CASE EnqueueCreate(s)
    BY <1>2, <1>3, <2>1, <2>3 DEF EnqueueCreate
  <2>4. CASE EnqueueCoalesce(s)
    BY <1>2, <1>3, <2>1, <2>4 DEF EnqueueCoalesce
  <2>5. QED
    BY <1>12, <2>2, <2>3, <2>4
<1>13. ASSUME NEW s \in Senders,
              SendAccepted(s) \/ SendFailed(s) \/ Finalize(s) \/ ReloadAndMark(s)
              \/ MarkCoalesced(s) \/ SenderCrash(s)
       PROVE  Goal
  <2>1. {"finalizeSuccess", "finalizeFailure", "reload"} \subseteq Sending
    BY DEF Sending
  <2>2. QED
    BY <1>2, <1>3, <1>13, <2>1
    DEF SendAccepted, SendFailed, Finalize, ReloadAndMark, MarkCoalesced, SenderCrash
<1>14. ASSUME NEW s \in Senders, SenderNext(s) PROVE Goal
  BY <1>5, <1>6, <1>7, <1>8, <1>9, <1>10, <1>11, <1>12, <1>13, <1>14
  DEF SenderNext, SenderStep
<1>15. ASSUME UNCHANGED <<up, sn>> PROVE Goal
  BY <1>15
<1>16. ASSUME NEW w \in Workers, WorkerNext(w) PROVE Goal
  BY <1>15, <1>16
  DEF WorkerNext, Receive, Claim, ClaimAck, ClaimExecute, ClaimFence, ClaimDefer,
      Execute, Phase1, SourcesInvalid, PageIncomplete, PersistFailure, PersistSuccess,
      TranslationClaim, RefuseTranslation, RestoreAfterAbort, PersistTranslation,
      Terminalize, Ack, WorkerCrash
<1>17. ASSUME EnvNext PROVE Goal
  BY <1>15, <1>17 DEF EnvNext, Age, LeaseExpires, FenceCommand, Abandon, VerifyText
<1>18. QED
  BY <1>14, <1>16, <1>17 DEF Next

(* The first row is created by a sender that enqueues. *)
LEMMA FirstRowIsEnqueued ==
  ASSUME TypeOK, RefersToCreated, GrantsMatchStatus, Next, \A r \in Requests : ~Created(r)
  PROVE  req' = req \/ \E s \in Senders : sn[s].pc = "enqueue"
<1>1. ASSUME NEW s \in Senders, SenderNext(s), sn[s].pc # "enqueue" PROVE req' = req
  <2>1. ~Finalize(s)
    <3>1. sn[s].pc \in Sending => Created(sn[s].r) /\ sn[s].r \in Requests
      BY DEF RefersToCreated, TypeOK
    <3>2. QED
      BY <3>1 DEF Finalize, Sending
  <2>2. \A r \in Requests : ~Recover(s, r) /\ ~AbandonRequest(r)
    BY DEF Recover, Recoverable, Stranded, AbandonRequest, Created
  <2>3. QED
    BY <1>1, <2>1, <2>2
    DEF SenderNext, SenderStep, BeginUpload, SaveUpload, FailUpload, AssessReprocess,
        FallbackReprocess, AssessTranslation, EnqueueCreate, EnqueueCoalesce, SendAccepted,
        SendFailed, ReloadAndMark, MarkCoalesced, SenderCrash, StaffRetry
<1>2. ASSUME NEW w \in Workers, WorkerNext(w) PROVE req' = req
  <2>1. wk[w].pc = "idle"
    BY DEF RefersToCreated, TypeOK
  <2>2. QED
    BY <1>2, <2>1
    DEF WorkerNext, Receive, Claim, ClaimAck, ClaimExecute, ClaimFence, ClaimDefer,
        Execute, Phase1, SourcesInvalid, PageIncomplete, PersistFailure, PersistSuccess,
        TranslationClaim, RefuseTranslation, RestoreAfterAbort, PersistTranslation,
        Terminalize, Ack, WorkerCrash
<1>3. ASSUME EnvNext PROVE req' = req
  <2>1. \A r \in Requests : req[r].status = "NONE"
    BY DEF Created
  <2>2. \A r \in Requests : req[r].lease = "none"
    BY <2>1 DEF GrantsMatchStatus, TypeOK, Request
  <2>3. \A r \in Requests : ~Age(r) /\ ~LeaseExpires(r) /\ ~FenceCommand(r) /\ ~Abandon(r)
    BY <2>1, <2>2
    DEF Age, Stranded, LeaseExpires, FenceCommand, LeaseLost, Abandon, AbandonRequest
  <2>4. QED
    BY <1>3, <2>3 DEF EnvNext, VerifyText
<1>4. QED
  BY <1>1, <1>2, <1>3 DEF Next

LEMMA UploadStaysFirst ==
  ASSUME TypeOK, RefersToCreated, GrantsMatchStatus, UploadComesFirst, Events = {}, Next
  PROVE  UploadComesFirst'
<1>1. ASSUME NEW r \in Requests, Created(r)' PROVE up' = "UPLOADED"
  BY <1>1, FirstRowIsEnqueued, UploadStaysComplete DEF UploadComesFirst, Created
<1>2. ASSUME NEW s \in Senders, sn'[s].pc = "enqueue" PROVE up' = "UPLOADED"
  BY <1>2, UploadStaysComplete DEF UploadComesFirst
<1>3. QED
  BY <1>1, <1>2 DEF UploadComesFirst

(* A RUNNING request ends by the conclusion of the worker that holds it. *)
LEMMA RunningEndsByReport ==
  ASSUME TypeOK, Next, NEW r \in Requests,
         req[r].status = "RUNNING", req'[r].status \in Terminal
  PROVE  /\ UNCHANGED doc
         /\ \E w \in Workers : wk[w].pc = "terminalize" /\ PersistIsAllowed(w)
<1> DEFINE Goal == /\ UNCHANGED doc
                   /\ \E w \in Workers : wk[w].pc = "terminalize" /\ PersistIsAllowed(w)
<1>1. req \in [Requests -> Request]
  BY DEF TypeOK
<1>2. ASSUME NEW w \in Workers, Terminalize(w) PROVE Goal
  <2>1. /\ wk[w].pc = "terminalize" /\ wk[w].r = r /\ PersistIsAllowed(w) /\ UNCHANGED doc
    BY <1>1, <1>2 DEF Terminalize, PersistIsAllowed, Request, Terminal
  <2>2. QED
    BY <2>1
<1>3. ASSUME NEW q \in Requests, AbandonRequest(q) PROVE FALSE
  BY <1>1, <1>3 DEF AbandonRequest, Request, Terminal
<1>4. ASSUME NEW q \in Requests, Fence(q) PROVE FALSE
  BY <1>1, <1>4 DEF Fence, Request, Terminal
<1>5. ASSUME req' = req PROVE FALSE
  BY <1>5 DEF Terminal
<1>6. ASSUME NEW q \in Requests, NEW row, req' = [req EXCEPT ![q] = row],
             row.status \notin Terminal
      PROVE  FALSE
  BY <1>1, <1>6 DEF Terminal
<1>7. ASSUME NEW s \in Senders, SenderNext(s) PROVE FALSE
  <2>2. CASE EnqueueCreate(s)
    <3>1. \/ req' = req
          \/ \E q \in Requests :
               req' = [req EXCEPT ![q] = [NoRequest EXCEPT !.status = "QUEUED",
                                                 !.payload = sn[s].payload]]
      BY <2>2 DEF EnqueueCreate
    <3>2. \A p : [NoRequest EXCEPT !.status = "QUEUED", !.payload = p].status \notin Terminal
      BY DEF NoRequest, Terminal
    <3>3. QED
      BY <1>5, <1>6, <3>1, <3>2
  <2>3. CASE EnqueueCoalesce(s)
    BY <1>1, <2>3 DEF EnqueueCoalesce, Request, Terminal
  <2>4. CASE Finalize(s)
    <3>1. sn[s].r \in Requests
      BY <2>4 DEF Finalize, TypeOK, Sending
    <3> DEFINE q == sn[s].r
               sent == [req[q] EXCEPT !.enq = TRUE, !.aged = FALSE]
               failed == [req[q] EXCEPT !.status = "ENQUEUE_FAILED", !.aged = FALSE]
    <3>2. \/ req' = req
          \/ req[q].status = "QUEUED" /\ req' = [req EXCEPT ![q] = sent]
          \/ req' = [req EXCEPT ![q] = failed]
      BY <1>1, <2>4, <3>1 DEF Finalize, UnclaimedQueued, Request
    <3>3. sent.status = req[q].status /\ failed.status = "ENQUEUE_FAILED"
      BY <1>1, <3>1 DEF Request
    <3> HIDE DEF q, sent, failed
    <3>4. q \in Requests
      BY <3>1 DEF q
    <3>5. QED
      BY <1>5, <1>6, <3>2, <3>3, <3>4 DEF Terminal
  <2>5. ASSUME NEW q \in Requests, Recover(s, q) PROVE FALSE
    <3> DEFINE row == [req[q] EXCEPT !.status = "QUEUED", !.aged = FALSE, !.enq = FALSE]
    <3>1. req' = [req EXCEPT ![q] = row] /\ row.status = "QUEUED"
      BY <1>1, <2>5 DEF Recover, Request
    <3> HIDE DEF row
    <3>2. QED
      BY <1>6, <3>1 DEF Terminal
  <2>6. QED
    BY <1>3, <1>5, <1>7, <2>2, <2>3, <2>4, <2>5
    DEF SenderNext, SenderStep, BeginUpload, SaveUpload, FailUpload, AssessReprocess,
        FallbackReprocess, AssessTranslation, SendAccepted, SendFailed, ReloadAndMark,
        MarkCoalesced, SenderCrash, StaffRetry
<1>8. ASSUME NEW w \in Workers, Claim(w) PROVE FALSE
  <2>1. wk[w].pc = "claim" => wk[w].r \in Requests
    BY DEF TypeOK
  <2>2. CASE ClaimExecute(w)
    <3> DEFINE q == wk[w].r
               row == [req[q] EXCEPT !.status = "RUNNING", !.lease = "live",
                                     !.token = req[q].grants + 1,
                                     !.grants = req[q].grants + 1,
                                     !.aged = FALSE, !.enq = FALSE]
    <3>1. q \in Requests /\ req' = [req EXCEPT ![q] = row]
      BY <1>1, <2>1, <2>2 DEF ClaimExecute, Request
    <3>2. row.status \notin Terminal
      BY <1>1, <3>1 DEF Request, Terminal
    <3> HIDE DEF q, row
    <3>3. QED
      BY <1>6, <3>1, <3>2
  <2>3. CASE ClaimFence(w)
    BY <1>4, <2>1, <2>3 DEF ClaimFence
  <2>4. QED
    BY <1>5, <1>8, <2>2, <2>3 DEF Claim, ClaimAck, ClaimDefer
<1>9. ASSUME NEW w \in Workers, Execute(w) PROVE req' = req
  BY <1>9
  DEF Execute, Phase1, SourcesInvalid, PageIncomplete, PersistFailure, PersistSuccess,
      TranslationClaim, RefuseTranslation, RestoreAfterAbort, PersistTranslation
<1>10. ASSUME NEW w \in Workers, WorkerNext(w) PROVE Goal
  BY <1>2, <1>5, <1>8, <1>9, <1>10 DEF WorkerNext, Receive, Ack, WorkerCrash
<1>11. ASSUME EnvNext PROVE FALSE
  <2>1. ASSUME NEW q \in Requests, Age(q) PROVE FALSE
    BY <1>1, <2>1 DEF Age, Request, Terminal
  <2>2. ASSUME NEW q \in Requests, LeaseExpires(q) PROVE FALSE
    BY <1>1, <2>2 DEF LeaseExpires, Request, Terminal
  <2>3. QED
    BY <1>3, <1>4, <1>5, <1>11, <2>1, <2>2 DEF EnvNext, FenceCommand, Abandon, VerifyText
<1>12. QED
  BY <1>7, <1>10, <1>11 DEF Next

(* Without reviews no row is VERIFIED. *)
LEMMA NothingIsVerified ==
  ASSUME TypeOK, Events = {}, text.ver = {}, Next
  PROVE  text'.ver = {}
<1>1. text \in TextRecord
  BY DEF TypeOK
<1>2. /\ \A src, heb, r : SaveResults(text, src, heb, r).ver = {}
      /\ \A r : SaveFailure(text, r).ver = {}
      /\ [text EXCEPT !.pages = FALSE].ver = {}
      /\ [text EXCEPT !.pages = TRUE].ver = {}
      /\ \A heb, r : [text EXCEPT !.heb = heb, !.by = r].ver = {}
  BY <1>1 DEF TextRecord, SaveResults, SaveFailure
<1>3. ASSUME NEW w \in Workers, Execute(w) PROVE text'.ver = {}
  <2>1. CASE PersistFailure(w)
    BY <1>2, <2>1 DEF PersistFailure
  <2>2. CASE PageIncomplete(w)
    BY <1>2, <2>2 DEF PageIncomplete
  <2>3. ASSUME NEW src \in SourceResults, NEW heb \in TranslationResults,
               PersistSuccess(w, src, heb)
        PROVE  text'.ver = {}
    <3>1. \/ text' = [text EXCEPT !.pages = FALSE]
          \/ text' = SaveResults(text, src, heb, wk[w].r)
      BY <2>3 DEF PersistSuccess
    <3>2. CASE text' = [text EXCEPT !.pages = FALSE]
      BY <1>2, <3>2
    <3>3. CASE text' = SaveResults(text, src, heb, wk[w].r)
      BY <1>2, <3>3
    <3>4. QED
      BY <3>1, <3>2, <3>3
  <2>4. ASSUME NEW heb \in TranslationResults, PersistTranslation(w, heb)
        PROVE  text'.ver = {}
    BY <1>2, <2>4 DEF PersistTranslation
  <2>5. QED
    BY <1>3, <2>1, <2>2, <2>3, <2>4
    DEF Execute, Phase1, SourcesInvalid, TranslationClaim, RefuseTranslation,
        RestoreAfterAbort
<1>4. ASSUME UNCHANGED text PROVE text'.ver = {}
  BY <1>4
<1>5. ASSUME NEW w \in Workers, WorkerNext(w) PROVE text'.ver = {}
  BY <1>3, <1>4, <1>5
  DEF WorkerNext, Receive, Claim, ClaimAck, ClaimExecute, ClaimFence, ClaimDefer,
      Terminalize, Ack, WorkerCrash
<1>6. ASSUME NEW s \in Senders, SenderNext(s) PROVE text'.ver = {}
  BY <1>4, <1>6
  DEF SenderNext, SenderStep, BeginUpload, SaveUpload, FailUpload, AssessReprocess,
      FallbackReprocess, AssessTranslation, EnqueueCreate, EnqueueCoalesce, SendAccepted,
      SendFailed, Finalize, ReloadAndMark, MarkCoalesced, SenderCrash, Recover, StaffRetry
<1>7. ASSUME EnvNext PROVE text'.ver = {}
  BY <1>4, <1>7 DEF EnvNext, Age, LeaseExpires, FenceCommand, Abandon, VerifyText
<1>8. QED
  BY <1>5, <1>6, <1>7 DEF Next

(* Who may set PROCESSING: the upload, a sender while the request waits,   *)
(* and a worker that starts with permission.                               *)
SetsProcessing ==
  \/ up # "UPLOADED"
  \/ \E r \in Requests : req[r].status = "QUEUED" /\ req' = req
  \/ \E w \in Workers : wk[w].pc = "start" /\ PersistIsAllowed(w) /\ req' = req

LEMMA ProcessingIsSet ==
  ASSUME TypeOK, Events = {}, text.ver = {}, Next, doc' = "PROCESSING"
  PROVE  doc = "PROCESSING" \/ SetsProcessing
<1> DEFINE Goal == doc = "PROCESSING" \/ SetsProcessing
<1>1. \A t, engine : Rollup(t, engine) # "PROCESSING"
  BY RollupIsOrdinary DEF Ordinary
<1>2. \A t : RollupDisplayed(t) # "PROCESSING"
  BY <1>1 DEF RollupDisplayed
<1>3. ASSUME NEW r \in Requests, AbandonRequest(r) PROVE FALSE
  BY <1>3 DEF AbandonRequest, Ordinary
<1>4. ASSUME NEW s \in Senders, SenderNext(s) PROVE Goal
  <2>1. sn[s].pc \in {"reload", "mark"} => sn[s].r \in Requests
    BY DEF TypeOK, Sending
  <2>2. CASE SaveUpload(s)
    BY <2>2 DEF SaveUpload, SetsProcessing
  <2>3. CASE ReloadAndMark(s) \/ MarkCoalesced(s)
    BY <2>1, <2>3 DEF ReloadAndMark, MarkCoalesced, SetsProcessing
  <2>4. QED
    BY <1>3, <1>4, <2>2, <2>3
    DEF SenderNext, SenderStep, BeginUpload, FailUpload, AssessReprocess,
        FallbackReprocess, AssessTranslation, EnqueueCreate, EnqueueCoalesce, SendAccepted,
        SendFailed, Finalize, SenderCrash, Recover, StaffRetry
<1>5. ASSUME NEW w \in Workers, WorkerNext(w) PROVE Goal
  <2>1. CASE Phase1(w) \/ TranslationClaim(w)
    BY <1>2, <2>1 DEF Phase1, TranslationClaim, SetsProcessing
  <2>2. CASE Execute(w)
    BY <1>1, <2>1, <2>2
    DEF Execute, SourcesInvalid, PageIncomplete, PersistFailure, PersistSuccess,
        RefuseTranslation, RestoreAfterAbort, PersistTranslation
  <2>3. CASE Claim(w)
    BY <2>3 DEF Claim, ClaimAck, ClaimExecute, ClaimFence, ClaimDefer, Fence
  <2>4. QED
    BY <1>5, <2>2, <2>3 DEF WorkerNext, Receive, Terminalize, Ack, WorkerCrash
<1>6. ASSUME EnvNext PROVE Goal
  BY <1>3, <1>6 DEF EnvNext, Age, LeaseExpires, FenceCommand, Fence, Abandon, VerifyText
<1>7. QED
  BY <1>4, <1>5, <1>6 DEF Next

(* A worker that concludes with permission leaves another state behind.    *)
LEMMA ConcludingEndsProcessing ==
  ASSUME TypeOK, Events = {}, text.ver = {}, up = "UPLOADED",
         NEW w \in Workers, WorkerNext(w), wk[w].pc # "terminalize",
         PersistIsAllowed(w), wk'[w].pc = "terminalize"
  PROVE  doc' # "PROCESSING"
<1>1. wk \in [Workers -> Worker] /\ wk[w] \in Worker
  BY DEF TypeOK
<1>2. /\ \A t, engine : Rollup(t, engine) # "PROCESSING"
      /\ \A t : RollupDisplayed(t) # "PROCESSING"
  BY RollupIsOrdinary DEF Ordinary, RollupDisplayed
<1>3. ASSUME Release(w) \/ Acknowledge(w) PROVE FALSE
  BY <1>1, <1>3, IdleTypes DEF Release, Acknowledge, IdleWorker
<1>4. /\ wk' # [wk EXCEPT ![w].pc = "provider"]
      /\ wk' # [wk EXCEPT ![w].pc = "provider", ![w].prior = doc]
  BY <1>1 DEF Worker
<1>5. CASE Phase1(w)
  BY <1>4, <1>5 DEF Phase1
<1>6. CASE TranslationClaim(w)
  <2>1. doc' = IF doc = "PROCESSING" THEN RollupDisplayed(text) ELSE doc
    BY <1>3, <1>4, <1>6 DEF TranslationClaim
  <2>2. QED
    BY <1>2, <2>1
<1>7. ASSUME \/ SourcesInvalid(w) \/ PageIncomplete(w) \/ PersistFailure(w)
             \/ RestoreAfterAbort(w)
             \/ \E src \in SourceResults, heb \in TranslationResults : PersistSuccess(w, src, heb)
             \/ \E heb \in TranslationResults : PersistTranslation(w, heb)
      PROVE  doc' # "PROCESSING"
  <2>1. CASE SourcesInvalid(w) \/ PageIncomplete(w)
    BY <2>1 DEF SourcesInvalid, PageIncomplete
  <2>2. CASE PersistFailure(w)
    BY <1>2, <2>2 DEF PersistFailure
  <2>3. CASE RestoreAfterAbort(w)
    BY <1>2, <2>3 DEF RestoreAfterAbort
  <2>4. ASSUME NEW src \in SourceResults, NEW heb \in TranslationResults,
               PersistSuccess(w, src, heb)
        PROVE  doc' # "PROCESSING"
    <3>1. doc' = Rollup(text', "ocr")
      BY <2>4 DEF PersistSuccess
    <3>2. QED
      BY <1>2, <3>1
  <2>5. ASSUME NEW heb \in TranslationResults, PersistTranslation(w, heb)
        PROVE  doc' # "PROCESSING"
    BY <1>2, <2>5 DEF PersistTranslation
  <2>6. QED
    BY <1>7, <2>1, <2>2, <2>3, <2>4, <2>5
<1>8. ASSUME RefuseTranslation(w) PROVE FALSE
  BY <1>1, <1>8 DEF RefuseTranslation, Worker
<1>9. ASSUME Claim(w) \/ Terminalize(w) \/ Ack(w) \/ WorkerCrash(w) PROVE FALSE
  BY <1>1, <1>3, <1>9
  DEF Claim, ClaimAck, ClaimExecute, ClaimFence, ClaimDefer, Terminalize, Ack, WorkerCrash,
      Worker
<1>10. ASSUME NEW m \in queue, Receive(w, m) PROVE FALSE
  BY <1>1, <1>10 DEF Receive, IdleWorker
<1>11. QED
  BY <1>5, <1>6, <1>7, <1>8, <1>9, <1>10 DEF WorkerNext, Execute

LEMMA ConclusionIsKept ==
  ASSUME ProcessingInvariant, Events = {}, Next
  PROVE  ConcludedIsNotProcessing'
<1> SUFFICES ASSUME NEW w \in Workers, wk'[w].pc = "terminalize", PersistIsAllowed(w)'
             PROVE  doc' # "PROCESSING"
  BY DEF ConcludedIsNotProcessing
<1> USE DEF ProcessingInvariant
<1>1. TypeOK /\ RefersToCreated /\ CreatedInOrder
  BY DEF InductiveInvariant
<1>2. CASE wk'[w] = wk[w]
  <2>1. PersistIsAllowed(w) /\ wk[w].pc \in Working /\ wk[w].r \in Requests
    BY <1>1, <1>2, PermissionIsOld DEF Working, TypeOK
  <2>2. doc # "PROCESSING"
    BY <1>2, <2>1 DEF ConcludedIsNotProcessing
  <2>3. up = "UPLOADED"
    BY <1>1, <2>1 DEF RefersToCreated, UploadComesFirst, Working
  <2>4. ASSUME NEW r \in Requests, req[r].status = "QUEUED" PROVE FALSE
    <3>1. r \in Nat /\ wk[w].r \in Nat
      BY <2>1, MaxRequestsAssumption DEF Requests
    <3>2. /\ req[wk[w].r].status \in {"RUNNING", "RECOVERY_REQUIRED"}
      BY <2>1 DEF PersistIsAllowed
    <3>3. ~(r < wk[w].r) /\ ~(wk[w].r < r) /\ r # wk[w].r
      BY <1>1, <2>1, <2>4, <3>2 DEF CreatedInOrder, Created, Terminal
    <3>4. QED
      BY <3>1, <3>3
  <2>5. ASSUME NEW v \in Workers, wk[v].pc = "start", PersistIsAllowed(v) PROVE FALSE
    <3>1. v = w
      BY <2>1, <2>5, OneMayWrite DEF Working
    <3>2. QED
      BY <1>2, <2>5, <3>1
  <2>6. QED
    BY <1>1, <2>2, <2>3, <2>4, <2>5, ProcessingIsSet DEF SetsProcessing
<1>3. CASE wk'[w] # wk[w]
  <2>1. WorkerNext(w)
    BY <1>1, <1>3, WorkersMoveThemselves
  <2>2. wk[w].pc \in Working
    <3>1. wk \in [Workers -> Worker]
      BY <1>1 DEF TypeOK
    <3>2. ~ClaimExecute(w)
      BY <3>1 DEF ClaimExecute, Worker
    <3>3. wk'[w].pc \in Working
      BY DEF Working
    <3>4. QED
      BY <1>1, <2>1, <3>2, <3>3, WorkGoesOn
  <2>3. PersistIsAllowed(w) /\ Created(wk[w].r)
    BY <1>1, <2>2, PermissionIsOld DEF Working, RefersToCreated
  <2>4. up = "UPLOADED"
    BY <1>1, <2>2, <2>3 DEF UploadComesFirst, TypeOK, Working
  <2>5. wk[w].pc # "terminalize"
    <3> SUFFICES ASSUME wk[w].pc = "terminalize" PROVE FALSE
      OBVIOUS
    <3>1. wk \in [Workers -> Worker]
      BY <1>1 DEF TypeOK
    <3>2. Release(w) \/ Acknowledge(w)
      BY <2>1
      DEF WorkerNext, Receive, Claim, ClaimAck, ClaimExecute, ClaimFence, ClaimDefer,
          Execute, Phase1, SourcesInvalid, PageIncomplete, PersistFailure, PersistSuccess,
          TranslationClaim, RefuseTranslation, RestoreAfterAbort, PersistTranslation,
          Terminalize, Ack, WorkerCrash
    <3>3. QED
      BY <3>1, <3>2, IdleTypes DEF Release, Acknowledge, IdleWorker
  <2>6. QED
    BY <1>1, <2>1, <2>3, <2>4, <2>5, ConcludingEndsProcessing
<1>4. QED
  BY <1>2, <1>3

LEMMA ProcessingStaysRequested ==
  ASSUME ProcessingInvariant, Events = {}, Next
  PROVE  ProcessingHasRequest'
<1> SUFFICES ASSUME doc' = "PROCESSING", NEW c \in Requests, req'[c].status # "NONE"
             PROVE  \E r \in Requests : req'[r].status \in Active
  BY DEF ProcessingHasRequest
<1> USE DEF ProcessingInvariant
<1>1. TypeOK /\ RefersToCreated /\ GrantsMatchStatus /\ RequestStep /\ RowsAdvance
  BY StepsFollowRows, RowsAdvanceByStep DEF InductiveInvariant
<1>2. CASE \A r \in Requests : ~Created(r)
  <2>1. PICK r \in Requests, row \in Request :
          req' = [req EXCEPT ![r] = row] /\ RowStep(r, row)
    BY <1>1, <1>2 DEF RequestStep, Created
  <2>2. req'[r] = row /\ req[r].status = "NONE" /\ req[r].lease = "none"
    BY <1>1, <1>2, <2>1 DEF Created, GrantsMatchStatus, TypeOK, Request
  <2>3. row.status = "QUEUED"
    BY <2>1, <2>2
    DEF RowStep, CreatesRow, KeepsWaiting, GrantsRow, ExpiresLease, ParksRow, FinishesRow,
        Waiting
  <2>4. QED
    BY <2>2, <2>3 DEF Active, Waiting
<1>3. CASE \E r \in Requests : req[r].status \in Active /\ req' = req
  BY <1>3
<1>4. ASSUME NEW r \in Requests, req[r].status \in Active, doc = "PROCESSING"
      PROVE  req'[r].status \in Active
  <2> SUFFICES ASSUME req'[r].status \notin Active PROVE FALSE
    OBVIOUS
  <2>1. /\ req[r].status \in {"RUNNING", "RECOVERY_REQUIRED"} /\ req'[r].status \in Terminal
        /\ req[r].status = "RECOVERY_REQUIRED" => doc' \in Ordinary
    <3>1. PICK q \in Requests, row \in Request :
            req' = [req EXCEPT ![q] = row] /\ RowStep(q, row)
      BY <1>1, <1>4 DEF RequestStep
    <3>2. q = r /\ req'[r] = row
      BY <1>1, <1>4, <3>1 DEF TypeOK
    <3>3. req[r] \in Request
      BY <1>1 DEF TypeOK
    <3>4. row.status \notin Active
      BY <3>2
    <3>5. ~ExpiresLease(q, row) /\ ~ParksRow(q, row)
      BY <1>4, <3>2, <3>3, <3>4 DEF ExpiresLease, ParksRow, Active, Request
    <3>6. ~CreatesRow(q, row) /\ ~KeepsWaiting(q, row) /\ ~GrantsRow(q, row)
      BY <3>4 DEF CreatesRow, KeepsWaiting, GrantsRow, Active, Waiting
    <3>7. QED
      BY <3>1, <3>2, <3>5, <3>6 DEF RowStep, FinishesRow
  <2>2. req[r].status = "RUNNING"
    BY <2>1 DEF Ordinary
  <2>3. \E w \in Workers : wk[w].pc = "terminalize" /\ PersistIsAllowed(w)
    BY <1>1, <2>1, <2>2, RunningEndsByReport
  <2>4. QED
    BY <1>4, <2>3 DEF ConcludedIsNotProcessing
<1>5. CASE up = "UPLOADED" /\ doc = "PROCESSING"
  BY <1>2, <1>4, <1>5 DEF ProcessingHasRequest, Created
<1>6. CASE up # "UPLOADED"
  BY <1>2, <1>6 DEF UploadComesFirst
<1>7. CASE doc # "PROCESSING" /\ up = "UPLOADED"
  <2>1. \A w \in Workers : wk[w].pc = "start" => wk[w].r \in Requests
    BY <1>1 DEF TypeOK
  <2>2. \E r \in Requests : req[r].status \in Active /\ req' = req
    BY <1>1, <1>7, <2>1, ProcessingIsSet DEF SetsProcessing, PersistIsAllowed, Active, Waiting
  <2>3. QED
    BY <1>3, <2>2
<1>8. QED
  BY <1>5, <1>6, <1>7

(* A document shown as PROCESSING has a request that accounts for it: a    *)
(* worker writes another state before its request ends, a fence parks it,  *)
(* and senders set PROCESSING only for a QUEUED request. Where no upload   *)
(* saves a stale Document, nobody reviews meanwhile and the restore after  *)
(* a refused translation does not fail.                                    *)
THEOREM ProcessingIsAccountedFor ==
  ASSUME Events = {}
  PROVE  Spec => []ProcessingHasRequest
<1>1. Init => ProcessingInvariant
  <2> SUFFICES ASSUME Init PROVE ProcessingInvariant
    OBVIOUS
  <2>1. /\ wk = [w \in Workers |-> IdleWorker] /\ req = [r \in Requests |-> NoRequest]
        /\ sn = [s \in Senders |-> IdleSender]
    BY DEF Init
  <2>2. /\ NoText.ver = {}
        /\ \A heb : SaveResults(NoText, "usable", heb, 0).ver = {}
        /\ SaveFailure(NoText, 0).ver = {}
    BY DEF NoText, SaveResults, SaveFailure
  <2>3. text.ver = {}
    BY <2>2 DEF Init
  <2>4. WorkersAreExclusive /\ UploadComesFirst /\ ConcludedIsNotProcessing
        /\ ProcessingHasRequest
    BY <2>1, IdleTypes
    DEF WorkersAreExclusive, UploadComesFirst, ConcludedIsNotProcessing, Working, NoRequest,
        ProcessingHasRequest, Created
  <2>5. QED
    BY <2>3, <2>4, InitEstablishesInvariant DEF ProcessingInvariant
<1>2. ProcessingInvariant /\ [Next]_vars => ProcessingInvariant'
  <2> SUFFICES ASSUME ProcessingInvariant, [Next]_vars PROVE ProcessingInvariant'
    OBVIOUS
  <2>1. InductiveInvariant' /\ WorkersAreExclusive'
    BY StepKeepsInvariant, ExclusionIsKept DEF ProcessingInvariant
  <2>2. CASE UNCHANGED vars
    BY <2>1, <2>2
    DEF vars, ProcessingInvariant, UploadComesFirst, Created, ConcludedIsNotProcessing,
        PersistIsAllowed, ProcessingHasRequest
  <2>3. CASE Next
    BY <2>1, <2>3, NothingIsVerified, UploadStaysFirst, ConclusionIsKept,
       ProcessingStaysRequested
    DEF ProcessingInvariant, InductiveInvariant
  <2>4. QED
    BY <2>2, <2>3
<1>3. ProcessingInvariant => ProcessingHasRequest
  BY DEF ProcessingInvariant
<1>4. QED
  BY <1>1, <1>2, <1>3, PTL DEF Spec

-----------------------------------------------------------------------------
(* What workers may write. *)

(* A VERIFIED row is never replaced: the persist transaction looks for one *)
(* before it saves, and a translation retry does not save over one.        *)
THEOREM VerifiedRowsStay == Spec => VerifiedTextIsKept
<1> DEFINE Step == \A type \in text.ver : Row(text', "ocr", type) = Row(text, "ocr", type)
<1>1. InductiveInvariant /\ [Next]_vars => [Step]_vars
  <2> SUFFICES ASSUME InductiveInvariant, Next PROVE Step
    BY DEF vars
  <2>1. text \in TextRecord
    BY DEF InductiveInvariant, TypeOK
  <2>2. ASSUME text'.src = text.src, text'.heb = text.heb PROVE Step
    BY <2>2 DEF Row
  <2>3. ASSUME NEW s \in Senders, SenderNext(s) PROVE Step
    BY <2>2, <2>3
    DEF SenderNext, SenderStep, BeginUpload, SaveUpload, FailUpload, AssessReprocess,
        FallbackReprocess, AssessTranslation, EnqueueCreate, EnqueueCoalesce, SendAccepted,
        SendFailed, Finalize, ReloadAndMark, MarkCoalesced, SenderCrash, Recover, StaffRetry
  <2>4. ASSUME NEW w \in Workers, Execute(w) PROVE Step
    <3>1. CASE PageIncomplete(w)
      BY <2>1, <2>2, <3>1 DEF PageIncomplete, TextRecord
    <3>2. CASE PersistFailure(w)
      <4>1. /\ SaveFailure(text, wk[w].r).src = text.src
            /\ SaveFailure(text, wk[w].r).heb = text.heb
        BY <2>1 DEF TextRecord, SaveFailure
      <4>2. QED
        BY <2>2, <3>2, <4>1 DEF PersistFailure
    <3>3. ASSUME NEW src \in SourceResults, NEW heb \in TranslationResults,
                 PersistSuccess(w, src, heb)
          PROVE  Step
      <4>1. CASE text.ver = {}
        BY <4>1
      <4>2. CASE text' = [text EXCEPT !.pages = FALSE]
        BY <2>1, <2>2, <4>2 DEF TextRecord
      <4>3. QED
        BY <3>3, <4>1, <4>2 DEF PersistSuccess
    <3>4. ASSUME NEW heb \in TranslationResults, PersistTranslation(w, heb) PROVE Step
      <4>1. "heb" \notin text.ver
        BY <3>4 DEF PersistTranslation, TranslationSource
      <4>2. text'.src = text.src
        BY <2>1, <3>4 DEF PersistTranslation, TextRecord
      <4>3. text.ver \subseteq {"src", "heb"}
        BY <2>1 DEF TextRecord
      <4>4. QED
        BY <4>1, <4>2, <4>3 DEF Row
    <3>5. QED
      BY <2>2, <2>4, <3>1, <3>2, <3>3, <3>4
      DEF Execute, Phase1, SourcesInvalid, TranslationClaim, RefuseTranslation,
          RestoreAfterAbort
  <2>5. ASSUME NEW w \in Workers, WorkerNext(w) PROVE Step
    BY <2>2, <2>4, <2>5
    DEF WorkerNext, Receive, Claim, ClaimAck, ClaimExecute, ClaimFence, ClaimDefer,
        Terminalize, Ack, WorkerCrash
  <2>6. ASSUME EnvNext PROVE Step
    <3>1. ASSUME NEW type \in {"src", "heb"}, VerifyText(type) PROVE Step
      BY <2>1, <2>2, <3>1 DEF VerifyText, TextRecord
    <3>2. QED
      BY <2>2, <2>6, <3>1 DEF EnvNext, Age, LeaseExpires, FenceCommand, Abandon
  <2>7. QED
    BY <2>3, <2>5, <2>6 DEF Next
<1>2. QED
  BY <1>1, InvariantHolds, PTL DEF Spec, VerifiedTextIsKept

(* No worker translates a Hebrew document. *)
NobodyTranslates ==
  \A w \in Workers :
    /\ wk[w].pc # "restore"
    /\ wk[w].pc = "provider" => ~IsTranslation(wk[w].r)

LEMMA HebrewIsNotTranslated ==
  ASSUME Hebrew, InductiveInvariant, NobodyTranslates, Next
  PROVE  NobodyTranslates'
<1>1. /\ TypeOK /\ RefersToCreated /\ RowsAdvance
      /\ wk \in [Workers -> Worker]
  BY StepsFollowRows, RowsAdvanceByStep DEF InductiveInvariant, TypeOK
<1> SUFFICES ASSUME NEW w \in Workers
             PROVE  /\ wk'[w].pc # "restore"
                    /\ wk'[w].pc = "provider" => ~IsTranslation(wk[w].r)'
  BY DEF NobodyTranslates
<1>2. wk[w].pc # "idle" =>
        /\ wk[w].r \in Requests
        /\ req'[wk[w].r].payload = req[wk[w].r].payload
  BY <1>1 DEF TypeOK, RefersToCreated, RowsAdvance
<1>3. CASE wk'[w] = wk[w]
  BY <1>2, <1>3 DEF NobodyTranslates, IsTranslation
<1>4. ASSUME wk'[w] # wk[w], wk'[w].pc \in {"provider", "restore"}
      PROVE  Phase1(w)
  <2>1. WorkerNext(w)
    BY <1>1, <1>4, WorkersMoveThemselves
  <2>2. ~Release(w) /\ ~Acknowledge(w) /\ \A out : ~Conclude(w, out)
    BY <1>1, <1>4, IdleTypes, ConcludeSetsOutcome, ZenonT(60) DEF Release, Acknowledge, IdleWorker
  <2>3. ~ClaimExecute(w) /\ ~\E m \in queue : Receive(w, m)
    BY <1>1, <1>4, ZenonT(60) DEF ClaimExecute, Receive, IdleWorker, Worker
  <2>4. ~TranslationClaim(w)
    BY <2>2 DEF TranslationClaim, Translatable, TranslationSource
  <2>5. ~RefuseTranslation(w) /\ ~RestoreAfterAbort(w)
    BY DEF RefuseTranslation, RestoreAfterAbort, NobodyTranslates
  <2>6. \A src, heb : ~PersistSuccess(w, src, heb) /\ ~PersistTranslation(w, heb)
    BY <2>2 DEF PersistSuccess, PersistTranslation
  <2>7. ~SourcesInvalid(w) /\ ~PageIncomplete(w) /\ ~PersistFailure(w)
    BY <2>2 DEF SourcesInvalid, PageIncomplete, PersistFailure
  <2>8. ~Claim(w) /\ ~Terminalize(w) /\ ~Ack(w) /\ ~WorkerCrash(w)
    BY <2>2, <2>3
    DEF Claim, ClaimAck, ClaimFence, ClaimDefer, Terminalize, Ack, WorkerCrash
  <2>9. QED
    BY <2>1, <2>3, <2>4, <2>5, <2>6, <2>7, <2>8 DEF WorkerNext, Execute
<1>5. CASE Phase1(w)
  <2>1. /\ wk[w].pc = "start" /\ ~IsTranslation(wk[w].r) /\ req' = req
        /\ wk'[w].pc \in {"provider", "terminalize"} /\ wk'[w].r = wk[w].r
    BY <1>1, <1>5, ConcludeSetsOutcome DEF Phase1, Worker
  <2>2. QED
    BY <2>1 DEF IsTranslation
<1>6. QED
  BY <1>3, <1>4, <1>5

(* Every write of a worker to the document asks for its lease, except for  *)
(* a refused set of images and for the restore after a refused translation *)
(* retry, which other runs show: a one-image Hebrew document has neither.  *)
THEOREM WorkersWriteAsHolders ==
  ASSUME ~MultiImage, Hebrew
  PROVE  Spec => DocumentWrittenByHolder
<1> DEFINE Step == \A w \in Workers :
                     wk'[w] # wk[w] /\ wk[w].pc # "claim" /\ doc' # doc
                       => PersistIsAllowed(w)
<1>1. Init => NobodyTranslates
  BY IdleTypes DEF Init, NobodyTranslates
<1>2. InductiveInvariant /\ NobodyTranslates /\ [Next]_vars => NobodyTranslates'
  <2>1. CASE UNCHANGED vars
    BY <2>1 DEF vars, NobodyTranslates, IsTranslation
  <2>2. QED
    BY <2>1, HebrewIsNotTranslated
<1>3. InductiveInvariant /\ NobodyTranslates /\ [Next]_vars => [Step]_vars
  <2> SUFFICES ASSUME InductiveInvariant, NobodyTranslates, Next,
                      NEW w \in Workers, wk'[w] # wk[w], wk[w].pc # "claim", doc' # doc
               PROVE  PersistIsAllowed(w)
    BY DEF vars
  <2>1. WorkerNext(w)
    BY WorkersMoveThemselves DEF InductiveInvariant
  <2>2. Execute(w)
    BY <2>1
    DEF WorkerNext, Receive, Claim, ClaimAck, ClaimExecute, ClaimFence, ClaimDefer,
        Terminalize, Ack, WorkerCrash
  <2>3. ~SourcesInvalid(w) /\ ~RestoreAfterAbort(w)
    BY DEF SourcesInvalid, RestoreAfterAbort, NobodyTranslates
  <2>4. QED
    BY <2>2, <2>3
    DEF Execute, Phase1, PageIncomplete, PersistFailure, PersistSuccess, TranslationClaim,
        RefuseTranslation, PersistTranslation
<1>4. QED
  BY <1>1, <1>2, <1>3, InvariantHolds, PTL DEF Spec, DocumentWrittenByHolder

-----------------------------------------------------------------------------
(* Refinement. *)

(* The durable request implements RequestLifecycle: whatever the enqueue,  *)
(* claim, fence, abandon and terminalize transactions do, one request at a *)
(* time moves one phase on, and a new one waits for the end of the last.   *)
THEOREM ImplementsLifecycle == Spec => LifecycleSpec
<1> DEFINE phasebar == [r \in Requests |-> PhaseOf(req[r].status)]
<1>1. Init => Lifecycle!Init
  <2> SUFFICES ASSUME Init PROVE phasebar = [r \in Requests |-> "absent"]
    BY DEF Lifecycle!Init
  <2>1. ASSUME NEW r \in Requests PROVE PhaseOf(req[r].status) = "absent"
    <3>1. req[r].status = "NONE"
      BY DEF Init, NoRequest
    <3>2. QED
      BY <3>1 DEF PhaseOf, Waiting
  <2>2. QED
    BY <2>1
<1>2. InductiveInvariant /\ [Next]_vars => [Lifecycle!Next]_phasebar
  <2> SUFFICES ASSUME InductiveInvariant, Next, phasebar' # phasebar
               PROVE  Lifecycle!Next
    BY DEF vars
  <2>1. RequestStep
    BY StepsFollowRows DEF InductiveInvariant
  <2>2. PICK r \in Requests, row \in Request :
          req' = [req EXCEPT ![r] = row] /\ RowStep(r, row)
    BY <2>1 DEF RequestStep
  <2>3. req \in [Requests -> Request] /\ req[r] \in Request
    BY DEF InductiveInvariant, TypeOK
  <2>4. phasebar' = [phasebar EXCEPT ![r] = PhaseOf(row.status)]
    BY <2>2, <2>3
  <2>5. CASE CreatesRow(r, row)
    <3>1. \A q \in Requests : phasebar[q] \notin {"waiting", "running", "parked"}
      <4> SUFFICES ASSUME NEW q \in Requests
                   PROVE  PhaseOf(req[q].status) \notin {"waiting", "running", "parked"}
        OBVIOUS
      <4>1. r \in Nat /\ q \in Nat
        BY MaxRequestsAssumption DEF Requests
      <4>2. req[q].status \in Terminal \cup {"NONE"}
        BY <2>5, <4>1
        DEF CreatesRow, InductiveInvariant, CreatedInOrder, Created, Terminal
      <4>3. QED
        BY <4>2 DEF PhaseOf, Terminal, Waiting
    <3>2. PhaseOf(row.status) = "waiting" /\ PhaseOf(req[r].status) = "absent"
      BY <2>5 DEF CreatesRow, PhaseOf, Waiting
    <3>3. Lifecycle!Create(r)
      BY <2>4, <3>1, <3>2 DEF Lifecycle!Create, Lifecycle!Unfinished
    <3>4. QED
      BY <3>3 DEF Lifecycle!Next
  <2>6. CASE GrantsRow(r, row)
    <3>1. PhaseOf(row.status) = "running" /\ PhaseOf(req[r].status) = "waiting"
      BY <2>6 DEF GrantsRow, PhaseOf, Waiting
    <3>2. Lifecycle!Grant(r)
      BY <2>4, <3>1 DEF Lifecycle!Grant
    <3>3. QED
      BY <3>2 DEF Lifecycle!Next
  <2>7. CASE ParksRow(r, row)
    <3>1. PhaseOf(row.status) = "parked" /\ PhaseOf(req[r].status) = "running"
      BY <2>3, <2>7 DEF ParksRow, PhaseOf, Waiting, Request
    <3>2. Lifecycle!Park(r)
      BY <2>4, <3>1 DEF Lifecycle!Park
    <3>3. QED
      BY <3>2 DEF Lifecycle!Next
  <2>8. CASE FinishesRow(r, row)
    <3>1. PhaseOf(row.status) = "done" /\ PhaseOf(req[r].status) \in {"running", "parked"}
      BY <2>8 DEF FinishesRow, PhaseOf, Waiting, Terminal
    <3>2. Lifecycle!Finish(r)
      BY <2>4, <3>1 DEF Lifecycle!Finish
    <3>3. QED
      BY <3>2 DEF Lifecycle!Next
  <2>9. CASE KeepsWaiting(r, row) \/ ExpiresLease(r, row)
    <3>1. PhaseOf(row.status) = PhaseOf(req[r].status)
      BY <2>3, <2>9 DEF KeepsWaiting, ExpiresLease, PhaseOf, Waiting, Request
    <3>2. phasebar' = phasebar
      BY <2>4, <3>1
    <3>3. QED
      BY <3>2
  <2>10. QED
    BY <2>2, <2>5, <2>6, <2>7, <2>8, <2>9 DEF RowStep
<1>3. QED
  BY <1>1, <1>2, InvariantHolds, PTL DEF Spec, LifecycleSpec, Lifecycle!Spec
=============================================================================
