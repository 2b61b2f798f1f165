------------------------ MODULE CorrectedCurrentSync ------------------------
(***************************************************************************)
(* The staff's "fetch the corrected transcript" of one document: the       *)
(* senders that create or coalesce a durable request and send its message, *)
(* the workers that claim, fence and execute it, and the attempt row that  *)
(* records what the provider work came to.                                 *)
(*                                                                         *)
(* One action is one transaction, one send or one delete. A lease token is *)
(* its holder: the handler that still knows it, or nobody once that        *)
(* handler is gone. A delivery that is deferred changes nothing, so it has *)
(* no action; the message stays receivable.                                *)
(***************************************************************************)
EXTENDS Naturals

CONSTANTS
  SyncRequestCount, \* bound: request rows of the document over time
  SyncWorkers,      \* worker handlers that may overlap
  SyncSenders,      \* web requests that may overlap
  SyncSlots,        \* bound: copies of one request's message in the queue
  Nobody            \* not a worker

ASSUME NobodyAssumption == Nobody \notin SyncWorkers

VARIABLES
  ccRequest, \* ccRequest[r]: status, lease and token holder of the row
  ccAttempt, \* ccAttempt[r]: the linked attempt, and how many were started
  ccQueue,   \* messages <<request, copy>> not yet deleted
  ccWorker,  \* ccWorker[w]: program counter and delivery of a handler
  ccSender   \* ccSender[s]: program counter and request of an enqueue call

ccVars == <<ccRequest, ccAttempt, ccQueue, ccWorker, ccSender>>

SyncRequests == 1..SyncRequestCount
SyncActive == {"QUEUED", "RUNNING", "RECOVERY_REQUIRED", "ENQUEUE_FAILED"}
SyncTerminal == {"COMPLETED", "REFUSED", "FAILED"}

NoSyncRow == [status |-> "NONE", lease |-> "none", holder |-> Nobody]
NoSyncAttempt == [status |-> "NONE", aged |-> FALSE, starts |-> 0]
IdleSyncWorker == [pc |-> "idle", r |-> 0, slot |-> 0]
IdleSyncSender == [pc |-> "idle", r |-> 0]

Init_Sync ==
  /\ ccRequest = [r \in SyncRequests |-> NoSyncRow]
  /\ ccAttempt = [r \in SyncRequests |-> NoSyncAttempt]
  /\ ccQueue = {}
  /\ ccWorker = [w \in SyncWorkers |-> IdleSyncWorker]
  /\ ccSender = [s \in SyncSenders |-> IdleSyncSender]

Linked(r) == ccAttempt[r].status # "NONE"
AttemptEnded(r) == ccAttempt[r].status \in SyncTerminal

------------------------------------------------------------------------------
(* Senders: enqueue_transkribus_corrected_current_sync. *)

ActiveSync == {r \in SyncRequests : ccRequest[r].status \in SyncActive}

(* _resolve_under_document_lock, when it gives the right to send: there is *)
(* no active row, or the active one is ENQUEUE_FAILED.                     *)
SendRight(r) ==
  \/ ActiveSync = {} /\ ccRequest[r].status = "NONE"
  \/ ccRequest[r].status = "ENQUEUE_FAILED"

EnqueueSync(s, r) ==
  /\ ccSender[s].pc = "idle"
  /\ SendRight(r)
  /\ ccRequest' = [ccRequest EXCEPT ![r].status = "QUEUED"]
  /\ ccSender' = [ccSender EXCEPT ![s] = [pc |-> "send", r |-> r]]
  /\ UNCHANGED <<ccAttempt, ccQueue, ccWorker>>

(* SendMessage: accepted (then only last_enqueued_at is written), rejected *)
(* for certain, or an error that leaves both possible.                     *)
SendSync(s, accepted, error) ==
  /\ ccSender[s].pc = "send"
  /\ accepted \/ error
  /\ \/ ~accepted /\ UNCHANGED ccQueue
     \/ /\ accepted
        /\ \E slot \in SyncSlots :
             /\ <<ccSender[s].r, slot>> \notin ccQueue
             /\ ccQueue' = ccQueue \cup {<<ccSender[s].r, slot>>}
  /\ ccSender' = [ccSender EXCEPT ![s] =
                    IF error THEN [@ EXCEPT !.pc = "failed"] ELSE IdleSyncSender]
  /\ UNCHANGED <<ccRequest, ccAttempt, ccWorker>>

(* _unclaimed_queued_cas_filter *)
UnclaimedSync(r) == ccRequest[r].status = "QUEUED"

(* _finalize_failure: a compare-and-set that never regresses a worker. *)
FinalizeSendFailure(s) ==
  LET r == ccSender[s].r IN
  /\ ccSender[s].pc = "failed"
  /\ ccRequest' = IF UnclaimedSync(r)
                  THEN [ccRequest EXCEPT ![r].status = "ENQUEUE_FAILED"] ELSE ccRequest
  /\ ccSender' = [ccSender EXCEPT ![s] = IdleSyncSender]
  /\ UNCHANGED <<ccAttempt, ccQueue, ccWorker>>

StopSyncSender(s) ==
  /\ ccSender[s].pc # "idle"
  /\ ccSender' = [ccSender EXCEPT ![s] = IdleSyncSender]
  /\ UNCHANGED <<ccRequest, ccAttempt, ccQueue, ccWorker>>

------------------------------------------------------------------------------
(* Workers: handle_sync_transkribus_corrected_current. *)

(* The handler returns or its process dies: its token is known to nobody. *)
Forget(row, w) == IF row.holder = w THEN [row EXCEPT !.holder = Nobody] ELSE row
Leave(w) == ccWorker' = [ccWorker EXCEPT ![w] = IdleSyncWorker]
GoAck(w) == ccWorker' = [ccWorker EXCEPT ![w].pc = "ack"]

(* The row after _apply_terminal_from_attempt or _mark_request_failed. *)
Settled(status) == [status |-> status, lease |-> "none", holder |-> Nobody]

ClaimableStatuses == {"QUEUED", "ENQUEUE_FAILED"}

(* Mutant: a worker that is gone keeps the request. *)
NeverReclaimed(r) == ccRequest[r].status \in ClaimableStatuses

(* _claim_or_reconcile, "execute": never claimed, or claimed and expired. *)
MayClaim(r) ==
  \/ ccRequest[r].status \in ClaimableStatuses
  \/ ccRequest[r].status = "RUNNING" /\ ccRequest[r].lease = "expired"

ClaimSync(w, m) ==
  LET r == m[1] IN
  /\ ccWorker[w].pc = "idle" /\ m \in ccQueue
  /\ ~Linked(r) /\ MayClaim(r)
  /\ ccRequest' = [ccRequest EXCEPT ![r] =
                     [status |-> "RUNNING", lease |-> "live", holder |-> w]]
  /\ ccWorker' = [ccWorker EXCEPT ![w] = [pc |-> "claimed", r |-> r, slot |-> m[2]]]
  /\ UNCHANGED <<ccAttempt, ccQueue, ccSender>>

(* Mutant: the message of an old attempt goes, its request stays RUNNING. *)
Unmarked(r) == IF AttemptEnded(r) THEN Settled(ccAttempt[r].status) ELSE ccRequest[r]

(* What _claim_or_reconcile makes of a row when it answers "ack". *)
Reconciled(r) ==
  IF AttemptEnded(r) THEN Settled(ccAttempt[r].status)
  ELSE [ccRequest[r] EXCEPT !.status = "RECOVERY_REQUIRED", !.lease = "none"]

MayAck(r) ==
  \/ ccRequest[r].status \in SyncTerminal
  \/ AttemptEnded(r)
  \/ Linked(r) /\ ccAttempt[r].aged

ReconcileSync(w, m) ==
  LET r == m[1] IN
  /\ ccWorker[w].pc = "idle" /\ m \in ccQueue
  /\ MayAck(r)
  /\ ccRequest' = IF ccRequest[r].status \in SyncTerminal THEN ccRequest
                  ELSE [ccRequest EXCEPT ![r] = Reconciled(r)]
  /\ ccWorker' = [ccWorker EXCEPT ![w] = [pc |-> "ack", r |-> r, slot |-> m[2]]]
  /\ UNCHANGED <<ccAttempt, ccQueue, ccSender>>

(* Mutant: the fence only asks that the request is running. *)
AnyRunning(w, r) == ccRequest[r].status = "RUNNING"

(* The fence of _create_started_attempt_for_request. *)
MayStart(w, r) ==
  ccRequest[r].status = "RUNNING" /\ ~Linked(r) /\ ccRequest[r].holder = w

(* Fence, create and link the STARTED attempt; without the right to it the *)
(* handler raises, changes nothing and leaves the message (StopSync).      *)
LinkAttempt(w) ==
  LET r == ccWorker[w].r IN
  /\ ccWorker[w].pc = "claimed"
  /\ MayStart(w, r)
  /\ ccAttempt' = [ccAttempt EXCEPT ![r] =
                     [status |-> "STARTED", aged |-> FALSE, starts |-> @.starts + 1]]
  /\ ccWorker' = [ccWorker EXCEPT ![w].pc = "provider"]
  /\ UNCHANGED <<ccRequest, ccQueue, ccSender>>

(* Mutant: the request fails whoever works on it now. *)
AnyHolder(w, r) == ccRequest[r].status = "RUNNING"

HoldsUnlinked(w, r) ==
  ccRequest[r].status = "RUNNING" /\ ccRequest[r].holder = w /\ ~Linked(r)

(* _fail_request_with_lease: no credentials, no initiating user or no run  *)
(* to fetch from. A row that has ended meanwhile is only acknowledged.     *)
FailSync(w) ==
  LET r == ccWorker[w].r IN
  /\ ccWorker[w].pc = "claimed"
  /\ \/ /\ ccRequest[r].status \in SyncTerminal
        /\ UNCHANGED ccRequest
     \/ /\ HoldsUnlinked(w, r)
        /\ ccRequest' = [ccRequest EXCEPT ![r] = Settled("FAILED")]
  /\ GoAck(w)
  /\ UNCHANGED <<ccAttempt, ccQueue, ccSender>>

(* The provider work ends: the attempt leaves STARTED, which nothing else  *)
(* lets it do (_transition_attempt_terminal).                              *)
EndAttempt(w, outcome) ==
  LET r == ccWorker[w].r IN
  /\ ccWorker[w].pc = "provider"
  /\ ccAttempt[r].status = "STARTED"
  /\ ccAttempt' = [ccAttempt EXCEPT ![r].status = outcome]
  /\ ccWorker' = [ccWorker EXCEPT ![w].pc = "finish"]
  /\ UNCHANGED <<ccRequest, ccQueue, ccSender>>

(* _terminalize_request_with_lease, when it returns True. RECOVERY_REQUIRED *)
(* kept the token for exactly this late worker.                            *)
FinishSync(w) ==
  LET r == ccWorker[w].r IN
  /\ ccWorker[w].pc = "finish"
  /\ \/ /\ ccRequest[r].status \in SyncTerminal
        /\ UNCHANGED ccRequest
     \/ /\ ccRequest[r].status \in {"RUNNING", "RECOVERY_REQUIRED"}
        /\ ccRequest[r].holder = w
        /\ AttemptEnded(r)
        /\ ccRequest' = [ccRequest EXCEPT ![r] = Settled(ccAttempt[r].status)]
  /\ GoAck(w)
  /\ UNCHANGED <<ccAttempt, ccQueue, ccSender>>

(* The handler returned True: the message is deleted. *)
AckSync(w) ==
  /\ ccWorker[w].pc = "ack"
  /\ ccQueue' = ccQueue \ {<<ccWorker[w].r, ccWorker[w].slot>>}
  /\ Leave(w)
  /\ UNCHANGED <<ccRequest, ccAttempt, ccSender>>

(* The handler returns False or raises, or its process dies. *)
StopSync(w) ==
  LET r == ccWorker[w].r IN
  /\ ccWorker[w].pc # "idle"
  /\ ccRequest' = [ccRequest EXCEPT ![r] = Forget(@, w)]
  /\ Leave(w)
  /\ UNCHANGED <<ccAttempt, ccQueue, ccSender>>

(* 45 minutes after the claim, 60 minutes after the link. *)
SyncLeaseExpires(r) ==
  /\ ccRequest[r].lease = "live"
  /\ ccRequest' = [ccRequest EXCEPT ![r].lease = "expired"]
  /\ UNCHANGED <<ccAttempt, ccQueue, ccWorker, ccSender>>

AttemptAges(r) ==
  /\ ccAttempt[r].status = "STARTED" /\ ~ccAttempt[r].aged
  /\ ccAttempt' = [ccAttempt EXCEPT ![r].aged = TRUE]
  /\ UNCHANGED <<ccRequest, ccQueue, ccWorker, ccSender>>

ExecuteSync(w) ==
  \/ LinkAttempt(w) \/ FailSync(w)
  \/ \E outcome \in SyncTerminal : EndAttempt(w, outcome)
  \/ FinishSync(w)

ReceiveSync(w, m) == ClaimSync(w, m) \/ ReconcileSync(w, m)

Next_Sync ==
  \/ \E s \in SyncSenders :
       \/ \E r \in SyncRequests : EnqueueSync(s, r)
       \/ \E accepted, error \in BOOLEAN : SendSync(s, accepted, error)
       \/ FinalizeSendFailure(s) \/ StopSyncSender(s)
  \/ \E w \in SyncWorkers :
       \/ \E m \in ccQueue : ReceiveSync(w, m)
       \/ ExecuteSync(w) \/ AckSync(w) \/ StopSync(w)
  \/ \E r \in SyncRequests : SyncLeaseExpires(r) \/ AttemptAges(r)

Spec_Sync == Init_Sync /\ [][Next_Sync]_ccVars

(* The queue redelivers what is not deleted and clocks advance. A process  *)
(* may die anywhere, but not before the same step every time.              *)
SyncFairness ==
  /\ \A r \in SyncRequests :
       /\ WF_ccVars(SyncLeaseExpires(r)) /\ WF_ccVars(AttemptAges(r))
       /\ SF_ccVars(\E w \in SyncWorkers, m \in ccQueue : m[1] = r /\ ReceiveSync(w, m))
       /\ SF_ccVars(\E w \in SyncWorkers : ccWorker[w].r = r /\ ExecuteSync(w))
  /\ \A w \in SyncWorkers : WF_ccVars(AckSync(w)) /\ WF_ccVars(StopSync(w))

------------------------------------------------------------------------------
(* Properties *)

SyncRow == [status : {"NONE"} \cup SyncActive \cup SyncTerminal,
            lease : {"none", "live", "expired"}, holder : SyncWorkers \cup {Nobody}]
SyncAttempt ==
  [status : {"NONE", "STARTED"} \cup SyncTerminal, aged : BOOLEAN, starts : Nat]
SyncHandler == [pc : {"idle", "claimed", "provider", "finish", "ack"},
                r : SyncRequests \cup {0}, slot : SyncSlots \cup {0}]
SyncSend == [pc : {"idle", "send", "failed"}, r : SyncRequests \cup {0}]

(* Every row, message and program counter has one of its shapes. *)
SyncTypeOK ==
  /\ ccRequest \in [SyncRequests -> SyncRow]
  /\ ccAttempt \in [SyncRequests -> SyncAttempt]
  /\ ccQueue \subseteq SyncRequests \X SyncSlots
  /\ ccWorker \in [SyncWorkers -> SyncHandler]
  /\ ccSender \in [SyncSenders -> SyncSend]

(* The provider work of a request is started at most once, whatever is     *)
(* redelivered and however many workers outlive their lease.               *)
ProviderStartsOnce == \A r \in SyncRequests : ccAttempt[r].starts <= 1

(* A request that has ended says what its attempt says, nobody works on it *)
(* any more, and without an attempt it can only have failed.               *)
EndedRequestIsTrue ==
  \A r \in SyncRequests : ccRequest[r].status \in SyncTerminal =>
    /\ ccAttempt[r].status =
         IF ccRequest[r].status = "FAILED" /\ ~Linked(r) THEN "NONE"
         ELSE ccRequest[r].status
    /\ \A w \in SyncWorkers : ccWorker[w].pc = "provider" => ccWorker[w].r # r

(* A running request keeps a message, so that somebody can find it again. *)
RunningSyncKeepsMessage ==
  \A r \in SyncRequests :
    ccRequest[r].status = "RUNNING" => \E m \in ccQueue : m[1] = r

(* A request whose message the queue took ends, or asks for staff. *)
SyncRequestsSettle ==
  \A r \in SyncRequests :
    (\E m \in ccQueue : m[1] = r)
      ~> ccRequest[r].status \in SyncTerminal \cup {"RECOVERY_REQUIRED"}

------------------------------------------------------------------------------
(* The durable request implements FetchLifecycle. *)

SyncPhaseOf(status) ==
  CASE status = "NONE" -> "absent"
    [] status \in ClaimableStatuses -> "waiting"
    [] status = "RUNNING" -> "running"
    [] status = "RECOVERY_REQUIRED" -> "parked"
    [] OTHER -> "done"

WorkOf(status) ==
  CASE status = "NONE" -> "none" [] status = "STARTED" -> "started" [] OTHER -> status

(* No state of FetchLifecycle stands for work that began a second time. *)
ProviderStartsAgain(r) == ccAttempt[r].starts > 1

ToldOf(status) == IF status \in SyncTerminal THEN status ELSE "none"

SyncPhases == [r \in SyncRequests |-> SyncPhaseOf(ccRequest[r].status)]
SyncWork ==
  [r \in SyncRequests |->
     IF ProviderStartsAgain(r) THEN "begun again" ELSE WorkOf(ccAttempt[r].status)]
SyncTold == [r \in SyncRequests |-> ToldOf(ccRequest[r].status)]

Fetch == INSTANCE FetchLifecycle WITH
  Requests <- SyncRequests, Outcomes <- SyncTerminal,
  phase <- SyncPhases, work <- SyncWork, told <- SyncTold

(* Whatever is redelivered, resent, parked or abandoned, one request at a  *)
(* time moves on, its provider work begins once and under a claim, and the *)
(* staff are told what that work came to: Fetch!Spec_Fetch, said of the    *)
(* steps that move something here.                                         *)
FetchIsPromised ==
  /\ Fetch!Init_Fetch
  /\ [][UNCHANGED ccVars \/ [Fetch!Next_Fetch]_(Fetch!fetchVars)]_ccVars
=============================================================================
