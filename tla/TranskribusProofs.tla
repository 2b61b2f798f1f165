-------------------------- MODULE TranskribusProofs --------------------------
(***************************************************************************)
(* Theorems about the two modules of Transkribus. CorrectedCurrentSync,    *)
(* for any number of requests, workers, senders and message copies: the    *)
(* provider work of a request starts once, a request that has ended agrees *)
(* with its attempt, and a running request still has a message. Together   *)
(* they give that CorrectedCurrentSync implements FetchLifecycle.          *)
(* TranskribusRuns, for any number of runs and deliveries: a run stands    *)
(* for one snapshot, and a duplicate delivery leaves alone what the staff  *)
(* edited.                                                                 *)
(***************************************************************************)
EXTENDS CorrectedCurrentSync, TranskribusRuns, FiniteSetTheorems, TLAPS

(* Handlers and senders that are under way work on a request.              *)
WorkHasRequest ==
  /\ \A w \in SyncWorkers : ccWorker[w].pc # "idle" => ccWorker[w].r \in SyncRequests
  /\ \A s \in SyncSenders : ccSender[s].pc # "idle" => ccSender[s].r \in SyncRequests

(* One attempt per request, counted when it is linked.                     *)
StartsAreCounted ==
  \A r \in SyncRequests : ccAttempt[r].starts = IF Linked(r) THEN 1 ELSE 0

(* Provider work goes on under an attempt that has not ended, and is the   *)
(* only one of its request.                                                *)
ProviderHasAttempt ==
  /\ \A w \in SyncWorkers :
       ccWorker[w].pc = "provider" => ccAttempt[ccWorker[w].r].status = "STARTED"
  /\ \A v, w \in SyncWorkers :
       ccWorker[v].pc = "provider" /\ ccWorker[w].pc = "provider"
         /\ ccWorker[v].r = ccWorker[w].r => v = w

(* A message is deleted only after its request left RUNNING for good.      *)
AckedIsSettled ==
  \A w \in SyncWorkers : ccWorker[w].pc = "ack" =>
    ccRequest[ccWorker[w].r].status \in SyncTerminal \cup {"RECOVERY_REQUIRED"}

(* A request that has ended has the status of its attempt.                 *)
EndedAgrees ==
  \A r \in SyncRequests : ccRequest[r].status \in SyncTerminal =>
    ccAttempt[r].status =
      IF ccRequest[r].status = "FAILED" /\ ~Linked(r) THEN "NONE" ELSE ccRequest[r].status

SyncInv ==
  /\ SyncTypeOK /\ WorkHasRequest /\ StartsAreCounted /\ ProviderHasAttempt
  /\ AckedIsSettled /\ EndedAgrees /\ RunningSyncKeepsMessage

------------------------------------------------------------------------------
(* The invariant holds where nothing was requested yet. *)
LEMMA SyncInvHoldsInitially == Init_Sync => SyncInv
<1> SUFFICES ASSUME Init_Sync PROVE SyncInv
  OBVIOUS
<1> USE DEF Init_Sync, NoSyncRow, NoSyncAttempt, IdleSyncWorker, IdleSyncSender,
            SyncTerminal, SyncActive, Linked, SyncRow, SyncAttempt, SyncHandler,
            SyncSend
<1>1. SyncTypeOK
  BY DEF SyncTypeOK
<1>2. WorkHasRequest /\ StartsAreCounted /\ ProviderHasAttempt /\ AckedIsSettled
  BY DEF WorkHasRequest, StartsAreCounted, ProviderHasAttempt, AckedIsSettled
<1>3. EndedAgrees /\ RunningSyncKeepsMessage
  BY DEF EndedAgrees, RunningSyncKeepsMessage
<1> QED
  BY <1>1, <1>2, <1>3 DEF SyncInv

(* Senders touch only rows that no worker has claimed. *)
LEMMA SendersKeepSyncInv ==
  ASSUME SyncInv, NEW s \in SyncSenders,
         \/ \E r \in SyncRequests : EnqueueSync(s, r)
         \/ \E accepted, error \in BOOLEAN : SendSync(s, accepted, error)
         \/ FinalizeSendFailure(s) \/ StopSyncSender(s)
  PROVE  SyncInv'
<1> USE DEF SyncInv, SyncTerminal, SyncActive, Linked, SyncRow, SyncSend
<1>1. ASSUME NEW r \in SyncRequests, EnqueueSync(s, r) PROVE SyncInv'
  <2> USE DEF EnqueueSync, SendRight
  <2>1. SyncTypeOK'
    BY <1>1, SMTT(60) DEF SyncTypeOK
  <2>2. (WorkHasRequest /\ StartsAreCounted /\ ProviderHasAttempt)'
    BY <1>1 DEF SyncTypeOK, WorkHasRequest, StartsAreCounted, ProviderHasAttempt
  <2>3. AckedIsSettled'
    BY <1>1 DEF SyncTypeOK, WorkHasRequest, AckedIsSettled, ActiveSync
  <2>4. (EndedAgrees /\ RunningSyncKeepsMessage)'
    BY <1>1 DEF SyncTypeOK, EndedAgrees, RunningSyncKeepsMessage
  <2> QED
    BY <2>1, <2>2, <2>3, <2>4
<1>2. ASSUME NEW accepted \in BOOLEAN, NEW error \in BOOLEAN, SendSync(s, accepted, error)
      PROVE  SyncInv'
  <2> USE DEF SendSync, IdleSyncSender
  <2>1. SyncTypeOK'
    <3>1. ccSender[s] \in SyncSend /\ ccSender[s].r \in SyncRequests
      BY <1>2 DEF SyncTypeOK, WorkHasRequest
    <3>2. [ccSender[s] EXCEPT !.pc = "failed"] \in SyncSend /\ IdleSyncSender \in SyncSend
      BY <3>1
    <3>3. ccSender' \in [SyncSenders -> SyncSend]
      BY <1>2, <3>2 DEF SyncTypeOK
    <3>4. ccQueue' \subseteq SyncRequests \X SyncSlots
      <4>1. CASE ccQueue' = ccQueue
        BY <4>1 DEF SyncTypeOK
      <4>2. CASE \E slot \in SyncSlots : ccQueue' = ccQueue \cup {<<ccSender[s].r, slot>>}
        BY <3>1, <4>2 DEF SyncTypeOK
      <4> QED
        BY <1>2, <4>1, <4>2
    <3> QED
      BY <1>2, <3>3, <3>4 DEF SyncTypeOK
  <2>2. WorkHasRequest'
    BY <1>2 DEF SyncTypeOK, WorkHasRequest
  <2>3. (StartsAreCounted /\ ProviderHasAttempt /\ AckedIsSettled /\ EndedAgrees)'
    BY <1>2 DEF StartsAreCounted, ProviderHasAttempt, AckedIsSettled, EndedAgrees
  <2>4. RunningSyncKeepsMessage'
    BY <1>2 DEF RunningSyncKeepsMessage
  <2> QED
    BY <2>1, <2>2, <2>3, <2>4
<1>3. ASSUME FinalizeSendFailure(s) PROVE SyncInv'
  <2> USE DEF FinalizeSendFailure, UnclaimedSync, IdleSyncSender
  <2>1. SyncTypeOK'
    <3>1. [ccRequest EXCEPT ![ccSender[s].r].status = "ENQUEUE_FAILED"]
            \in [SyncRequests -> SyncRow]
      BY ZenonT(60) DEF SyncTypeOK
    <3>2. ccRequest' \in [SyncRequests -> SyncRow]
      BY <1>3, <3>1 DEF SyncTypeOK
    <3>3. ccSender' \in [SyncSenders -> SyncSend]
      BY <1>3 DEF SyncTypeOK
    <3> QED
      BY <1>3, <3>2, <3>3 DEF SyncTypeOK
  <2>2. (WorkHasRequest /\ StartsAreCounted /\ ProviderHasAttempt)'
    BY <1>3 DEF SyncTypeOK, WorkHasRequest, StartsAreCounted, ProviderHasAttempt
  <2>3. AckedIsSettled'
    BY <1>3 DEF SyncTypeOK, WorkHasRequest, AckedIsSettled
  <2>4. (EndedAgrees /\ RunningSyncKeepsMessage)'
    BY <1>3 DEF SyncTypeOK, EndedAgrees, RunningSyncKeepsMessage
  <2> QED
    BY <2>1, <2>2, <2>3, <2>4
<1>4. ASSUME StopSyncSender(s) PROVE SyncInv'
  <2> USE DEF StopSyncSender, IdleSyncSender
  <2>1. SyncTypeOK' /\ WorkHasRequest'
    BY <1>4 DEF SyncTypeOK, WorkHasRequest
  <2>2. (/\ StartsAreCounted /\ ProviderHasAttempt /\ AckedIsSettled /\ EndedAgrees
         /\ RunningSyncKeepsMessage)'
    BY <1>4 DEF StartsAreCounted, ProviderHasAttempt, AckedIsSettled, EndedAgrees,
           RunningSyncKeepsMessage
  <2> QED
    BY <2>1, <2>2
<1> QED
  BY <1>1, <1>2, <1>3, <1>4

(* A delivery claims only unlinked rows and keeps its message. *)
LEMMA ReceiversKeepSyncInv ==
  ASSUME SyncInv, NEW w \in SyncWorkers, NEW m \in ccQueue, ReceiveSync(w, m)
  PROVE  SyncInv'
<1> USE DEF SyncInv, SyncTerminal, SyncActive, Linked, SyncRow, SyncHandler
<1>1. m[1] \in SyncRequests /\ m[2] \in SyncSlots
  BY DEF SyncTypeOK
<1>2. CASE ClaimSync(w, m)
  <2> USE DEF ClaimSync, MayClaim, ClaimableStatuses
  <2>1. SyncTypeOK'
    BY <1>1, <1>2 DEF SyncTypeOK
  <2>2. (WorkHasRequest /\ StartsAreCounted)'
    BY <1>1, <1>2 DEF SyncTypeOK, WorkHasRequest, StartsAreCounted
  <2>3. ProviderHasAttempt'
    BY <1>1, <1>2 DEF SyncTypeOK, ProviderHasAttempt
  <2>4. AckedIsSettled'
    BY <1>1, <1>2 DEF SyncTypeOK, WorkHasRequest, AckedIsSettled
  <2>5. EndedAgrees'
    BY <1>1, <1>2 DEF SyncTypeOK, EndedAgrees
  <2>6. RunningSyncKeepsMessage'
    BY <1>1, <1>2 DEF SyncTypeOK, RunningSyncKeepsMessage
  <2> QED
    BY <2>1, <2>2, <2>3, <2>4, <2>5, <2>6
<1>3. CASE ReconcileSync(w, m)
  <2> USE DEF ReconcileSync, MayAck, AttemptEnded, Reconciled, Settled
  <2>0. Reconciled(m[1]) \in SyncRow
    <3>1. ccRequest[m[1]] \in SyncRow
      BY <1>1 DEF SyncTypeOK
    <3>2. [ccRequest[m[1]] EXCEPT !.status = "RECOVERY_REQUIRED", !.lease = "none"]
            \in SyncRow
      BY <3>1
    <3> QED
      BY <3>2
  <2>1. SyncTypeOK'
    <3>1. ccRequest' \in [SyncRequests -> SyncRow]
      <4>1. [ccRequest EXCEPT ![m[1]] = Reconciled(m[1])] \in [SyncRequests -> SyncRow]
        BY <2>0 DEF SyncTypeOK
      <4> QED
        BY <1>3, <4>1 DEF SyncTypeOK
    <3>2. ccWorker' \in [SyncWorkers -> SyncHandler]
      BY <1>1, <1>3 DEF SyncTypeOK
    <3> QED
      BY <1>3, <3>1, <3>2 DEF SyncTypeOK
  <2>2. (WorkHasRequest /\ StartsAreCounted)'
    BY <1>1, <1>3 DEF SyncTypeOK, WorkHasRequest, StartsAreCounted
  <2>3. ProviderHasAttempt'
    BY <1>1, <1>3 DEF SyncTypeOK, ProviderHasAttempt
  <2>4. AckedIsSettled'
    BY <1>1, <1>3 DEF SyncTypeOK, WorkHasRequest, AckedIsSettled
  <2>5. EndedAgrees'
    BY <1>1, <1>3 DEF SyncTypeOK, EndedAgrees
  <2>6. RunningSyncKeepsMessage'
    BY <1>1, <1>3 DEF SyncTypeOK, RunningSyncKeepsMessage
  <2> QED
    BY <2>1, <2>2, <2>3, <2>4, <2>5, <2>6
<1> QED
  BY <1>2, <1>3 DEF ReceiveSync

(* A handler writes under its token, and only a STARTED attempt ends. *)
LEMMA ExecutionKeepsSyncInv ==
  ASSUME SyncInv, NEW w \in SyncWorkers, ExecuteSync(w)
  PROVE  SyncInv'
<1> USE DEF SyncInv, SyncTerminal, SyncActive, Linked, SyncRow, SyncHandler
<1> DEFINE r == ccWorker[w].r
<1>1. CASE LinkAttempt(w)
  <2> USE DEF LinkAttempt, MayStart
  <2>1. r \in SyncRequests /\ ccRequest[r].status = "RUNNING" /\ ~Linked(r)
    BY <1>1 DEF WorkHasRequest
  <2>2. SyncTypeOK'
    <3>1. [status |-> "STARTED", aged |-> FALSE, starts |-> ccAttempt[r].starts + 1]
            \in SyncAttempt
      BY <2>1 DEF SyncTypeOK, SyncAttempt
    <3>2. ccAttempt' \in [SyncRequests -> SyncAttempt]
      BY <1>1, <3>1 DEF SyncTypeOK
    <3>3. ccWorker' \in [SyncWorkers -> SyncHandler]
      BY <1>1, SMTT(60) DEF SyncTypeOK
    <3> QED
      BY <1>1, <3>2, <3>3 DEF SyncTypeOK
  <2>3. WorkHasRequest'
    BY <1>1, <2>1 DEF SyncTypeOK, WorkHasRequest
  <2>4. StartsAreCounted'
    BY <1>1, <2>1 DEF SyncTypeOK, StartsAreCounted
  <2>5. ProviderHasAttempt'
    BY <1>1, <2>1 DEF SyncTypeOK, ProviderHasAttempt
  <2>6. AckedIsSettled' /\ EndedAgrees' /\ RunningSyncKeepsMessage'
    BY <1>1, <2>1 DEF SyncTypeOK, AckedIsSettled, EndedAgrees, RunningSyncKeepsMessage
  <2> QED
    BY <2>2, <2>3, <2>4, <2>5, <2>6
<1>2. CASE FailSync(w)
  <2> USE DEF FailSync, HoldsUnlinked, Settled, GoAck
  <2>1. r \in SyncRequests
    BY <1>2 DEF WorkHasRequest
  <2>2. SyncTypeOK'
    <3>1. [ccRequest EXCEPT ![r] = [status |-> "FAILED", lease |-> "none",
                                    holder |-> Nobody]] \in [SyncRequests -> SyncRow]
      BY DEF SyncTypeOK
    <3>2. ccRequest' \in [SyncRequests -> SyncRow]
      BY <1>2, <3>1 DEF SyncTypeOK
    <3>3. ccWorker' = [ccWorker EXCEPT ![w].pc = "ack"]
      BY <1>2
    <3>4. ccWorker' \in [SyncWorkers -> SyncHandler]
      BY <3>3 DEF SyncTypeOK
    <3> QED
      BY <1>2, <3>2, <3>4 DEF SyncTypeOK
  <2>3. WorkHasRequest' /\ StartsAreCounted' /\ ProviderHasAttempt'
    BY <1>2, <2>1 DEF SyncTypeOK, WorkHasRequest, StartsAreCounted, ProviderHasAttempt
  <2>4. AckedIsSettled'
    BY <1>2, <2>1 DEF SyncTypeOK, WorkHasRequest, AckedIsSettled
  <2>5. EndedAgrees' /\ RunningSyncKeepsMessage'
    BY <1>2, <2>1 DEF SyncTypeOK, EndedAgrees, RunningSyncKeepsMessage
  <2> QED
    BY <2>2, <2>3, <2>4, <2>5
<1>3. ASSUME NEW outcome \in SyncTerminal, EndAttempt(w, outcome) PROVE SyncInv'
  <2> USE DEF EndAttempt
  <2>1. r \in SyncRequests
    BY <1>3 DEF WorkHasRequest
  <2>2. SyncTypeOK'
    <3>1. ccAttempt' \in [SyncRequests -> SyncAttempt]
      <4>1. [ccAttempt[r] EXCEPT !.status = outcome] \in SyncAttempt
        BY <2>1 DEF SyncTypeOK, SyncAttempt
      <4>2. ccAttempt' = [ccAttempt EXCEPT ![r] = [ccAttempt[r] EXCEPT !.status = outcome]]
        BY <1>3
      <4> QED
        BY <4>1, <4>2 DEF SyncTypeOK
    <3>2. ccWorker' \in [SyncWorkers -> SyncHandler]
      BY <1>3 DEF SyncTypeOK
    <3> QED
      BY <1>3, <3>1, <3>2 DEF SyncTypeOK
  <2>3. WorkHasRequest'
    BY <1>3, <2>1 DEF SyncTypeOK, WorkHasRequest
  <2>4. StartsAreCounted'
    BY <1>3, <2>1 DEF SyncTypeOK, StartsAreCounted
  <2>5. ProviderHasAttempt'
    BY <1>3, <2>1 DEF SyncTypeOK, ProviderHasAttempt
  <2>6. AckedIsSettled' /\ EndedAgrees' /\ RunningSyncKeepsMessage'
    BY <1>3, <2>1 DEF SyncTypeOK, AckedIsSettled, EndedAgrees, RunningSyncKeepsMessage
  <2> QED
    BY <2>2, <2>3, <2>4, <2>5, <2>6
<1>4. CASE FinishSync(w)
  <2> USE DEF FinishSync, AttemptEnded, Settled, GoAck
  <2>1. r \in SyncRequests
    BY <1>4 DEF WorkHasRequest
  <2>2. SyncTypeOK'
    BY <1>4, <2>1, SMTT(60) DEF SyncTypeOK
  <2>3. WorkHasRequest' /\ StartsAreCounted' /\ ProviderHasAttempt'
    BY <1>4, <2>1 DEF SyncTypeOK, WorkHasRequest, StartsAreCounted, ProviderHasAttempt
  <2>4. AckedIsSettled'
    BY <1>4, <2>1 DEF SyncTypeOK, WorkHasRequest, AckedIsSettled
  <2>5. EndedAgrees'
    <3>1. ccRequest' = ccRequest
            \/ /\ ccAttempt[r].status \in SyncTerminal
               /\ ccRequest' = [ccRequest EXCEPT ![r] =
                    [status |-> ccAttempt[r].status, lease |-> "none", holder |-> Nobody]]
      BY <1>4
    <3>2. ccAttempt' = ccAttempt
      BY <1>4
    <3>3. CASE ccRequest' = ccRequest
      BY <3>2, <3>3 DEF EndedAgrees
    <3>4. CASE /\ ccAttempt[r].status \in SyncTerminal
               /\ ccRequest' = [ccRequest EXCEPT ![r] =
                    [status |-> ccAttempt[r].status, lease |-> "none", holder |-> Nobody]]
      <4> SUFFICES ASSUME NEW q \in SyncRequests, ccRequest'[q].status \in SyncTerminal
                   PROVE  ccAttempt[q].status =
                            IF ccRequest'[q].status = "FAILED" /\ ccAttempt[q].status = "NONE"
                            THEN "NONE" ELSE ccRequest'[q].status
        BY <3>2 DEF EndedAgrees
      <4>1. CASE q = r
        BY <2>1, <3>4, <4>1 DEF SyncTypeOK
      <4>2. CASE q # r
        BY <3>4, <4>2 DEF SyncTypeOK, EndedAgrees
      <4> QED
        BY <4>1, <4>2
    <3> QED
      BY <3>1, <3>3, <3>4
  <2>6. RunningSyncKeepsMessage'
    BY <1>4, <2>1 DEF SyncTypeOK, RunningSyncKeepsMessage
  <2> QED
    BY <2>2, <2>3, <2>4, <2>5, <2>6
<1> QED
  BY <1>1, <1>2, <1>3, <1>4 DEF ExecuteSync

(* A handler that ends deletes at most its own message, and forgets its    *)
(* token; time only moves the two clocks.                                  *)
LEMMA EndsAndClocksKeepSyncInv ==
  ASSUME SyncInv,
         \/ \E w \in SyncWorkers : AckSync(w) \/ StopSync(w)
         \/ \E r \in SyncRequests : SyncLeaseExpires(r) \/ AttemptAges(r)
  PROVE  SyncInv'
<1> USE DEF SyncInv, SyncTerminal, SyncActive, Linked, SyncRow, SyncHandler
<1>1. ASSUME NEW w \in SyncWorkers, AckSync(w) PROVE SyncInv'
  <2> USE DEF AckSync, Leave, IdleSyncWorker
  <2>1. SyncTypeOK' /\ WorkHasRequest'
    BY <1>1 DEF SyncTypeOK, WorkHasRequest
  <2>2. (StartsAreCounted /\ ProviderHasAttempt /\ AckedIsSettled /\ EndedAgrees)'
    BY <1>1 DEF SyncTypeOK, StartsAreCounted, ProviderHasAttempt, AckedIsSettled, EndedAgrees
  <2>3. RunningSyncKeepsMessage'
    <3>1. ccRequest[ccWorker[w].r].status # "RUNNING"
      BY <1>1 DEF AckedIsSettled
    <3> QED
      BY <1>1, <3>1 DEF RunningSyncKeepsMessage
  <2> QED
    BY <2>1, <2>2, <2>3
<1>2. ASSUME NEW w \in SyncWorkers, StopSync(w) PROVE SyncInv'
  <2> DEFINE r == ccWorker[w].r
  <2>1. r \in SyncRequests
    BY <1>2 DEF StopSync, WorkHasRequest
  <2>2. /\ ccRequest' = [ccRequest EXCEPT ![r] = Forget(ccRequest[r], w)]
        /\ ccWorker' = [ccWorker EXCEPT ![w] = IdleSyncWorker]
        /\ ccAttempt' = ccAttempt /\ ccQueue' = ccQueue /\ ccSender' = ccSender
    BY <1>2 DEF StopSync, Leave
  <2>3. Forget(ccRequest[r], w) \in SyncRow
    <3>1. ccRequest[r] \in SyncRow
      BY <2>1 DEF SyncTypeOK
    <3>2. [ccRequest[r] EXCEPT !.holder = Nobody] \in SyncRow
      BY <3>1
    <3> QED
      BY <3>1, <3>2 DEF Forget
  <2>4. Forget(ccRequest[r], w).status = ccRequest[r].status
    BY <2>1 DEF SyncTypeOK, Forget
  <2>5. \A q \in SyncRequests : ccRequest'[q].status = ccRequest[q].status
    BY <2>2, <2>4 DEF SyncTypeOK
  <2>6. SyncTypeOK'
    BY <2>2, <2>3 DEF SyncTypeOK, IdleSyncWorker
  <2>7. WorkHasRequest' /\ StartsAreCounted' /\ ProviderHasAttempt'
    BY <2>2 DEF SyncTypeOK, WorkHasRequest, StartsAreCounted, ProviderHasAttempt,
                IdleSyncWorker
  <2>8. AckedIsSettled'
    BY <2>2, <2>5 DEF SyncTypeOK, WorkHasRequest, AckedIsSettled, IdleSyncWorker
  <2>9. EndedAgrees' /\ RunningSyncKeepsMessage'
    BY <2>2, <2>5 DEF EndedAgrees, RunningSyncKeepsMessage
  <2> QED
    BY <2>6, <2>7, <2>8, <2>9
<1>3. ASSUME NEW r \in SyncRequests, SyncLeaseExpires(r) PROVE SyncInv'
  <2> USE DEF SyncLeaseExpires
  <2>1. SyncTypeOK'
    BY <1>3, SMTT(60) DEF SyncTypeOK
  <2>2. (WorkHasRequest /\ StartsAreCounted /\ ProviderHasAttempt)'
    BY <1>3 DEF WorkHasRequest, StartsAreCounted, ProviderHasAttempt
  <2>3. (AckedIsSettled /\ EndedAgrees /\ RunningSyncKeepsMessage)'
    BY <1>3 DEF SyncTypeOK, WorkHasRequest, AckedIsSettled, EndedAgrees,
                RunningSyncKeepsMessage
  <2> QED
    BY <2>1, <2>2, <2>3
<1>4. ASSUME NEW r \in SyncRequests, AttemptAges(r) PROVE SyncInv'
  <2> USE DEF AttemptAges
  <2>1. SyncTypeOK'
    <3>0. ccAttempt[r] \in SyncAttempt
      BY DEF SyncTypeOK
    <3>1. [ccAttempt[r] EXCEPT !.aged = TRUE] \in SyncAttempt
      BY <3>0, Zenon DEF SyncAttempt
    <3>2. ccAttempt' = [ccAttempt EXCEPT ![r] = [ccAttempt[r] EXCEPT !.aged = TRUE]]
      BY <1>4
    <3> QED
      BY <1>4, <3>1, <3>2 DEF SyncTypeOK
  <2>2. (WorkHasRequest /\ StartsAreCounted /\ ProviderHasAttempt)'
    BY <1>4 DEF SyncTypeOK, WorkHasRequest, StartsAreCounted, ProviderHasAttempt
  <2>3. (AckedIsSettled /\ EndedAgrees /\ RunningSyncKeepsMessage)'
    BY <1>4 DEF SyncTypeOK, AckedIsSettled, EndedAgrees, RunningSyncKeepsMessage
  <2> QED
    BY <2>1, <2>2, <2>3
<1> QED
  BY <1>1, <1>2, <1>3, <1>4

------------------------------------------------------------------------------
(* Every reachable state satisfies the invariant. *)
THEOREM SyncInvariantHolds == Spec_Sync => []SyncInv
<1>1. Init_Sync => SyncInv
  BY SyncInvHoldsInitially
<1>2. ASSUME SyncInv, [Next_Sync]_ccVars PROVE SyncInv'
  <2>1. CASE UNCHANGED ccVars
    BY <1>2, <2>1
    DEF ccVars, SyncInv, SyncTypeOK, WorkHasRequest, StartsAreCounted, ProviderHasAttempt,
        AckedIsSettled, EndedAgrees, RunningSyncKeepsMessage, Linked
  <2>2. CASE \E s \in SyncSenders :
               \/ \E r \in SyncRequests : EnqueueSync(s, r)
               \/ \E accepted, error \in BOOLEAN : SendSync(s, accepted, error)
               \/ FinalizeSendFailure(s) \/ StopSyncSender(s)
    BY <1>2, <2>2, SendersKeepSyncInv
  <2>3. CASE \E w \in SyncWorkers, m \in ccQueue : ReceiveSync(w, m)
    BY <1>2, <2>3, ReceiversKeepSyncInv
  <2>4. CASE \E w \in SyncWorkers : ExecuteSync(w)
    BY <1>2, <2>4, ExecutionKeepsSyncInv
  <2>5. CASE \/ \E w \in SyncWorkers : AckSync(w) \/ StopSync(w)
             \/ \E r \in SyncRequests : SyncLeaseExpires(r) \/ AttemptAges(r)
    BY <1>2, <2>5, EndsAndClocksKeepSyncInv
  <2> QED
    BY <1>2, <2>1, <2>2, <2>3, <2>4, <2>5 DEF Next_Sync
<1> QED
  BY <1>1, <1>2, PTL DEF Spec_Sync

(* However often a message is redelivered and however many workers outlive *)
(* their lease, Transkribus is asked once per request                      *)
(* (_create_started_attempt_for_request).                                  *)
THEOREM SyncProviderStartsOnce == Spec_Sync => []ProviderStartsOnce
<1>1. SyncInv => ProviderStartsOnce
  BY DEF SyncInv, StartsAreCounted, ProviderStartsOnce
<1> QED
  BY <1>1, SyncInvariantHolds, PTL

(* The terminal status of a request is the one of its attempt, and no      *)
(* provider work goes on under it (_apply_terminal_from_attempt).          *)
THEOREM EndedSyncRequestsAreTrue == Spec_Sync => []EndedRequestIsTrue
<1>1. SyncInv => EndedRequestIsTrue
  <2> SUFFICES ASSUME SyncInv, NEW r \in SyncRequests,
                      ccRequest[r].status \in SyncTerminal,
                      NEW w \in SyncWorkers, ccWorker[w].pc = "provider",
                      ccWorker[w].r = r
               PROVE  FALSE
    BY DEF SyncInv, EndedAgrees, EndedRequestIsTrue
  <2>1. ccAttempt[r].status = "STARTED"
    BY DEF SyncInv, ProviderHasAttempt
  <2> QED
    BY <2>1 DEF SyncInv, EndedAgrees, SyncTerminal
<1> QED
  BY <1>1, SyncInvariantHolds, PTL

(* No acknowledgement takes away the last message of a running request.    *)
THEOREM RunningSyncRequestsKeepAMessage == Spec_Sync => []RunningSyncKeepsMessage
<1>1. SyncInv => RunningSyncKeepsMessage
  BY DEF SyncInv
<1> QED
  BY <1>1, SyncInvariantHolds, PTL

------------------------------------------------------------------------------
(* Refinement of FetchLifecycle. A step changes the status of one request  *)
(* or of one attempt, in one of these ways.                                *)

RowMoves(r, status) ==
  \A q \in SyncRequests :
    ccRequest'[q].status = IF q = r THEN status ELSE ccRequest[q].status
WorkMoves(r, status) ==
  \A q \in SyncRequests :
    ccAttempt'[q].status = IF q = r THEN status ELSE ccAttempt[q].status
RowsStay == \A q \in SyncRequests : ccRequest'[q].status = ccRequest[q].status
WorkStays == \A q \in SyncRequests : ccAttempt'[q].status = ccAttempt[q].status

Unsettled(r) == ccRequest[r].status \notin SyncTerminal

CreatesSync(r) ==
  /\ ccRequest[r].status = "NONE"
  /\ \A q \in SyncRequests : ccRequest[q].status \notin SyncActive
  /\ RowMoves(r, "QUEUED") /\ WorkStays
ResendsSync(r, status) ==
  /\ ccRequest[r].status \in ClaimableStatuses /\ status \in ClaimableStatuses
  /\ RowMoves(r, status) /\ WorkStays
GrantsSync(r) ==
  /\ ccRequest[r].status \in ClaimableStatuses \cup {"RUNNING"} /\ ~Linked(r)
  /\ RowMoves(r, "RUNNING") /\ WorkStays
SettlesSync(r) ==
  /\ AttemptEnded(r) /\ Unsettled(r)
  /\ RowMoves(r, ccAttempt[r].status) /\ WorkStays
ParksSync(r) ==
  /\ Linked(r) /\ ~AttemptEnded(r) /\ Unsettled(r)
  /\ RowMoves(r, "RECOVERY_REQUIRED") /\ WorkStays
FailsSync(r) ==
  /\ ccRequest[r].status = "RUNNING" /\ ~Linked(r)
  /\ RowMoves(r, "FAILED") /\ WorkStays
BeginsWork(r) ==
  /\ ccRequest[r].status = "RUNNING" /\ ~Linked(r)
  /\ RowsStay /\ WorkMoves(r, "STARTED")
EndsWork(r, outcome) ==
  /\ ccAttempt[r].status = "STARTED" /\ outcome \in SyncTerminal
  /\ RowsStay /\ WorkMoves(r, outcome)

StatusStep ==
  \/ RowsStay /\ WorkStays
  \/ \E r \in SyncRequests :
       \/ CreatesSync(r) \/ GrantsSync(r) \/ SettlesSync(r) \/ ParksSync(r)
       \/ FailsSync(r) \/ BeginsWork(r)
       \/ \E status \in ClaimableStatuses : ResendsSync(r, status)
       \/ \E outcome \in SyncTerminal : EndsWork(r, outcome)

(* A row that is replaced moves to the status of the new one.              *)
LEMMA ReplacedRowMoves ==
  ASSUME SyncTypeOK, NEW r \in SyncRequests
  PROVE  /\ \A row : ccRequest' = [ccRequest EXCEPT ![r] = row] => RowMoves(r, row.status)
         /\ \A status : ccRequest' = [ccRequest EXCEPT ![r].status = status]
              => RowMoves(r, status)
         /\ \A row : ccAttempt' = [ccAttempt EXCEPT ![r] = row] => WorkMoves(r, row.status)
         /\ \A status : ccAttempt' = [ccAttempt EXCEPT ![r].status = status]
              => WorkMoves(r, status)
         /\ UNCHANGED ccRequest => RowsStay
         /\ UNCHANGED ccAttempt => WorkStays
<1>1. ASSUME NEW row, ccRequest' = [ccRequest EXCEPT ![r] = row]
      PROVE  RowMoves(r, row.status)
  BY <1>1 DEF SyncTypeOK, RowMoves
<1>2. ASSUME NEW status, ccRequest' = [ccRequest EXCEPT ![r].status = status]
      PROVE  RowMoves(r, status)
  BY <1>2 DEF SyncTypeOK, SyncRow, RowMoves
<1>3. ASSUME NEW row, ccAttempt' = [ccAttempt EXCEPT ![r] = row]
      PROVE  WorkMoves(r, row.status)
  BY <1>3 DEF SyncTypeOK, WorkMoves
<1>4. ASSUME NEW status, ccAttempt' = [ccAttempt EXCEPT ![r].status = status]
      PROVE  WorkMoves(r, status)
  BY <1>4 DEF SyncTypeOK, SyncAttempt, WorkMoves
<1> QED
  BY <1>1, <1>2, <1>3, <1>4 DEF RowsStay, WorkStays

LEMMA SendersFollowStatuses ==
  ASSUME SyncInv, NEW s \in SyncSenders,
         \/ \E r \in SyncRequests : EnqueueSync(s, r)
         \/ \E accepted, error \in BOOLEAN : SendSync(s, accepted, error)
         \/ FinalizeSendFailure(s) \/ StopSyncSender(s)
  PROVE  StatusStep
<1>0. SyncTypeOK
  BY DEF SyncInv
<1>1. ASSUME NEW r \in SyncRequests, EnqueueSync(s, r) PROVE StatusStep
  <2>1. RowMoves(r, "QUEUED") /\ WorkStays
    BY <1>0, <1>1, ReplacedRowMoves DEF EnqueueSync
  <2>2. CASE ActiveSync = {} /\ ccRequest[r].status = "NONE"
    BY <2>1, <2>2 DEF CreatesSync, ActiveSync, StatusStep
  <2>3. CASE ccRequest[r].status = "ENQUEUE_FAILED"
    BY <2>1, <2>3 DEF ResendsSync, ClaimableStatuses, StatusStep
  <2> QED
    BY <1>1, <2>2, <2>3 DEF EnqueueSync, SendRight
<1>2. ASSUME NEW accepted \in BOOLEAN, NEW error \in BOOLEAN,
             SendSync(s, accepted, error) \/ StopSyncSender(s)
      PROVE  StatusStep
  BY <1>2 DEF SendSync, StopSyncSender, StatusStep, RowsStay, WorkStays
<1>3. CASE FinalizeSendFailure(s)
  <2> DEFINE r == ccSender[s].r
  <2>1. r \in SyncRequests
    BY <1>3 DEF FinalizeSendFailure, SyncInv, WorkHasRequest
  <2>2. CASE UnclaimedSync(r)
    <3>1. RowMoves(r, "ENQUEUE_FAILED") /\ WorkStays
      BY <1>0, <1>3, <2>1, <2>2, ReplacedRowMoves DEF FinalizeSendFailure
    <3>2. ResendsSync(r, "ENQUEUE_FAILED")
      BY <2>2, <3>1 DEF ResendsSync, UnclaimedSync, ClaimableStatuses
    <3> QED
      BY <2>1, <3>2 DEF StatusStep, ClaimableStatuses
  <2>3. CASE ~UnclaimedSync(r)
    BY <1>3, <2>3 DEF FinalizeSendFailure, StatusStep, RowsStay, WorkStays
  <2> QED
    BY <2>2, <2>3
<1> QED
  BY <1>1, <1>2, <1>3

LEMMA ReceiversFollowStatuses ==
  ASSUME SyncInv, NEW w \in SyncWorkers, NEW m \in ccQueue, ReceiveSync(w, m)
  PROVE  StatusStep
<1> DEFINE r == m[1]
<1>0. SyncTypeOK /\ r \in SyncRequests
  BY DEF SyncInv, SyncTypeOK
<1>1. CASE ClaimSync(w, m)
  <2>1. RowMoves(r, "RUNNING") /\ WorkStays
    <3>1. PICK row : row = [status |-> "RUNNING", lease |-> "live", holder |-> w]
      OBVIOUS
    <3>2. ccRequest' = [ccRequest EXCEPT ![r] = row] /\ UNCHANGED ccAttempt
      BY <1>1, <3>1 DEF ClaimSync
    <3>3. RowMoves(r, row.status) /\ WorkStays
      BY <1>0, <3>2, ReplacedRowMoves
    <3> QED
      BY <3>1, <3>3
  <2>2. GrantsSync(r)
    BY <1>1, <2>1 DEF ClaimSync, MayClaim, GrantsSync
  <2> QED
    BY <1>0, <2>2 DEF StatusStep
<1>2. CASE ReconcileSync(w, m)
  <2>1. CASE ~Unsettled(r)
    BY <1>2, <2>1 DEF ReconcileSync, Unsettled, StatusStep, RowsStay, WorkStays
  <2>2. CASE Unsettled(r)
    <3>1. ccRequest' = [ccRequest EXCEPT ![r] = Reconciled(r)] /\ UNCHANGED ccAttempt
      BY <1>2, <2>2 DEF ReconcileSync, Unsettled
    <3>2. RowMoves(r, Reconciled(r).status) /\ WorkStays
      BY <1>0, <3>1, ReplacedRowMoves
    <3>3. CASE AttemptEnded(r)
      <4>1. SettlesSync(r)
        BY <2>2, <3>2, <3>3 DEF SettlesSync, Reconciled, Settled
      <4> QED
        BY <1>0, <4>1 DEF StatusStep
    <3>4. CASE ~AttemptEnded(r)
      <4>1. Reconciled(r).status = "RECOVERY_REQUIRED"
        BY <1>0, <3>4 DEF Reconciled, SyncTypeOK, SyncRow
      <4>2. Linked(r)
        BY <1>2, <2>2, <3>4 DEF ReconcileSync, MayAck, Unsettled
      <4>3. ParksSync(r)
        BY <2>2, <3>2, <3>4, <4>1, <4>2 DEF ParksSync
      <4> QED
        BY <1>0, <4>3 DEF StatusStep
    <3> QED
      BY <3>3, <3>4
  <2> QED
    BY <2>1, <2>2
<1> QED
  BY <1>1, <1>2 DEF ReceiveSync

LEMMA ExecutionFollowsStatuses ==
  ASSUME SyncInv, NEW w \in SyncWorkers, ExecuteSync(w)
  PROVE  StatusStep
<1> DEFINE r == ccWorker[w].r
<1>0. SyncTypeOK /\ r \in SyncRequests
  BY DEF SyncInv, ExecuteSync, LinkAttempt, FailSync, EndAttempt, FinishSync, WorkHasRequest
<1>1. CASE LinkAttempt(w)
  <2>1. WorkMoves(r, "STARTED") /\ RowsStay
    <3>1. PICK row : row = [status |-> "STARTED", aged |-> FALSE,
                            starts |-> ccAttempt[r].starts + 1]
      OBVIOUS
    <3>2. ccAttempt' = [ccAttempt EXCEPT ![r] = row] /\ UNCHANGED ccRequest
      BY <1>0, <1>1, <3>1 DEF LinkAttempt, SyncTypeOK
    <3>3. WorkMoves(r, row.status) /\ RowsStay
      BY <1>0, <3>2, ReplacedRowMoves
    <3> QED
      BY <3>1, <3>3
  <2>2. BeginsWork(r)
    BY <1>1, <2>1 DEF LinkAttempt, MayStart, BeginsWork
  <2> QED
    BY <1>0, <2>2 DEF StatusStep
<1>2. CASE FailSync(w)
  <2>1. CASE UNCHANGED ccRequest
    BY <1>2, <2>1 DEF FailSync, StatusStep, RowsStay, WorkStays
  <2>2. CASE HoldsUnlinked(w, r) /\ ccRequest' = [ccRequest EXCEPT ![r] = Settled("FAILED")]
    <3>1. RowMoves(r, Settled("FAILED").status) /\ WorkStays
      BY <1>0, <1>2, <2>2, ReplacedRowMoves DEF FailSync
    <3>2. FailsSync(r)
      BY <2>2, <3>1 DEF FailsSync, HoldsUnlinked, Settled
    <3> QED
      BY <1>0, <3>2 DEF StatusStep
  <2> QED
    BY <1>2, <2>1, <2>2 DEF FailSync
<1>3. ASSUME NEW outcome \in SyncTerminal, EndAttempt(w, outcome) PROVE StatusStep
  <2>1. WorkMoves(r, outcome) /\ RowsStay
    BY <1>0, <1>3, ReplacedRowMoves DEF EndAttempt
  <2>2. EndsWork(r, outcome)
    BY <1>3, <2>1 DEF EndAttempt, EndsWork
  <2> QED
    BY <1>0, <2>2 DEF StatusStep
<1>4. CASE FinishSync(w)
  <2>1. CASE UNCHANGED ccRequest
    BY <1>4, <2>1 DEF FinishSync, StatusStep, RowsStay, WorkStays
  <2>2. CASE /\ ccRequest[r].status \in {"RUNNING", "RECOVERY_REQUIRED"}
             /\ AttemptEnded(r)
             /\ ccRequest' = [ccRequest EXCEPT ![r] = Settled(ccAttempt[r].status)]
    <3>1. RowMoves(r, Settled(ccAttempt[r].status).status) /\ WorkStays
      BY <1>0, <1>4, <2>2, ReplacedRowMoves DEF FinishSync
    <3>2. SettlesSync(r)
      BY <2>2, <3>1 DEF SettlesSync, Settled, Unsettled, SyncTerminal
    <3> QED
      BY <1>0, <3>2 DEF StatusStep
  <2> QED
    BY <1>4, <2>1, <2>2 DEF FinishSync
<1> QED
  BY <1>1, <1>2, <1>3, <1>4 DEF ExecuteSync

LEMMA StepsFollowStatuses ==
  ASSUME SyncInv, [Next_Sync]_ccVars
  PROVE  StatusStep
<1>1. CASE UNCHANGED ccVars
  BY <1>1 DEF ccVars, StatusStep, RowsStay, WorkStays
<1>2. ASSUME NEW w \in SyncWorkers, AckSync(w) \/ StopSync(w) PROVE StatusStep
  <2>1. CASE AckSync(w)
    BY <2>1 DEF AckSync, StatusStep, RowsStay, WorkStays
  <2>2. CASE StopSync(w)
    <3> DEFINE r == ccWorker[w].r
    <3>1. r \in SyncRequests /\ SyncTypeOK
      BY <2>2 DEF StopSync, SyncInv, WorkHasRequest
    <3>2. Forget(ccRequest[r], w).status = ccRequest[r].status
      BY <3>1 DEF Forget, SyncTypeOK, SyncRow
    <3>3. RowMoves(r, Forget(ccRequest[r], w).status) /\ WorkStays
      BY <2>2, <3>1, ReplacedRowMoves DEF StopSync
    <3> QED
      BY <3>2, <3>3 DEF StatusStep, RowMoves, RowsStay
  <2> QED
    BY <1>2, <2>1, <2>2
<1>3. ASSUME NEW r \in SyncRequests, SyncLeaseExpires(r) \/ AttemptAges(r)
      PROVE  StatusStep
  <2>1. SyncTypeOK
    BY DEF SyncInv
  <2>2. RowsStay
    BY <1>3, <2>1 DEF SyncLeaseExpires, AttemptAges, SyncTypeOK, SyncRow, RowsStay
  <2>3. WorkStays
    BY <1>3, <2>1 DEF SyncLeaseExpires, AttemptAges, SyncTypeOK, SyncAttempt, WorkStays
  <2> QED
    BY <2>2, <2>3 DEF StatusStep
<1> QED
  BY <1>1, <1>2, <1>3, SendersFollowStatuses, ReceiversFollowStatuses,
     ExecutionFollowsStatuses
  DEF Next_Sync

(* A request with an attempt was claimed, and is never claimable again.    *)
LinkedIsGranted ==
  \A r \in SyncRequests :
    Linked(r) => ccRequest[r].status \notin ClaimableStatuses \cup {"NONE"}

LEMMA LinkedIsGrantedStays ==
  ASSUME SyncInv, LinkedIsGranted, StatusStep
  PROVE  LinkedIsGranted'
<1> USE DEF LinkedIsGranted, Linked, AttemptEnded, ClaimableStatuses, SyncTerminal,
            RowsStay, RowMoves, WorkStays, WorkMoves
<1>1. CASE RowsStay /\ WorkStays
  BY <1>1
<1>2. ASSUME NEW r \in SyncRequests,
             \/ CreatesSync(r) \/ GrantsSync(r) \/ SettlesSync(r) \/ ParksSync(r)
             \/ FailsSync(r)
      PROVE  LinkedIsGranted'
  BY <1>2 DEF CreatesSync, GrantsSync, SettlesSync, ParksSync, FailsSync
<1>3. ASSUME NEW r \in SyncRequests, BeginsWork(r) PROVE LinkedIsGranted'
  BY <1>3 DEF BeginsWork
<1>4. ASSUME NEW r \in SyncRequests, NEW status \in ClaimableStatuses,
             ResendsSync(r, status)
      PROVE  LinkedIsGranted'
  BY <1>4 DEF ResendsSync
<1>5. ASSUME NEW r \in SyncRequests, NEW outcome \in SyncTerminal, EndsWork(r, outcome)
      PROVE  LinkedIsGranted'
  BY <1>5 DEF EndsWork
<1> QED
  BY <1>1, <1>2, <1>3, <1>4, <1>5 DEF StatusStep

(* While no work has begun twice, the mapped work is the attempt's status. *)
WorkIsTheStatus == SyncWork = [r \in SyncRequests |-> WorkOf(ccAttempt[r].status)]

LEMMA WorkIsTheStatusOfOneStart ==
  ASSUME SyncInv
  PROVE  WorkIsTheStatus
<1>1. \A r \in SyncRequests : ccAttempt[r].starts \in {0, 1}
  BY DEF SyncInv, StartsAreCounted
<1>2. \A r \in SyncRequests : ~ProviderStartsAgain(r)
  BY <1>1 DEF ProviderStartsAgain
<1> QED
  BY <1>2 DEF SyncWork, WorkIsTheStatus

(* The mapped state follows the statuses.                                  *)
LEMMA MappedStateFollows ==
  ASSUME WorkIsTheStatus, WorkIsTheStatus'
  PROVE
  /\ RowsStay => UNCHANGED <<SyncPhases, SyncTold>>
  /\ WorkStays => UNCHANGED SyncWork
  /\ \A r \in SyncRequests : \A status :
       /\ RowMoves(r, status) =>
            /\ SyncPhases' = [SyncPhases EXCEPT ![r] = SyncPhaseOf(status)]
            /\ SyncTold' = [SyncTold EXCEPT ![r] = ToldOf(status)]
       /\ WorkMoves(r, status) =>
            SyncWork' = [SyncWork EXCEPT ![r] = WorkOf(status)]
<1>1. RowsStay => UNCHANGED <<SyncPhases, SyncTold>>
  BY DEF RowsStay, SyncPhases, SyncTold
<1>2. WorkStays => UNCHANGED SyncWork
  BY DEF WorkStays, WorkIsTheStatus
<1>3. ASSUME NEW r \in SyncRequests, NEW status, RowMoves(r, status)
      PROVE  /\ SyncPhases' = [SyncPhases EXCEPT ![r] = SyncPhaseOf(status)]
             /\ SyncTold' = [SyncTold EXCEPT ![r] = ToldOf(status)]
  BY <1>3 DEF RowMoves, SyncPhases, SyncTold
<1>4. ASSUME NEW r \in SyncRequests, NEW status, WorkMoves(r, status)
      PROVE  SyncWork' = [SyncWork EXCEPT ![r] = WorkOf(status)]
  BY <1>4 DEF WorkMoves, WorkIsTheStatus
<1> QED
  BY <1>1, <1>2, <1>3, <1>4

(* Every action of the abstract specification takes its request further.   *)
LEMMA RequestsAdvance ==
  ASSUME NEW r \in SyncRequests,
         \/ Fetch!Move(r) \/ Fetch!Begin(r) \/ Fetch!End(r) \/ Fetch!Tell(r)
         \/ Fetch!GiveUp(r)
  PROVE  Fetch!Next_Fetch
<1> DEFINE MovedTo(to) ==
             SyncPhases[r] # to /\ SyncPhases' = [SyncPhases EXCEPT ![r] = to]
           WorkedTo(to) == SyncWork[r] # to /\ SyncWork' = [SyncWork EXCEPT ![r] = to]
<1>1. r \in DOMAIN SyncPhases /\ r \in DOMAIN SyncWork
  BY DEF SyncPhases, SyncWork
<1>2. ASSUME NEW to, MovedTo(to) \/ WorkedTo(to)
      PROVE  Fetch!Advances(r)
  <2>1. SyncPhases'[r] # SyncPhases[r] \/ SyncWork'[r] # SyncWork[r]
    <3> HIDE DEF SyncPhases, SyncWork
    <3> QED  BY <1>1, <1>2
  <2> QED  BY <2>1 DEF Fetch!Advances
<1>3. CASE Fetch!Move(r)
  <2>1. MovedTo("waiting") \/ MovedTo("running") \/ MovedTo("parked")
    BY <1>3 DEF Fetch!Move, Fetch!Create, Fetch!Grant, Fetch!Park
  <2> QED  BY <1>2, <1>3, <2>1 DEF Fetch!Next_Fetch
<1>4. CASE Fetch!Begin(r)
  <2>1. WorkedTo("started")
    BY <1>4 DEF Fetch!Begin
  <2> QED  BY <1>2, <1>4, <2>1 DEF Fetch!Next_Fetch
<1>5. CASE Fetch!End(r)
  <2>1. \E outcome \in SyncTerminal : WorkedTo(outcome)
    BY <1>5 DEF Fetch!End, SyncTerminal
  <2> QED  BY <1>2, <1>5, <2>1 DEF Fetch!Next_Fetch
<1>6. CASE Fetch!Tell(r) \/ Fetch!GiveUp(r)
  <2>1. MovedTo("done")
    BY <1>6 DEF Fetch!Tell, Fetch!GiveUp, Fetch!Finish
  <2> QED  BY <1>2, <1>6, <2>1 DEF Fetch!Next_Fetch
<1> QED
  BY <1>3, <1>4, <1>5, <1>6

(* In every state the invariant allows, a step of the rows is one step of  *)
(* the lifecycle or none.                                                  *)
LEMMA StatusStepsImplementFetch ==
  ASSUME SyncTypeOK, LinkedIsGranted, EndedAgrees, WorkIsTheStatus, WorkIsTheStatus', StatusStep
  PROVE  [Fetch!Next_Fetch]_<<SyncPhases, SyncWork, SyncTold>>
<1> USE DEF SyncTerminal, ClaimableStatuses
<1>1. CASE RowsStay /\ WorkStays
  BY <1>1, MappedStateFollows
<1>2. ASSUME NEW r \in SyncRequests, NEW status, RowMoves(r, status), WorkStays
      PROVE  /\ SyncPhases' = [SyncPhases EXCEPT ![r] = SyncPhaseOf(status)]
             /\ SyncTold' = [SyncTold EXCEPT ![r] = ToldOf(status)]
             /\ UNCHANGED SyncWork
  BY <1>2, MappedStateFollows
<1>3. ASSUME NEW r \in SyncRequests
      PROVE  /\ SyncPhases[r] = SyncPhaseOf(ccRequest[r].status)
             /\ SyncWork[r] = WorkOf(ccAttempt[r].status)
             /\ SyncTold[r] = ToldOf(ccRequest[r].status)
  BY DEF SyncPhases, WorkIsTheStatus, SyncTold
<1>4. ASSUME NEW r \in SyncRequests, NEW status, SyncPhaseOf(status) = SyncPhases[r],
             ToldOf(status) = SyncTold[r], RowMoves(r, status), WorkStays
      PROVE  UNCHANGED <<SyncPhases, SyncWork, SyncTold>>
  <2>1. /\ [SyncPhases EXCEPT ![r] = SyncPhases[r]] = SyncPhases
        /\ [SyncTold EXCEPT ![r] = SyncTold[r]] = SyncTold
    BY DEF SyncPhases, SyncTold
  <2> QED
    BY <1>2, <1>4, <2>1
<1>5. ASSUME NEW r \in SyncRequests, CreatesSync(r)
      PROVE  Fetch!Next_Fetch
  <2>1. \A q \in SyncRequests : SyncPhases[q] \notin {"waiting", "running", "parked"}
    <3> SUFFICES ASSUME NEW q \in SyncRequests
                 PROVE  SyncPhaseOf(ccRequest[q].status) \notin {"waiting", "running", "parked"}
      BY <1>3
    <3>1. ccRequest[q].status \in SyncTerminal \cup {"NONE"}
      BY <1>5 DEF CreatesSync, SyncTypeOK, SyncRow, SyncActive
    <3> QED
      BY <3>1 DEF SyncPhaseOf
  <2>2. /\ SyncPhaseOf("QUEUED") = "waiting" /\ SyncPhases[r] = "absent"
        /\ ToldOf("QUEUED") = "none" /\ SyncTold[r] = "none"
    BY <1>3, <1>5 DEF CreatesSync, SyncPhaseOf, ToldOf
  <2>3. /\ SyncPhases' = [SyncPhases EXCEPT ![r] = "waiting"]
        /\ SyncTold' = [SyncTold EXCEPT ![r] = SyncTold[r]] /\ UNCHANGED SyncWork
    BY <1>2, <1>5, <2>2 DEF CreatesSync
  <2>4. SyncTold' = SyncTold
    BY <2>3 DEF SyncTold
  <2>5. Fetch!Create(r)
    BY <2>1, <2>2, <2>3 DEF Fetch!Create, Fetch!Unfinished
  <2> QED
    BY <2>3, <2>4, <2>5, RequestsAdvance DEF Fetch!Move
<1>6. ASSUME NEW r \in SyncRequests, GrantsSync(r)
      PROVE  [Fetch!Next_Fetch]_<<SyncPhases, SyncWork, SyncTold>>
  <2>1. SyncPhaseOf("RUNNING") = "running" /\ ToldOf("RUNNING") = SyncTold[r]
    BY <1>3, <1>6 DEF GrantsSync, SyncPhaseOf, ToldOf
  <2>2. CASE ccRequest[r].status = "RUNNING"
    BY <1>3, <1>4, <1>6, <2>1, <2>2 DEF GrantsSync
  <2>3. CASE ccRequest[r].status # "RUNNING"
    <3>1. SyncPhases[r] = "waiting"
      BY <1>3, <1>6, <2>3 DEF GrantsSync, SyncPhaseOf
    <3>2. /\ SyncPhases' = [SyncPhases EXCEPT ![r] = "running"]
          /\ SyncTold' = [SyncTold EXCEPT ![r] = SyncTold[r]] /\ UNCHANGED SyncWork
      BY <1>2, <1>6, <2>1 DEF GrantsSync
    <3>3. SyncTold' = SyncTold
      BY <3>2 DEF SyncTold
    <3>4. Fetch!Grant(r)
      BY <3>1, <3>2 DEF Fetch!Grant
    <3> QED
      BY <3>2, <3>3, <3>4, RequestsAdvance DEF Fetch!Move
  <2> QED
    BY <2>2, <2>3
<1>7. ASSUME NEW r \in SyncRequests, SettlesSync(r)
      PROVE  Fetch!Next_Fetch
  <2>1. ccRequest[r].status \in {"RUNNING", "RECOVERY_REQUIRED"}
    BY <1>7
    DEF SettlesSync, LinkedIsGranted, Linked, AttemptEnded, Unsettled, SyncTypeOK, SyncRow,
        SyncActive
  <2>2. PICK outcome \in SyncTerminal : outcome = ccAttempt[r].status
    BY <1>7 DEF SettlesSync, AttemptEnded
  <2>3. /\ SyncPhaseOf(outcome) = "done" /\ ToldOf(outcome) = outcome
        /\ SyncPhases[r] \in {"running", "parked"} /\ SyncWork[r] = outcome
    BY <1>3, <2>1, <2>2 DEF SyncPhaseOf, ToldOf, WorkOf
  <2>4. /\ SyncPhases' = [SyncPhases EXCEPT ![r] = "done"]
        /\ SyncTold' = [SyncTold EXCEPT ![r] = SyncWork[r]] /\ UNCHANGED SyncWork
    BY <1>2, <1>7, <2>2, <2>3 DEF SettlesSync
  <2>5. Fetch!Tell(r)
    BY <2>3, <2>4 DEF Fetch!Tell, Fetch!Finish
  <2> QED
    BY <2>5, RequestsAdvance
<1>8. ASSUME NEW r \in SyncRequests, ParksSync(r)
      PROVE  [Fetch!Next_Fetch]_<<SyncPhases, SyncWork, SyncTold>>
  <2>1. ccRequest[r].status \in {"RUNNING", "RECOVERY_REQUIRED"}
    BY <1>8 DEF ParksSync, LinkedIsGranted, Unsettled, SyncTypeOK, SyncRow, SyncActive
  <2>2. /\ SyncPhaseOf("RECOVERY_REQUIRED") = "parked"
        /\ ToldOf("RECOVERY_REQUIRED") = SyncTold[r]
    BY <1>3, <2>1 DEF SyncPhaseOf, ToldOf
  <2>3. CASE ccRequest[r].status = "RECOVERY_REQUIRED"
    BY <1>3, <1>4, <1>8, <2>2, <2>3 DEF ParksSync
  <2>4. CASE ccRequest[r].status = "RUNNING"
    <3>1. SyncPhases[r] = "running" /\ SyncWork[r] = "started"
      BY <1>3, <1>8, <2>4
      DEF ParksSync, Linked, AttemptEnded, SyncPhaseOf, WorkOf, SyncTypeOK, SyncAttempt
    <3>2. /\ SyncPhases' = [SyncPhases EXCEPT ![r] = "parked"]
          /\ SyncTold' = [SyncTold EXCEPT ![r] = SyncTold[r]] /\ UNCHANGED SyncWork
      BY <1>2, <1>8, <2>2 DEF ParksSync
    <3>3. SyncTold' = SyncTold
      BY <3>2 DEF SyncTold
    <3>4. Fetch!Park(r)
      BY <3>1, <3>2 DEF Fetch!Park
    <3> QED
      BY <3>1, <3>2, <3>3, <3>4, RequestsAdvance DEF Fetch!Move
  <2> QED
    BY <2>1, <2>3, <2>4
<1>9. ASSUME NEW r \in SyncRequests, FailsSync(r)
      PROVE  Fetch!Next_Fetch
  <2>1. /\ SyncPhaseOf("FAILED") = "done" /\ ToldOf("FAILED") = "FAILED"
        /\ SyncPhases[r] = "running" /\ SyncWork[r] = "none"
    BY <1>3, <1>9 DEF FailsSync, Linked, SyncPhaseOf, ToldOf, WorkOf
  <2>2. /\ SyncPhases' = [SyncPhases EXCEPT ![r] = "done"]
        /\ SyncTold' = [SyncTold EXCEPT ![r] = "FAILED"] /\ UNCHANGED SyncWork
    BY <1>2, <1>9, <2>1 DEF FailsSync
  <2>3. Fetch!GiveUp(r)
    BY <2>1, <2>2 DEF Fetch!GiveUp, Fetch!Finish
  <2> QED
    BY <2>3, RequestsAdvance
<1>10. ASSUME NEW r \in SyncRequests, BeginsWork(r)
       PROVE  Fetch!Next_Fetch
  <2>1. /\ SyncPhases[r] = "running" /\ SyncWork[r] = "none"
        /\ WorkOf("STARTED") = "started"
    BY <1>3, <1>10 DEF BeginsWork, Linked, SyncPhaseOf, WorkOf
  <2>2. /\ SyncWork' = [SyncWork EXCEPT ![r] = "started"]
        /\ UNCHANGED <<SyncPhases, SyncTold>>
    BY <1>10, <2>1, MappedStateFollows DEF BeginsWork
  <2>3. Fetch!Begin(r)
    BY <2>1, <2>2 DEF Fetch!Begin
  <2> QED
    BY <2>3, RequestsAdvance
<1>11. ASSUME NEW r \in SyncRequests, NEW outcome \in SyncTerminal, EndsWork(r, outcome)
       PROVE  Fetch!Next_Fetch
  <2>1. ccRequest[r].status \in {"RUNNING", "RECOVERY_REQUIRED"}
    BY <1>11
    DEF EndsWork, LinkedIsGranted, Linked, EndedAgrees, SyncTypeOK, SyncRow, SyncActive
  <2>2. /\ SyncPhases[r] \in {"running", "parked"} /\ SyncWork[r] = "started"
        /\ WorkOf(outcome) = outcome
    BY <1>3, <1>11, <2>1 DEF EndsWork, SyncPhaseOf, WorkOf
  <2>3. /\ SyncWork' = [SyncWork EXCEPT ![r] = outcome]
        /\ UNCHANGED <<SyncPhases, SyncTold>>
    BY <1>11, <2>2, MappedStateFollows DEF EndsWork
  <2>4. Fetch!End(r)
    BY <2>2, <2>3 DEF Fetch!End
  <2> QED
    BY <2>4, RequestsAdvance
<1>12. ASSUME NEW r \in SyncRequests, NEW status \in ClaimableStatuses,
              ResendsSync(r, status)
       PROVE  UNCHANGED <<SyncPhases, SyncWork, SyncTold>>
  BY <1>3, <1>4, <1>12 DEF ResendsSync, SyncPhaseOf, ToldOf
<1> QED
  BY <1>1, <1>5, <1>6, <1>7, <1>8, <1>9, <1>10, <1>11, <1>12 DEF StatusStep

(* The durable request for a corrected transcript implements               *)
(* FetchLifecycle: what a redelivery, a late worker, a resend or a park    *)
(* does to the rows is one step of one request, whose work begins once and *)
(* whose end tells what that work came to.                                 *)
THEOREM SyncImplementsFetch == Spec_Sync => Fetch!Spec_Fetch /\ FetchIsPromised
<1>1. Init_Sync => Fetch!Init_Fetch /\ LinkedIsGranted
  BY DEF Init_Sync, NoSyncRow, NoSyncAttempt, Fetch!Init_Fetch, Fetch!Init, SyncPhases,
         SyncWork, ProviderStartsAgain, SyncTold, SyncPhaseOf, WorkOf, ToldOf, SyncTerminal,
         ClaimableStatuses, LinkedIsGranted, Linked
<1>2. SyncInv /\ LinkedIsGranted /\ [Next_Sync]_ccVars => LinkedIsGranted'
  BY StepsFollowStatuses, LinkedIsGrantedStays
<1>3. SyncInv => WorkIsTheStatus
  BY WorkIsTheStatusOfOneStart
<1>4. SyncInv /\ LinkedIsGranted /\ WorkIsTheStatus /\ WorkIsTheStatus' /\ [Next_Sync]_ccVars
        => [Fetch!Next_Fetch]_(Fetch!fetchVars)
  BY StepsFollowStatuses, StatusStepsImplementFetch DEF SyncInv, Fetch!fetchVars
<1> QED
  BY <1>1, <1>2, <1>3, <1>4, SyncInvariantHolds, PTL
  DEF Spec_Sync, FetchIsPromised, Fetch!Spec_Fetch

(* FetchLifecycle adds work and answers to RequestLifecycle and takes      *)
(* nothing back, so both tables of durable requests keep the same promise: *)
(* one unfinished request at a time, granted once, parked for good.        *)
THEOREM SyncImplementsLifecycle == Spec_Sync => Fetch!Spec
<1>1. Fetch!Init_Fetch => Fetch!Init
  BY DEF Fetch!Init_Fetch
<1>2. [Fetch!Next_Fetch]_(Fetch!fetchVars) => [Fetch!Next]_SyncPhases
  BY DEF Fetch!Next_Fetch, Fetch!Next, Fetch!fetchVars, Fetch!Move, Fetch!Begin, Fetch!End,
         Fetch!Tell, Fetch!GiveUp
<1> QED
  BY <1>1, <1>2, SyncImplementsFetch, PTL DEF Fetch!Spec_Fetch, Fetch!Spec

------------------------------------------------------------------------------
(* Transkribus runs                                                        *)

TrRunRecord ==
  [status : {"NONE", "STARTED", "UPLOADED", "RECOGNITION_STARTED", "SUCCEEDED", "FAILED"},
   remote : BOOLEAN, job : BOOLEAN, assoc : Contents \cup {NoSnapshot}]
TrRowRecord ==
  [text : {"none"} \cup TrTexts, bound : Contents \cup {NoSnapshot},
   drifted : BOOLEAN, verified : BOOLEAN]
TrWorkerRecord ==
  [pc : {"idle", "plan", "new", "upload", "recognise", "fetch", "store",
         "associate", "complete"},
   run : TrRuns \cup {0}, source : TrRuns \cup {0},
   snap : Contents \cup {NoSnapshot}, resumed : BOOLEAN, holds : BOOLEAN]

AtRun == {"upload", "recognise", "fetch", "store", "associate", "complete"}
WithTranscript == {"store", "associate", "complete"}

(* A delivery that works on a run has one, and a transcript once it read   *)
(* one; a row of no run is empty.                                          *)
RunsAreReal ==
  /\ \A r \in TrRuns : tRun[r].status = "NONE" => tRun[r] = NoTrRun
  /\ \A w \in TrWorkers :
       /\ tWorker[w].pc \in AtRun => tWorker[w].run \in Created
       /\ tWorker[w].pc \in WithTranscript => tWorker[w].snap \in Contents

TranskribusInvariant == TranskribusTypeOK /\ RunsAreReal

(* What a delivery does to the run rows. *)
StartsRun(w) ==
  \E r \in TrRuns \ Created :
    /\ \A q \in TrRuns \ Created : r <= q
    /\ tRun' = [tRun EXCEPT ![r] = [NoTrRun EXCEPT !.status = "STARTED", !.remote = ~Upload]]
    /\ tWorker'[w].run = r
MovesRun(w) ==
  /\ tWorker[w].pc \in AtRun
  /\ \E row \in TrRunRecord :
       /\ tRun' = [tRun EXCEPT ![tWorker[w].run] = row]
       /\ row.status \notin {"NONE", "SUCCEEDED"}
       /\ row.assoc = tRun[tWorker[w].run].assoc
       /\ tRun[tWorker[w].run].remote => row.remote
AssociatesRun(w) ==
  /\ tWorker[w].pc = "associate"
  /\ MayAssociate(tWorker[w].run, tWorker[w].snap)
  /\ tRun' = [tRun EXCEPT ![tWorker[w].run].assoc = tWorker[w].snap]
CompletesRun(w) ==
  /\ CompleteLocally(w)
  /\ tWorker[w].pc = "complete" /\ tWorker[w].holds
  /\ tRun[tWorker[w].run].assoc = tWorker[w].snap
  /\ tRun' = [tRun EXCEPT ![tWorker[w].run].status = "SUCCEEDED"]

LEMMA TranskribusTypes ==
  /\ TranskribusTypeOK =>
       /\ tRun \in [TrRuns -> TrRunRecord] /\ tRow \in TrRowRecord
       /\ tWorker \in [TrWorkers -> TrWorkerRecord]
       /\ tRemote \in [TrRuns -> {"none", "recognised", "corrected"}]
       /\ tSnap \in [Contents -> {"none", "AUTOMATIC_HTR", "CORRECTED_CURRENT_SYNC"}]
       /\ tFetched \subseteq Contents
  /\ NoTrRun \in TrRunRecord /\ NoTrRun.status = "NONE" /\ ~NoTrRun.remote
  /\ NoTrRun.assoc = NoSnapshot
  /\ IdleTrWorker \in TrWorkerRecord /\ IdleTrWorker.pc = "idle" /\ ~IdleTrWorker.holds
  /\ NoTrRow \in TrRowRecord
  /\ NoSnapshot \notin Contents
BY TranskribusAssumption
DEF TranskribusTypeOK, TrRunRecord, TrRowRecord, TrWorkerRecord, NoTrRun, IdleTrWorker, NoTrRow,
    NoSnapshot, Contents, TrRuns

LEMMA TypedParts ==
  ASSUME tRun' \in [TrRuns -> TrRunRecord], tRow' \in TrRowRecord,
         tWorker' \in [TrWorkers -> TrWorkerRecord],
         tRemote' \in [TrRuns -> {"none", "recognised", "corrected"}],
         tSnap' \in [Contents -> {"none", "AUTOMATIC_HTR", "CORRECTED_CURRENT_SYNC"}],
         tFetched' \subseteq Contents
  PROVE  TranskribusTypeOK'
BY DEF TranskribusTypeOK, TrRunRecord, TrRowRecord, TrWorkerRecord

(* Worker steps, by what they do to the rows and to the deliveries. *)
LEMMA WorkerStepTyped ==
  ASSUME TranskribusInvariant, NEW w \in TrWorkers, WorkOn(w)
  PROVE  /\ tRun' \in [TrRuns -> TrRunRecord] /\ tRow' \in TrRowRecord
         /\ tRemote' \in [TrRuns -> {"none", "recognised", "corrected"}]
         /\ tSnap' \in [Contents -> {"none", "AUTOMATIC_HTR", "CORRECTED_CURRENT_SYNC"}]
         /\ tFetched' = tFetched
         /\ \/ tRun' = tRun \/ StartsRun(w) \/ MovesRun(w) \/ AssociatesRun(w)
            \/ CompletesRun(w)
<1> DEFINE Shape == \/ tRun' = tRun \/ StartsRun(w) \/ MovesRun(w) \/ AssociatesRun(w)
                    \/ CompletesRun(w)
           rw == tWorker[w].run
           Rows == tRun' \in [TrRuns -> TrRunRecord] /\ Shape
           Rest == /\ tRow' \in TrRowRecord
                   /\ tRemote' \in [TrRuns -> {"none", "recognised", "corrected"}]
                   /\ tSnap' \in [Contents -> {"none", "AUTOMATIC_HTR",
                                               "CORRECTED_CURRENT_SYNC"}]
                   /\ tFetched' = tFetched
<1>1. /\ tRun \in [TrRuns -> TrRunRecord] /\ tRow \in TrRowRecord
      /\ tWorker \in [TrWorkers -> TrWorkerRecord]
      /\ tRemote \in [TrRuns -> {"none", "recognised", "corrected"}]
      /\ tSnap \in [Contents -> {"none", "AUTOMATIC_HTR", "CORRECTED_CURRENT_SYNC"}]
      /\ tFetched \subseteq Contents /\ NoTrRun \in TrRunRecord
  BY TranskribusTypes DEF TranskribusInvariant
<1>2. tWorker[w].pc \in AtRun => rw \in TrRuns /\ tRun[rw] \in TrRunRecord
  BY <1>1 DEF TranskribusInvariant, RunsAreReal, Created
<1>3. ASSUME tRun' = tRun PROVE Rows
  BY <1>1, <1>3
<1>4. ASSUME NEW row \in TrRunRecord, tWorker[w].pc \in AtRun,
             tRun' = [tRun EXCEPT ![rw] = row],
             row.status \notin {"NONE", "SUCCEEDED"}, row.assoc = tRun[rw].assoc,
             tRun[rw].remote => row.remote
      PROVE  Rows
  BY <1>1, <1>2, <1>4 DEF MovesRun
<1>5. ASSUME tWorker[w].pc \in AtRun, Fails(w) PROVE Rows
  <2> DEFINE row == [tRun[rw] EXCEPT !.status = "FAILED"]
  <2>1. /\ row \in TrRunRecord /\ row.status = "FAILED" /\ row.assoc = tRun[rw].assoc
        /\ row.remote = tRun[rw].remote
    BY <1>2, <1>5 DEF TrRunRecord
  <2>2. CASE tRun' = tRun
    BY <1>3, <2>2
  <2>3. CASE tRun' = [tRun EXCEPT ![rw].status = "FAILED"]
    <3>1. tRun' = [tRun EXCEPT ![rw] = row]
      BY <1>1, <1>2, <1>5, <2>3
    <3> HIDE DEF row, Rows, rw
    <3>2. row.status \notin {"NONE", "SUCCEEDED"}
      BY <2>1
    <3> QED  BY <1>4, <1>5, <2>1, <3>1, <3>2
  <2> QED  BY <1>5, <2>2, <2>3 DEF Fails
<1>6. CASE StartRun(w)
  <2>1. PICK r \in TrRuns \ Created :
          /\ \A q \in TrRuns \ Created : r <= q
          /\ tRun' = [tRun EXCEPT ![r] = [NoTrRun EXCEPT !.status = "STARTED",
                                                         !.remote = ~Upload]]
          /\ tWorker' = [tWorker EXCEPT ![w] =
               [@ EXCEPT !.run = r, !.pc = IF Upload THEN "upload" ELSE "recognise"]]
    BY <1>6 DEF StartRun
  <2>2. [NoTrRun EXCEPT !.status = "STARTED", !.remote = ~Upload] \in TrRunRecord
    BY <1>1 DEF TrRunRecord, Upload
  <2>3. tRun' \in [TrRuns -> TrRunRecord]
    BY <1>1, <2>1, <2>2
  <2>4. tWorker'[w].run = r
    BY <1>1, <2>1 DEF TrWorkerRecord
  <2>5. StartsRun(w)
    BY <2>1, <2>4 DEF StartsRun
  <2> QED  BY <1>1, <1>6, <2>3, <2>5 DEF StartRun
<1>7. CASE MarkUploaded(w)
  <2> DEFINE row == [tRun[rw] EXCEPT !.status = "UPLOADED", !.remote = TRUE]
  <2>0. tWorker[w].pc \in AtRun
    BY <1>7 DEF MarkUploaded, AtRun
  <2>1. /\ row \in TrRunRecord /\ row.status = "UPLOADED" /\ row.assoc = tRun[rw].assoc
        /\ row.remote = TRUE
    BY <1>2, <2>0 DEF TrRunRecord
  <2>2. tRun' = [tRun EXCEPT ![rw] = row]
    BY <1>7 DEF MarkUploaded
  <2> HIDE DEF row, Rows, rw
  <2>3. Rows
    BY <1>4, <2>0, <2>1, <2>2
  <2> QED  BY <1>1, <1>7, <2>3 DEF MarkUploaded, Rows
<1>8. CASE MarkRecognitionStarted(w)
  <2> DEFINE row == [tRun[rw] EXCEPT !.status = "RECOGNITION_STARTED", !.job = TRUE]
  <2>0. tWorker[w].pc \in AtRun
    BY <1>8 DEF MarkRecognitionStarted, AtRun
  <2>1. /\ row \in TrRunRecord /\ row.status = "RECOGNITION_STARTED"
        /\ row.assoc = tRun[rw].assoc /\ row.remote = tRun[rw].remote
    BY <1>2, <2>0 DEF TrRunRecord
  <2>2. tRun' = [tRun EXCEPT ![rw] = row]
    BY <1>8 DEF MarkRecognitionStarted
  <2> HIDE DEF row, Rows, rw
  <2>3. Rows
    BY <1>4, <2>0, <2>1, <2>2
  <2> QED  BY <1>1, <1>8, <2>3 DEF MarkRecognitionStarted, Rows
<1>9. CASE FetchTranscript(w)
  <2>1. rw \in TrRuns => (IF tRemote[rw] = "none" THEN "recognised" ELSE tRemote[rw])
                          \in {"none", "recognised", "corrected"}
    BY <1>1
  <2>2. tRemote' \in [TrRuns -> {"none", "recognised", "corrected"}]
    BY <1>1, <1>2, <1>9, <2>1 DEF FetchTranscript, AtRun
  <2> QED  BY <1>1, <1>3, <1>9, <2>2 DEF FetchTranscript
<1>10. CASE FailRun(w)
  BY <1>1, <1>5, <1>10 DEF FailRun, AtRun
<1>11. CASE StoreSnapshot(w)
  <2>1. tSnap' \in [Contents -> {"none", "AUTOMATIC_HTR", "CORRECTED_CURRENT_SYNC"}]
    BY <1>1, <1>11 DEF StoreSnapshot, Stored
  <2> QED  BY <1>1, <1>3, <1>11, <2>1 DEF StoreSnapshot
<1>12. CASE Associate(w)
  <2>0. tWorker[w].pc \in AtRun /\ tWorker[w].snap \in Contents \cup {NoSnapshot}
    BY <1>1, <1>12 DEF Associate, AtRun, TrWorkerRecord
  <2>1. CASE MayAssociate(rw, tWorker[w].snap)
             /\ tRun' = [tRun EXCEPT ![rw].assoc = tWorker[w].snap]
    <3>1. [tRun[rw] EXCEPT !.assoc = tWorker[w].snap] \in TrRunRecord
      BY <1>2, <2>0 DEF TrRunRecord
    <3>2. Rows
      BY <1>1, <1>2, <1>12, <2>0, <2>1, <3>1 DEF AssociatesRun, Associate
    <3>3. Rest
      BY <1>1, <1>12 DEF Associate
    <3> QED  BY <3>2, <3>3
  <2>2. CASE Fails(w)
    BY <1>1, <1>5, <1>12, <2>0, <2>2 DEF Associate
  <2> QED  BY <1>12, <2>1, <2>2 DEF Associate
<1>13. CASE CompleteLocally(w)
  <2>0. /\ tWorker[w].pc = "complete" /\ tWorker[w].pc \in AtRun
        /\ tWorker[w].snap \in Contents
    BY <1>13 DEF CompleteLocally, AtRun, WithTranscript, TranskribusInvariant, RunsAreReal
  <2>1. [tRun[rw] EXCEPT !.status = "SUCCEEDED"] \in TrRunRecord
    BY <1>2, <2>0 DEF TrRunRecord
  <2>2. ASSUME tRun' = [tRun EXCEPT ![rw].status = "SUCCEEDED"] PROVE Rows
    <3>1. tRun' \in [TrRuns -> TrRunRecord]
      BY <1>1, <1>2, <2>0, <2>1, <2>2
    <3>2. CompletesRun(w)
      BY <1>13, <2>0, <2>2 DEF CompleteLocally, CompletesRun
    <3> QED  BY <3>1, <3>2
  <2>3. [text |-> tWorker[w].snap.text, bound |-> tWorker[w].snap, drifted |-> FALSE,
         verified |-> FALSE] \in TrRowRecord
    BY <2>0 DEF TrRowRecord, Contents, TrTexts
  <2>4. Rows
    BY <1>3, <1>13, <2>2 DEF CompleteLocally
  <2>5. Rest
    BY <1>1, <1>13, <2>3 DEF CompleteLocally
  <2> QED  BY <2>4, <2>5
<1>14. CASE Deliver(w) \/ PlanNew(w) \/ StopDelivery(w)
            \/ \E r \in TrRuns : PlanResume(w, r) \/ PlanRecognitionOnly(w, r)
  BY <1>1, <1>3, <1>14 DEF Deliver, PlanNew, StopDelivery, PlanResume, PlanRecognitionOnly
<1> QED
  BY <1>6, <1>7, <1>8, <1>9, <1>10, <1>11, <1>12, <1>13, <1>14 DEF WorkOn

(* What a delivery does to the deliveries: the others only lose the lease. *)
OthersKeepOn(w) ==
  \A v \in TrWorkers \ {w} :
    /\ tWorker'[v].pc = tWorker[v].pc /\ tWorker'[v].run = tWorker[v].run
    /\ tWorker'[v].snap = tWorker[v].snap
    /\ tWorker'[v].holds => tWorker[v].holds
TakesLease(w) ==
  /\ \A v \in TrWorkers \ {w} : ~tWorker'[v].holds
  /\ tWorker'[w].holds /\ tWorker'[w].pc = "plan" /\ tRun' = tRun
GoesOn(w) ==
  /\ tWorker'[w].holds => tWorker[w].holds
  /\ \/ tWorker'[w].pc \in {"idle", "plan", "new"}
     \/ \E r \in TrRuns : PlanResume(w, r) /\ tWorker'[w].run = r /\ tWorker'[w].snap = tRun[r].assoc
     \/ StartRun(w)
     \/ /\ tWorker[w].pc \in AtRun /\ tWorker'[w].pc \in AtRun
        /\ tWorker'[w].run = tWorker[w].run
        /\ tWorker'[w].pc \in WithTranscript => tWorker'[w].snap \in Contents
        /\ tWorker[w].pc \in WithTranscript => tWorker'[w].snap = tWorker[w].snap

LEMMA DeliveriesMove ==
  ASSUME TranskribusInvariant, NEW w \in TrWorkers, WorkOn(w)
  PROVE  /\ tWorker' \in [TrWorkers -> TrWorkerRecord] /\ OthersKeepOn(w)
         /\ TakesLease(w) \/ GoesOn(w)
<1> DEFINE Goal == /\ tWorker' \in [TrWorkers -> TrWorkerRecord] /\ OthersKeepOn(w)
                   /\ TakesLease(w) \/ GoesOn(w)
           rw == tWorker[w].run
<1>1. /\ tRun \in [TrRuns -> TrRunRecord]
      /\ tWorker \in [TrWorkers -> TrWorkerRecord]
      /\ tRemote \in [TrRuns -> {"none", "recognised", "corrected"}]
      /\ IdleTrWorker \in TrWorkerRecord /\ IdleTrWorker.pc = "idle" /\ ~IdleTrWorker.holds
  BY TranskribusTypes DEF TranskribusInvariant
<1>2. tWorker[w].pc \in AtRun => rw \in TrRuns /\ tRun[rw] \in TrRunRecord
  BY <1>1 DEF TranskribusInvariant, RunsAreReal, Created
<1>3. ASSUME NEW rec \in TrWorkerRecord, tWorker' = [tWorker EXCEPT ![w] = rec]
      PROVE  /\ tWorker' \in [TrWorkers -> TrWorkerRecord] /\ OthersKeepOn(w)
             /\ tWorker'[w] = rec
  BY <1>1, <1>3 DEF OthersKeepOn
<1>4. ASSUME EndDelivery(w) PROVE Goal
  BY <1>1, <1>3, <1>4 DEF EndDelivery, GoesOn
<1>5. ASSUME NEW pc \in {"plan", "new"} \cup AtRun, ToPc(w, pc),
             pc \in AtRun => tWorker[w].pc \in AtRun,
             pc \in WithTranscript => tWorker[w].snap \in Contents
      PROVE  Goal
  <2> DEFINE rec == [tWorker[w] EXCEPT !.pc = pc]
  <2>1. rec \in TrWorkerRecord /\ rec.pc = pc /\ rec.run = rw /\ rec.snap = tWorker[w].snap
        /\ rec.holds = tWorker[w].holds
    BY <1>1 DEF TrWorkerRecord, AtRun
  <2>2. tWorker' = [tWorker EXCEPT ![w] = rec]
    BY <1>1, <1>5 DEF ToPc
  <2> HIDE DEF rec
  <2>3. tWorker'[w] = rec /\ tWorker' \in [TrWorkers -> TrWorkerRecord] /\ OthersKeepOn(w)
    BY <1>3, <2>1, <2>2
  <2>4. GoesOn(w)
    BY <1>5, <2>1, <2>3 DEF GoesOn, AtRun
  <2> QED  BY <2>3, <2>4
<1>6. CASE Deliver(w)
  <2>1. [IdleTrWorker EXCEPT !.pc = "plan", !.holds = TRUE] \in TrWorkerRecord
        /\ \A v \in TrWorkers : [tWorker[v] EXCEPT !.holds = FALSE] \in TrWorkerRecord
    BY <1>1 DEF TrWorkerRecord
  <2>2. tWorker' \in [TrWorkers -> TrWorkerRecord]
    BY <1>6, <2>1 DEF Deliver
  <2>3. \A v \in TrWorkers \ {w} : tWorker'[v] = [tWorker[v] EXCEPT !.holds = FALSE]
    BY <1>6 DEF Deliver
  <2>4. \A v \in TrWorkers \ {w} : /\ tWorker'[v].pc = tWorker[v].pc
                                   /\ tWorker'[v].run = tWorker[v].run
                                   /\ tWorker'[v].snap = tWorker[v].snap
                                   /\ tWorker'[v].holds = FALSE
    BY <1>1, <2>3, ZenonT(60) DEF TrWorkerRecord
  <2>5. tWorker'[w].holds = TRUE /\ tWorker'[w].pc = "plan"
    BY <1>1, <1>6 DEF Deliver, TrWorkerRecord
  <2>6. OthersKeepOn(w) /\ TakesLease(w)
    BY <1>6, <2>4, <2>5 DEF OthersKeepOn, TakesLease, Deliver
  <2> QED  BY <2>2, <2>6
<1>7. ASSUME NEW r \in TrRuns, PlanResume(w, r) PROVE Goal
  <2> DEFINE pc == IF Associated(r) THEN "complete" ELSE "fetch"
             rec == [tWorker[w] EXCEPT !.run = r, !.resumed = TRUE, !.snap = tRun[r].assoc,
                                       !.pc = pc]
  <2>1. rec \in TrWorkerRecord /\ rec.run = r /\ rec.snap = tRun[r].assoc
        /\ rec.holds = tWorker[w].holds
    BY <1>1 DEF TrWorkerRecord, TrRunRecord
  <2>2. tWorker' = [tWorker EXCEPT ![w] = rec]
    BY <1>1, <1>7 DEF PlanResume
  <2> HIDE DEF rec
  <2>3. tWorker'[w] = rec /\ tWorker' \in [TrWorkers -> TrWorkerRecord] /\ OthersKeepOn(w)
    BY <1>3, <2>1, <2>2
  <2>4. GoesOn(w)
    BY <1>7, <2>1, <2>3 DEF GoesOn
  <2> QED  BY <2>3, <2>4
<1>8. ASSUME NEW r \in TrRuns, PlanRecognitionOnly(w, r) PROVE Goal
  <2> DEFINE rec == [tWorker[w] EXCEPT !.pc = "new", !.source = r]
  <2>1. rec \in TrWorkerRecord /\ rec.pc = "new" /\ rec.holds = tWorker[w].holds
    BY <1>1 DEF TrWorkerRecord
  <2>2. tWorker' = [tWorker EXCEPT ![w] = rec]
    BY <1>1, <1>8 DEF PlanRecognitionOnly
  <2> HIDE DEF rec
  <2>3. tWorker'[w] = rec /\ tWorker' \in [TrWorkers -> TrWorkerRecord] /\ OthersKeepOn(w)
    BY <1>3, <2>1, <2>2
  <2> QED  BY <2>1, <2>3 DEF GoesOn
<1>9. CASE PlanNew(w)
  BY <1>5, <1>9 DEF PlanNew, AtRun, WithTranscript
<1>10. CASE StartRun(w)
  <2>1. PICK r \in TrRuns \ Created :
          tWorker' = [tWorker EXCEPT ![w] =
             [@ EXCEPT !.run = r, !.pc = IF Upload THEN "upload" ELSE "recognise"]]
    BY <1>10 DEF StartRun
  <2> DEFINE rec == [tWorker[w] EXCEPT !.run = r,
                                       !.pc = IF Upload THEN "upload" ELSE "recognise"]
  <2>2. rec \in TrWorkerRecord /\ rec.holds = tWorker[w].holds
    BY <1>1 DEF TrWorkerRecord
  <2>3. tWorker' = [tWorker EXCEPT ![w] = rec]
    BY <1>1, <2>1
  <2> HIDE DEF rec
  <2>4. tWorker'[w] = rec /\ tWorker' \in [TrWorkers -> TrWorkerRecord] /\ OthersKeepOn(w)
    BY <1>3, <2>2, <2>3
  <2> QED  BY <1>10, <2>2, <2>4 DEF GoesOn
<1>11. CASE MarkUploaded(w) \/ MarkRecognitionStarted(w)
  BY <1>5, <1>11 DEF MarkUploaded, MarkRecognitionStarted, AtRun, WithTranscript
<1>12. CASE FetchTranscript(w)
  <2> DEFINE text == IF tRemote[rw] = "none" THEN "recognised" ELSE tRemote[rw]
             x == [job |-> rw, text |-> text]
             rec == [tWorker[w] EXCEPT !.pc = "store", !.snap = x]
  <2>1. tWorker[w].pc = "fetch" /\ rw \in TrRuns
    BY <1>2, <1>12 DEF FetchTranscript, AtRun
  <2>2. x \in Contents
    BY <1>1, <2>1 DEF Contents
  <2> HIDE DEF x
  <2>3. rec \in TrWorkerRecord /\ rec.pc = "store" /\ rec.run = rw /\ rec.snap = x
        /\ rec.holds = tWorker[w].holds
    BY <1>1, <2>2 DEF TrWorkerRecord
  <2>4. tWorker' = [tWorker EXCEPT ![w] = rec]
    BY <1>1, <1>12 DEF FetchTranscript, x
  <2> HIDE DEF rec
  <2>5. tWorker'[w] = rec /\ tWorker' \in [TrWorkers -> TrWorkerRecord] /\ OthersKeepOn(w)
    BY <1>3, <2>3, <2>4
  <2>6. GoesOn(w)
    BY <2>1, <2>2, <2>3, <2>5 DEF GoesOn, AtRun, WithTranscript
  <2> QED  BY <2>5, <2>6
<1>13. CASE FailRun(w) \/ StopDelivery(w) \/ CompleteLocally(w)
  BY <1>4, <1>13 DEF FailRun, StopDelivery, CompleteLocally
<1>14. CASE StoreSnapshot(w) \/ Associate(w)
  <2>1. tWorker[w].pc \in {"store", "associate"} /\ tWorker[w].snap \in Contents
    BY <1>14 DEF StoreSnapshot, Associate, TranskribusInvariant, RunsAreReal, WithTranscript
  <2>2. EndDelivery(w) \/ ToPc(w, "associate") \/ ToPc(w, "complete")
    BY <1>14 DEF StoreSnapshot, Associate
  <2> QED  BY <1>4, <1>5, <2>1, <2>2 DEF AtRun
<1> QED
  BY <1>6, <1>7, <1>8, <1>9, <1>10, <1>11, <1>12, <1>13, <1>14 DEF WorkOn

(* A nonempty set of runs has a newest one: otherwise the upper bounds of   *)
(* the set would have a pigeonhole.                                        *)
LEMMA LargestElement ==
  ASSUME NEW N \in Nat, NEW T \in SUBSET (1..N), T # {}
  PROVE  \E t \in T : \A u \in T : u <= t
<1> SUFFICES ASSUME \A t \in T : \E u \in T : t < u
             PROVE  FALSE
  OBVIOUS
<1> DEFINE D == {n \in 1..(N + 1) : \A t \in T : t < n}
           s == [n \in D |-> n - 1]
<1>1. IsFiniteSet(D) /\ IsFiniteSet(D \ {N + 1})
  <2>1. IsFiniteSet(1..(N + 1))
    BY FS_Interval
  <2>2. D \in SUBSET (1..(N + 1)) /\ D \ {N + 1} \in SUBSET (1..(N + 1))
    OBVIOUS
  <2> HIDE DEF D
  <2> QED  BY <2>1, <2>2, FS_Subset
<1>2. N + 1 \in D
  OBVIOUS
<1>3. Cardinality(D \ {N + 1}) < Cardinality(D)
  <2>1. Cardinality(D \ {N + 1}) = Cardinality(D) - 1
    BY <1>1, <1>2, FS_RemoveElement
  <2>2. Cardinality(D) \in Nat
    BY <1>1, FS_CardinalityType
  <2> QED  BY <2>1, <2>2
<1>4. ASSUME NEW n \in D
      PROVE  n - 1 \in D \ {N + 1}
  <2>1. \A t \in T : t < n - 1
    <3> SUFFICES ASSUME NEW t \in T, ~(t < n - 1)
                 PROVE  FALSE
      OBVIOUS
    <3>1. t = n - 1
      OBVIOUS
    <3>2. PICK u \in T : t < u
      OBVIOUS
    <3>3. u < n
      OBVIOUS
    <3> QED  BY <3>1, <3>2, <3>3
  <2>2. PICK t \in T : TRUE
    OBVIOUS
  <2>3. 1 <= n - 1
    BY <2>1, <2>2
  <2> QED  BY <2>1, <2>3
<1>5. s \in [D -> D \ {N + 1}]
  BY <1>4
<1>6. \A m, n \in D : s[m] = s[n] => m = n
  OBVIOUS
<1> HIDE DEF D, s
<1>7. \E m, n \in D : m # n /\ s[m] = s[n]
  BY <1>1, <1>3, <1>5, FS_PigeonHole
<1> QED  BY <1>6, <1>7

LEMMA NewestRun ==
  ASSUME NEW S \in SUBSET TrRuns, S # {}
  PROVE  Newest(S) \in S /\ \A q \in S : q <= Newest(S)
<1>1. \E r \in S : \A q \in S : q <= r
  BY LargestElement, TranskribusAssumption DEF TrRuns
<1> QED  BY <1>1 DEF Newest

(* Rows never disappear and what a row stands for is fixed once.           *)
LEMMA RunRowsMove ==
  ASSUME TranskribusInvariant, NEW w \in TrWorkers, WorkOn(w)
  PROVE  \A r \in TrRuns :
           /\ r \in Created => r \in Created'
           /\ tRun'[r].status = "NONE" => tRun'[r] = NoTrRun
           /\ Associated(r) => tRun'[r].assoc = tRun[r].assoc
<1> SUFFICES ASSUME NEW r \in TrRuns
             PROVE  /\ tRun[r].status # "NONE" => tRun'[r].status # "NONE"
                    /\ tRun'[r].status = "NONE" => tRun'[r] = NoTrRun
                    /\ Associated(r) => tRun'[r].assoc = tRun[r].assoc
  BY DEF Created
<1> DEFINE rw == tWorker[w].run
<1>1. /\ tRun \in [TrRuns -> TrRunRecord] /\ tRun[r] \in TrRunRecord
      /\ tRun[r].status = "NONE" => tRun[r] = NoTrRun
      /\ NoTrRun \in TrRunRecord /\ NoTrRun.assoc = NoSnapshot
      /\ tWorker[w].pc \in {"associate", "complete"} =>
           rw \in TrRuns /\ tRun[rw].status # "NONE"
  BY TranskribusTypes DEF TranskribusInvariant, RunsAreReal, AtRun, Created
<1>2. CASE tRun' = tRun
  BY <1>1, <1>2
<1>3. CASE StartsRun(w)
  <2> DEFINE row == [NoTrRun EXCEPT !.status = "STARTED", !.remote = ~Upload]
  <2>1. PICK q \in TrRuns \ Created : tRun' = [tRun EXCEPT ![q] = row]
    BY <1>3 DEF StartsRun
  <2>2. row.status = "STARTED"
    BY <1>1 DEF TrRunRecord
  <2>3. tRun[q] = NoTrRun
    BY <2>1 DEF Created, TranskribusInvariant, RunsAreReal
  <2> HIDE DEF row
  <2> QED  BY <1>1, <2>1, <2>2, <2>3 DEF Associated
<1>4. CASE MovesRun(w)
  BY <1>1, <1>4 DEF MovesRun
<1>5. CASE AssociatesRun(w)
  <2>1. tRun' = [tRun EXCEPT ![rw] = [@ EXCEPT !.assoc = tWorker[w].snap]]
    BY <1>5 DEF AssociatesRun
  <2>2. CASE r # rw
    BY <1>1, <2>1, <2>2
  <2>3. CASE r = rw
    <3>1. tRun'[r] = [tRun[r] EXCEPT !.assoc = tWorker[w].snap]
      BY <1>1, <2>1, <2>3
    <3>2. tRun'[r].status = tRun[r].status /\ tRun'[r].assoc = tWorker[w].snap
      BY <1>1, <3>1 DEF TrRunRecord
    <3>3. tRun[r].assoc \in {NoSnapshot, tWorker[w].snap}
      BY <1>5, <2>3 DEF AssociatesRun, MayAssociate
    <3>4. tRun[r].status # "NONE"
      BY <1>1, <1>5, <2>3 DEF AssociatesRun
    <3> QED  BY <3>2, <3>3, <3>4 DEF Associated
  <2> QED  BY <2>2, <2>3
<1>6. CASE CompletesRun(w)
  <2>1. tRun' = [tRun EXCEPT ![rw] = [@ EXCEPT !.status = "SUCCEEDED"]]
    BY <1>6 DEF CompletesRun
  <2>2. CASE r # rw
    BY <1>1, <2>1, <2>2
  <2>3. CASE r = rw
    <3>1. tRun'[r] = [tRun[r] EXCEPT !.status = "SUCCEEDED"]
      BY <1>1, <2>1, <2>3
    <3>2. tRun'[r].status = "SUCCEEDED" /\ tRun'[r].assoc = tRun[r].assoc
      BY <1>1, <3>1 DEF TrRunRecord
    <3> QED  BY <3>2
  <2> QED  BY <2>2, <2>3
<1> QED  BY <1>2, <1>3, <1>4, <1>5, <1>6, WorkerStepTyped

(* A step of a delivery keeps the invariant.                               *)
LEMMA DeliveryKeepsInvariant ==
  ASSUME TranskribusInvariant, NEW w \in TrWorkers, WorkOn(w)
  PROVE  TranskribusInvariant'
<1>1. /\ tRun' \in [TrRuns -> TrRunRecord] /\ tRow' \in TrRowRecord
      /\ tRemote' \in [TrRuns -> {"none", "recognised", "corrected"}]
      /\ tSnap' \in [Contents -> {"none", "AUTOMATIC_HTR", "CORRECTED_CURRENT_SYNC"}]
      /\ tFetched' = tFetched
  BY WorkerStepTyped
<1>2. /\ tWorker' \in [TrWorkers -> TrWorkerRecord] /\ OthersKeepOn(w)
      /\ TakesLease(w) \/ GoesOn(w)
  BY DeliveriesMove
<1>3. /\ tFetched \subseteq Contents /\ tWorker \in [TrWorkers -> TrWorkerRecord]
      /\ tRun \in [TrRuns -> TrRunRecord] /\ NoTrRun.status = "NONE"
  BY TranskribusTypes DEF TranskribusInvariant
<1>4. /\ Created \subseteq Created'
      /\ \A r \in TrRuns : tRun'[r].status = "NONE" => tRun'[r] = NoTrRun
  BY RunRowsMove DEF Created
<1>5. TranskribusTypeOK'
  BY <1>1, <1>2, <1>3, TypedParts
<1>6. ASSUME NEW v \in TrWorkers
      PROVE  /\ tWorker'[v].pc \in AtRun => tWorker'[v].run \in Created'
             /\ tWorker'[v].pc \in WithTranscript => tWorker'[v].snap \in Contents
  <2>1. CASE v # w
    BY <1>2, <1>4, <2>1 DEF OthersKeepOn, TranskribusInvariant, RunsAreReal
  <2>2. CASE v = w /\ tWorker'[w].pc \in {"idle", "plan", "new"}
    BY <2>2 DEF AtRun, WithTranscript
  <2>3. CASE v = w /\ \E r \in TrRuns :
               PlanResume(w, r) /\ tWorker'[w].run = r /\ tWorker'[w].snap = tRun[r].assoc
    <3>1. PICK r \in TrRuns :
            PlanResume(w, r) /\ tWorker'[w].run = r /\ tWorker'[w].snap = tRun[r].assoc
      BY <2>3
    <3>2. tWorker' = [tWorker EXCEPT ![w] = [@ EXCEPT
            !.run = r, !.resumed = TRUE, !.snap = tRun[r].assoc,
            !.pc = IF Associated(r) THEN "complete" ELSE "fetch"]]
      BY <3>1 DEF PlanResume
    <3>3. tWorker'[w].pc = IF Associated(r) THEN "complete" ELSE "fetch"
      BY <1>3, <3>2 DEF TrWorkerRecord
    <3>4. r \in Created
      BY <3>1 DEF PlanResume, ResumeRuns, UploadResume, ExistingResume, ExistingStarted,
                  ExistingIncomplete, WithStatus, BlockingRuns, Created
    <3>5. tRun[r].assoc \in Contents \cup {NoSnapshot}
      BY <1>3 DEF TrRunRecord
    <3> QED  BY <1>4, <2>3, <3>1, <3>3, <3>4, <3>5 DEF Associated, WithTranscript
  <2>4. CASE v = w /\ StartRun(w)
    <3>1. PICK r \in TrRuns \ Created :
            /\ tRun' = [tRun EXCEPT ![r] = [NoTrRun EXCEPT !.status = "STARTED",
                                                           !.remote = ~Upload]]
            /\ tWorker' = [tWorker EXCEPT ![w] =
                 [@ EXCEPT !.run = r, !.pc = IF Upload THEN "upload" ELSE "recognise"]]
      BY <2>4 DEF StartRun
    <3>2. tWorker'[w].run = r /\ tWorker'[w].pc \in {"upload", "recognise"}
      BY <1>3, <3>1 DEF TrWorkerRecord
    <3>3. [NoTrRun EXCEPT !.status = "STARTED", !.remote = ~Upload].status = "STARTED"
      BY DEF NoTrRun
    <3>4. tRun'[r] = [NoTrRun EXCEPT !.status = "STARTED", !.remote = ~Upload]
      BY <1>3, <3>1
    <3>5. r \in Created'
      BY <3>3, <3>4 DEF Created
    <3> QED  BY <2>4, <3>2, <3>5 DEF WithTranscript
  <2>5. CASE /\ v = w /\ tWorker[w].pc \in AtRun /\ tWorker'[w].pc \in AtRun
             /\ tWorker'[w].run = tWorker[w].run
             /\ tWorker'[w].pc \in WithTranscript => tWorker'[w].snap \in Contents
    BY <1>4, <2>5 DEF TranskribusInvariant, RunsAreReal
  <2> QED  BY <1>2, <2>1, <2>2, <2>3, <2>4, <2>5 DEF TakesLease, GoesOn
<1> QED  BY <1>4, <1>5, <1>6 DEF TranskribusInvariant, RunsAreReal

(* So does a step of a transcriber or of the staff.                        *)
LEMMA PeopleKeepRuns ==
  ASSUME TranskribusInvariant,
         \/ \E r \in TrRuns : CorrectAtTranskribus(r)
         \/ EditRow \/ VerifyRow \/ FetchCorrected
         \/ \E x \in Contents, v, e \in BOOLEAN : Activate(x, v, e)
  PROVE  TranskribusInvariant' /\ tRun' = tRun /\ tWorker' = tWorker
<1>1. /\ tRun \in [TrRuns -> TrRunRecord] /\ tRow \in TrRowRecord
      /\ tWorker \in [TrWorkers -> TrWorkerRecord]
      /\ tRemote \in [TrRuns -> {"none", "recognised", "corrected"}]
      /\ tSnap \in [Contents -> {"none", "AUTOMATIC_HTR", "CORRECTED_CURRENT_SYNC"}]
      /\ tFetched \subseteq Contents
  BY TranskribusTypes DEF TranskribusInvariant
<1>2. tRun' = tRun /\ tWorker' = tWorker
  BY DEF CorrectAtTranskribus, EditRow, VerifyRow, FetchCorrected, Activate
<1>3. RunsAreReal'
  BY <1>2 DEF TranskribusInvariant, RunsAreReal, Created
<1>4. /\ tRow' \in TrRowRecord
      /\ tRemote' \in [TrRuns -> {"none", "recognised", "corrected"}]
      /\ tSnap' \in [Contents -> {"none", "AUTOMATIC_HTR", "CORRECTED_CURRENT_SYNC"}]
      /\ tFetched' \subseteq Contents
  <2>1. CASE \E r \in TrRuns : CorrectAtTranskribus(r)
    BY <1>1, <2>1 DEF CorrectAtTranskribus
  <2>2. CASE EditRow \/ VerifyRow
    <3>1. /\ [tRow EXCEPT !.text = "edited", !.drifted = TRUE] \in TrRowRecord
          /\ [tRow EXCEPT !.verified = TRUE] \in TrRowRecord
      BY <1>1 DEF TrRowRecord, TrTexts
    <3> QED  BY <1>1, <2>2, <3>1 DEF EditRow, VerifyRow
  <2>3. CASE FetchCorrected
    <3> DEFINE r == Newest(AuditRuns)
               x == [job |-> r, text |-> tRemote[r]]
    <3>1. r \in TrRuns
      <4>1. AuditRuns \in SUBSET TrRuns /\ AuditRuns # {}
        BY <2>3 DEF FetchCorrected, AuditRuns, WithStatus
      <4> QED  BY <4>1, NewestRun
    <3>2. tRemote[r] \in {"recognised", "corrected"}
      BY <1>1, <2>3, <3>1 DEF FetchCorrected
    <3>3. x \in Contents
      BY <3>1, <3>2 DEF Contents
    <3>4. tFetched' = tFetched \cup {x} /\ tSnap' = Stored(x, "CORRECTED_CURRENT_SYNC")
          /\ tRow' = tRow /\ tRemote' = tRemote
      BY <2>3 DEF FetchCorrected
    <3> HIDE DEF x
    <3> QED  BY <1>1, <3>3, <3>4 DEF Stored
  <2>4. CASE \E x \in Contents, v, e \in BOOLEAN : Activate(x, v, e)
    <3>1. PICK x \in Contents, v \in BOOLEAN, e \in BOOLEAN : Activate(x, v, e)
      BY <2>4
    <3>2. [text |-> x.text, bound |-> x, drifted |-> FALSE,
           verified |-> tRow.verified /\ ~(tRow.text # x.text)] \in TrRowRecord
      BY <1>1 DEF TrRowRecord, TrTexts, Contents
    <3> QED  BY <1>1, <3>1, <3>2 DEF Activate
  <2> QED  BY <2>1, <2>2, <2>3, <2>4
<1> QED  BY <1>1, <1>2, <1>3, <1>4, TypedParts DEF TranskribusInvariant

LEMMA TranskribusStarts ==
  ASSUME Init_Transkribus
  PROVE  TranskribusInvariant
<1>1. TranskribusTypeOK
  <2>1. /\ tRun \in [TrRuns -> TrRunRecord] /\ tRow \in TrRowRecord
        /\ tWorker \in [TrWorkers -> TrWorkerRecord]
        /\ tRemote \in [TrRuns -> {"none", "recognised", "corrected"}]
        /\ tSnap \in [Contents -> {"none", "AUTOMATIC_HTR", "CORRECTED_CURRENT_SYNC"}]
        /\ tFetched \subseteq Contents
    BY TranskribusTypes DEF Init_Transkribus
  <2> QED  BY <2>1 DEF TranskribusTypeOK, TrRunRecord, TrRowRecord, TrWorkerRecord
<1>2. RunsAreReal
  BY DEF Init_Transkribus, RunsAreReal, IdleTrWorker, AtRun, WithTranscript
<1> QED  BY <1>1, <1>2 DEF TranskribusInvariant

(* Rows, snapshots, bindings and deliveries of TranskribusRuns have their  *)
(* shapes in every reachable state, and a delivery that works on a run has *)
(* one (start_run, _resume_run_local_completion).                          *)
THEOREM TranskribusInvariantHolds == Spec_Transkribus => []TranskribusInvariant
<1>1. Init_Transkribus => TranskribusInvariant
  BY TranskribusStarts
<1>2. TranskribusInvariant /\ [Next_Transkribus]_tVars => TranskribusInvariant'
  <2> SUFFICES ASSUME TranskribusInvariant, [Next_Transkribus]_tVars
               PROVE  TranskribusInvariant'
    OBVIOUS
  <2>1. CASE \E w \in TrWorkers : WorkOn(w)
    BY <2>1, DeliveryKeepsInvariant
  <2>2. CASE UNCHANGED tVars
    BY <2>2 DEF tVars, TranskribusInvariant, TranskribusTypeOK, RunsAreReal, Created
  <2> QED  BY <2>1, <2>2, PeopleKeepRuns DEF Next_Transkribus
<1> QED  BY <1>1, <1>2, PTL DEF Spec_Transkribus

THEOREM TranskribusTyped == Spec_Transkribus => []TranskribusTypeOK
<1>1. TranskribusInvariant => TranskribusTypeOK
  BY DEF TranskribusInvariant
<1> QED  BY <1>1, TranskribusInvariantHolds, PTL

(* The snapshot a run is associated with never changes, however many       *)
(* deliveries of it overlap: a stale one that fetched another transcript   *)
(* of the same job is refused (associate_run_with_automatic_snapshot).     *)
THEOREM AssociationStays == Spec_Transkribus => AssociationIsKept
<1>1. TranskribusInvariant /\ [Next_Transkribus]_tVars =>
        [\A r \in TrRuns : Associated(r) => tRun'[r].assoc = tRun[r].assoc]_tVars
  <2> SUFFICES ASSUME TranskribusInvariant, [Next_Transkribus]_tVars
               PROVE  [\A r \in TrRuns : Associated(r) => tRun'[r].assoc = tRun[r].assoc]_tVars
    OBVIOUS
  <2>1. CASE \E w \in TrWorkers : WorkOn(w)
    BY <2>1, RunRowsMove
  <2>2. CASE UNCHANGED tVars
    BY <2>2
  <2> QED  BY <2>1, <2>2, PeopleKeepRuns DEF Next_Transkribus
<1> QED  BY <1>1, TranskribusInvariantHolds, PTL DEF Spec_Transkribus, AssociationIsKept

------------------------------------------------------------------------------
(* What a duplicate delivery relies on, where runs upload a document each  *)
(* time and nobody activates a corrected transcript.                       *)

(* Runs are created in order and one delivery at most has the lease.       *)
RunsInOrder ==
  /\ \A q \in Created, r \in TrRuns : r < q => r \in Created
  /\ \A v, w \in TrWorkers : tWorker[v].holds /\ tWorker[w].holds => v = w

(* The row was written for r, or for a later run that has its document.    *)
RowIsBoundTo(r) == tRow.bound = tRun[r].assoc /\ tRow.text # "none"
Overtaken(r) == \E q \in TrRuns : r < q /\ tRun[q].remote

EndedRunWrote(r) ==
  tRun[r].status = "SUCCEEDED" =>
    /\ Associated(r)
    /\ tRow.verified \/ RowIsBoundTo(r) \/ Overtaken(r)

(* The run of a delivery is at Transkribus; while it has the lease no later *)
(* run ends, and a run that has ended is the one the row is bound to.      *)
DeliveryIsCurrent(w) ==
  /\ tWorker[w].pc \in AtRun \ {"upload"} => tRun[tWorker[w].run].remote
  /\ tWorker[w].holds /\ tWorker[w].pc \in AtRun =>
       /\ \A q \in TrRuns : tWorker[w].run < q => tRun[q].status # "SUCCEEDED"
       /\ tRun[tWorker[w].run].status = "SUCCEEDED" =>
            tRow.verified \/ RowIsBoundTo(tWorker[w].run)

EditsInvariant ==
  /\ TranskribusInvariant /\ RunsInOrder /\ tFetched = {}
  /\ \A r \in TrRuns : EndedRunWrote(r)
  /\ \A w \in TrWorkers : DeliveryIsCurrent(w)

(* A row that has its document keeps it; runs are created in order; only a *)
(* completion ends a run or writes the row.                                *)
LEMMA RunsGoOn ==
  ASSUME TranskribusInvariant, NEW w \in TrWorkers, WorkOn(w)
  PROVE  \A r \in TrRuns :
           /\ tRun[r].remote => tRun'[r].remote
           /\ r \in Created' \ Created =>
                /\ \A q \in TrRuns \ Created : r <= q
                /\ \A q \in TrRuns \ {r} : tRun'[q] = tRun[q]
           /\ tRun'[r].status = "SUCCEEDED" /\ tRun[r].status # "SUCCEEDED" =>
                CompleteLocally(w) /\ r = tWorker[w].run
<1> SUFFICES ASSUME NEW r \in TrRuns
             PROVE  /\ tRun[r].remote => tRun'[r].remote
                    /\ tRun[r].status = "NONE" /\ tRun'[r].status # "NONE" =>
                         /\ \A q \in TrRuns \ Created : r <= q
                         /\ \A q \in TrRuns \ {r} : tRun'[q] = tRun[q]
                    /\ tRun'[r].status = "SUCCEEDED" /\ tRun[r].status # "SUCCEEDED" =>
                         CompleteLocally(w) /\ r = tWorker[w].run
  BY DEF Created
<1> DEFINE rw == tWorker[w].run
<1>1. /\ tRun \in [TrRuns -> TrRunRecord] /\ tRun[r] \in TrRunRecord
      /\ tWorker[w].pc \in {"associate", "complete"} =>
           rw \in TrRuns /\ tRun[rw].status # "NONE"
  BY TranskribusTypes DEF TranskribusInvariant, RunsAreReal, AtRun, Created
<1>2. CASE tRun' = tRun
  BY <1>1, <1>2
<1>3. CASE StartsRun(w)
  <2> DEFINE row == [NoTrRun EXCEPT !.status = "STARTED", !.remote = ~Upload]
  <2>1. PICK n \in TrRuns \ Created :
          tRun' = [tRun EXCEPT ![n] = row] /\ \A q \in TrRuns \ Created : n <= q
    BY <1>3 DEF StartsRun
  <2>2. row.status = "STARTED"
    BY DEF NoTrRun
  <2>3. ~tRun[n].remote
    BY <2>1, TranskribusTypes DEF Created, TranskribusInvariant, RunsAreReal
  <2> HIDE DEF row
  <2>4. \A q \in TrRuns \ {n} : tRun'[q] = tRun[q]
    BY <1>1, <2>1
  <2>5. tRun'[n] = row
    BY <1>1, <2>1
  <2>6. CASE r = n
    BY <2>1, <2>2, <2>3, <2>4, <2>5, <2>6
  <2>7. CASE r # n
    BY <2>4, <2>7
  <2> QED  BY <2>6, <2>7
<1>4. CASE MovesRun(w)
  <2>1. PICK row \in TrRunRecord :
          /\ tRun' = [tRun EXCEPT ![rw] = row] /\ row.status \notin {"NONE", "SUCCEEDED"}
          /\ tRun[rw].remote => row.remote
    BY <1>4 DEF MovesRun
  <2>2. tWorker[w].pc \in AtRun
    BY <1>4 DEF MovesRun
  <2>3. rw \in TrRuns /\ tRun[rw].status # "NONE"
    BY <2>2 DEF TranskribusInvariant, RunsAreReal, Created
  <2> QED  BY <1>1, <2>1, <2>3
<1>5. CASE AssociatesRun(w)
  <2>1. tRun' = [tRun EXCEPT ![rw] = [@ EXCEPT !.assoc = tWorker[w].snap]]
    BY <1>5 DEF AssociatesRun
  <2>2. CASE r # rw
    BY <1>1, <2>1, <2>2
  <2>3. CASE r = rw
    <3>1. tRun'[r] = [tRun[r] EXCEPT !.assoc = tWorker[w].snap]
      BY <1>1, <2>1, <2>3
    <3> QED  BY <1>1, <3>1 DEF TrRunRecord
  <2> QED  BY <2>2, <2>3
<1>6. CASE CompletesRun(w)
  <2>1. tRun' = [tRun EXCEPT ![rw] = [@ EXCEPT !.status = "SUCCEEDED"]]
    BY <1>6 DEF CompletesRun
  <2>2. CASE r # rw
    BY <1>1, <2>1, <2>2
  <2>3. CASE r = rw
    <3>1. tRun'[r] = [tRun[r] EXCEPT !.status = "SUCCEEDED"]
      BY <1>1, <2>1, <2>3
    <3>2. tRun'[r].remote = tRun[r].remote /\ tRun[r].status # "NONE"
      BY <1>1, <1>6, <2>3, <3>1 DEF TrRunRecord, CompletesRun
    <3>3. CompleteLocally(w)
      BY <1>6 DEF CompletesRun
    <3> QED  BY <2>3, <3>2, <3>3
  <2> QED  BY <2>2, <2>3
<1> QED  BY <1>2, <1>3, <1>4, <1>5, <1>6, WorkerStepTyped

LEMMA OnlyCompletionWrites ==
  ASSUME NEW w \in TrWorkers, WorkOn(w), ~CompleteLocally(w)
  PROVE  tRow' = tRow
BY DEF WorkOn, Deliver, PlanResume, PlanRecognitionOnly, PlanNew, StartRun, MarkUploaded,
       MarkRecognitionStarted, FetchTranscript, FailRun, StoreSnapshot, Associate, StopDelivery

(* Completion without verified text: nothing changes for a duplicate, any  *)
(* other delivery writes its snapshot.                                     *)
LEMMA CompletionWrites ==
  ASSUME TranskribusInvariant, NEW w \in TrWorkers, CompleteLocally(w)
  PROVE  LET r == tWorker[w].run
             x == tWorker[w].snap IN
         /\ tWorker[w].holds /\ tWorker[w].pc \in AtRun \ {"upload"} /\ r \in TrRuns
         /\ tWorker'[w].pc = "idle" /\ tWorker'[w].pc \notin AtRun
         /\ Associated(r) /\ tRun[r].assoc = x
         /\ \/ tRow' = tRow /\ (tRow.verified \/ tRun[r].status = "SUCCEEDED")
            \/ ~tRow.verified /\ tRow'.bound = x /\ tRow'.text # "none"
         /\ \/ tRow' = tRow
            \/ ~(tRun[r].status = "SUCCEEDED" /\ (tRow.verified \/ RowIsBoundTo(r)))
<1> DEFINE r == tWorker[w].run
           x == tWorker[w].snap
<1>1. /\ tWorker[w].pc = "complete" /\ tWorker[w].holds /\ tRun[r].assoc = x
      /\ \/ AlreadyDone(w) /\ tRow' = tRow
         \/ tRow.verified /\ tRow' = tRow
         \/ /\ ~AlreadyDone(w) /\ ~tRow.verified
            /\ tRow' = [text |-> x.text, bound |-> x, drifted |-> FALSE, verified |-> FALSE]
  BY DEF CompleteLocally
<1>2. r \in TrRuns /\ x \in Contents /\ tWorker \in [TrWorkers -> TrWorkerRecord]
  BY <1>1, TranskribusTypes DEF TranskribusInvariant, RunsAreReal, AtRun, WithTranscript, Created
<1>3. Associated(r) /\ x.text # "none"
  BY <1>1, <1>2, TranskribusTypes DEF Associated, Contents
<1>4. tWorker'[w].pc = "idle"
  BY <1>2, TranskribusTypes DEF CompleteLocally, EndDelivery
<1>5. AlreadyDone(w) => tRun[r].status = "SUCCEEDED"
  BY DEF AlreadyDone, RunOf
<1>6. tRun[r].status = "SUCCEEDED" /\ RowIsBoundTo(r) => AlreadyDone(w)
  BY <1>1 DEF AlreadyDone, RunOf, RowIsBoundTo, StructurallyComplete
<1> HIDE DEF r, x
<1>7. tRow' = [text |-> x.text, bound |-> x, drifted |-> FALSE, verified |-> FALSE]
        => tRow'.bound = x /\ tRow'.text # "none"
  BY <1>3
<1> QED  BY <1>1, <1>2, <1>3, <1>4, <1>5, <1>6, <1>7 DEF AtRun, r, x

LEMMA DeliveryKeepsEnded ==
  ASSUME EditsInvariant, NEW w \in TrWorkers, WorkOn(w), NEW r \in TrRuns
  PROVE  EndedRunWrote(r)'
<1> SUFFICES ASSUME tRun'[r].status = "SUCCEEDED"
             PROVE  /\ Associated(r)'
                    /\ tRow'.verified \/ RowIsBoundTo(r)' \/ Overtaken(r)'
  BY DEF EndedRunWrote
<1> DEFINE rw == tWorker[w].run
<1>1. /\ Associated(r) => tRun'[r].assoc = tRun[r].assoc
      /\ \A q \in TrRuns : tRun[q].remote => tRun'[q].remote
      /\ tRun[r].status # "SUCCEEDED" => CompleteLocally(w) /\ r = rw
  BY RunRowsMove, RunsGoOn DEF EditsInvariant
<1>2. Overtaken(r) => Overtaken(r)'
  BY <1>1 DEF Overtaken
<1>3. CASE tRow' = tRow /\ tRun[r].status = "SUCCEEDED"
  <2>1. EndedRunWrote(r)
    BY DEF EditsInvariant
  <2> QED  BY <1>1, <1>2, <1>3, <2>1 DEF EndedRunWrote, Associated, RowIsBoundTo
<1>4. CASE CompleteLocally(w)
  <2>1. /\ tWorker[w].holds /\ tWorker[w].pc \in AtRun \ {"upload"} /\ rw \in TrRuns
        /\ Associated(rw)
        /\ \/ tRow' = tRow /\ (tRow.verified \/ tRun[rw].status = "SUCCEEDED")
           \/ ~tRow.verified /\ tRow'.bound = tRun[rw].assoc /\ tRow'.text # "none"
    BY <1>4, CompletionWrites DEF EditsInvariant
  <2>2. DeliveryIsCurrent(w) /\ EndedRunWrote(r)
    BY DEF EditsInvariant
  <2>3. CASE r = rw
    BY <1>1, <1>3, <2>1, <2>3 DEF Associated, RowIsBoundTo
  <2>4. CASE r # rw
    <3>1. tRun[r].status = "SUCCEEDED"
      BY <1>1, <2>4
    <3>2. r \in Nat /\ rw \in Nat /\ ~(rw < r) /\ tRun[rw].remote
      BY <2>1, <2>2, <3>1, TranskribusAssumption DEF DeliveryIsCurrent, TrRuns
    <3>3. r < rw
      BY <2>4, <3>2
    <3>4. Overtaken(r)'
      BY <1>1, <2>1, <3>2, <3>3 DEF Overtaken
    <3> QED  BY <1>1, <2>2, <3>1, <3>4 DEF EndedRunWrote, Associated
  <2> QED  BY <2>3, <2>4
<1> QED  BY <1>1, <1>3, <1>4, OnlyCompletionWrites

LEMMA OthersStayCurrent ==
  ASSUME EditsInvariant, NEW w \in TrWorkers, WorkOn(w), NEW v \in TrWorkers \ {w}
  PROVE  DeliveryIsCurrent(v)'
<1> DEFINE rv == tWorker[v].run
<1>1. /\ tWorker'[v].pc = tWorker[v].pc /\ tWorker'[v].run = rv
      /\ tWorker'[v].holds => tWorker[v].holds
      /\ TakesLease(w) \/ GoesOn(w)
  BY DeliveriesMove DEF EditsInvariant, OthersKeepOn
<1>2. tWorker[v].pc \in AtRun => rv \in TrRuns
  BY DEF EditsInvariant, TranskribusInvariant, RunsAreReal, Created
<1>3. DeliveryIsCurrent(v)
  BY DEF EditsInvariant
<1>4. \A r \in TrRuns : tRun[r].remote => tRun'[r].remote
  BY RunsGoOn DEF EditsInvariant
<1>5. ASSUME tWorker'[v].holds
      PROVE  /\ tRow' = tRow
             /\ \A r \in TrRuns :
                  tRun'[r].status = "SUCCEEDED" =>
                    tRun[r].status = "SUCCEEDED" /\ tRun'[r].assoc = tRun[r].assoc
  <2>1. ~tWorker[w].holds \/ TakesLease(w)
    BY <1>1, <1>5 DEF EditsInvariant, RunsInOrder
  <2>2. ~TakesLease(w)
    BY <1>5 DEF TakesLease
  <2>3. ~CompleteLocally(w)
    BY <2>1, <2>2 DEF CompleteLocally
  <2>4. \A r \in TrRuns : tRun[r].status = "SUCCEEDED" => Associated(r)
    BY DEF EditsInvariant, EndedRunWrote
  <2> QED  BY <2>3, <2>4, OnlyCompletionWrites, RunsGoOn, RunRowsMove DEF EditsInvariant
<1> QED  BY <1>1, <1>2, <1>3, <1>4, <1>5 DEF DeliveryIsCurrent, RowIsBoundTo, AtRun

LEMMA DeliveryStaysCurrent ==
  ASSUME EditsInvariant, Upload, ~TrForceReprocess, NEW w \in TrWorkers, WorkOn(w)
  PROVE  DeliveryIsCurrent(w)'
<1> DEFINE rw == tWorker[w].run
<1>1. /\ tRun \in [TrRuns -> TrRunRecord] /\ tWorker \in [TrWorkers -> TrWorkerRecord]
      /\ TranskribusInvariant /\ \A r \in TrRuns : EndedRunWrote(r)
  BY TranskribusTypes DEF EditsInvariant, TranskribusInvariant
<1>2. CASE tWorker'[w].pc \notin AtRun
  BY <1>2 DEF DeliveryIsCurrent
<1>3. ASSUME NEW r \in TrRuns, PlanResume(w, r), tWorker'[w].run = r
      PROVE  DeliveryIsCurrent(w)'
  <2>1. /\ tRun' = tRun /\ tRow' = tRow /\ r = Newest(BlockingRuns) /\ r \in BlockingRuns
        /\ tRun[r].remote
    BY <1>3 DEF PlanResume, ResumeRuns, UploadResume, Durable
  <2>2. \A q \in BlockingRuns : q <= r
    <3>1. BlockingRuns \in SUBSET TrRuns
      BY DEF BlockingRuns, WithStatus
    <3> QED  BY <2>1, <3>1, NewestRun
  <2>3. \A q \in TrRuns : r < q => q \notin BlockingRuns
    BY <2>2, TranskribusAssumption DEF TrRuns
  <2>4. \A q \in TrRuns : r < q => tRun[q].status # "SUCCEEDED" /\ ~tRun[q].remote
    <3> SUFFICES ASSUME NEW q \in TrRuns, q \notin BlockingRuns
                 PROVE  tRun[q].status # "SUCCEEDED" /\ ~tRun[q].remote
      BY <2>3
    <3>1. tRun[q].status \in {"NONE", "FAILED"} /\ (tRun[q].status = "FAILED" => ~tRun[q].remote)
      BY <1>1 DEF BlockingRuns, WithStatus, TrRunRecord
    <3>2. tRun[q].status = "NONE" => ~tRun[q].remote
      BY <1>1, TranskribusTypes DEF TranskribusInvariant, RunsAreReal
    <3> QED  BY <3>1, <3>2
  <2>5. ~Overtaken(r)
    BY <2>4 DEF Overtaken
  <2>6. tRun[r].status = "SUCCEEDED" => tRow.verified \/ RowIsBoundTo(r)
    BY <1>1, <2>5 DEF EndedRunWrote
  <2> QED  BY <1>3, <2>1, <2>4, <2>6 DEF DeliveryIsCurrent, RowIsBoundTo
<1>4. CASE StartRun(w)
  <2>1. PICK r \in TrRuns \ Created :
          /\ \A q \in TrRuns \ Created : r <= q
          /\ tRun' = [tRun EXCEPT ![r] = [NoTrRun EXCEPT !.status = "STARTED",
                                                         !.remote = ~Upload]]
          /\ tWorker' = [tWorker EXCEPT ![w] =
               [@ EXCEPT !.run = r, !.pc = IF Upload THEN "upload" ELSE "recognise"]]
    BY <1>4 DEF StartRun
  <2>2. tWorker'[w].run = r /\ tWorker'[w].pc = "upload"
    BY <1>1, <2>1 DEF TrWorkerRecord
  <2>3. [NoTrRun EXCEPT !.status = "STARTED", !.remote = ~Upload].status = "STARTED"
    BY DEF NoTrRun
  <2>4. tRun'[r].status = "STARTED" /\ \A q \in TrRuns : r < q => tRun'[q] = tRun[q]
    BY <1>1, <2>1, <2>3, TranskribusAssumption DEF TrRuns
  <2>5. \A q \in TrRuns : r < q => tRun[q].status = "NONE"
    BY <2>1 DEF EditsInvariant, RunsInOrder, Created
  <2> QED  BY <2>2, <2>4, <2>5 DEF DeliveryIsCurrent
<1>5. ASSUME tWorker[w].pc \in AtRun, tWorker'[w].pc \in AtRun, tWorker'[w].run = rw,
             tWorker'[w].holds => tWorker[w].holds
      PROVE  DeliveryIsCurrent(w)'
  <2>1. ~CompleteLocally(w)
    BY <1>1, <1>5, CompletionWrites
  <2>2. /\ tRow' = tRow /\ rw \in TrRuns
        /\ \A r \in TrRuns : tRun'[r].status = "SUCCEEDED" => tRun[r].status = "SUCCEEDED"
        /\ \A r \in TrRuns : tRun[r].remote => tRun'[r].remote
    BY <1>1, <1>5, <2>1, OnlyCompletionWrites, RunsGoOn
    DEF TranskribusInvariant, RunsAreReal, Created
  <2>3. tRun[rw].status = "SUCCEEDED" => tRun'[rw].assoc = tRun[rw].assoc
    BY <1>1, <2>2, RunRowsMove DEF EndedRunWrote
  <2>4. tWorker[w].pc = "upload" => tRun'[rw].remote
    <3> SUFFICES ASSUME tWorker[w].pc = "upload" PROVE tRun'[rw].remote
      OBVIOUS
    <3>1. MarkUploaded(w) \/ EndDelivery(w)
      BY DEF WorkOn, Deliver, PlanResume, PlanRecognitionOnly, PlanNew, StartRun,
             MarkRecognitionStarted, FetchTranscript, FailRun, StoreSnapshot, Associate,
             CompleteLocally, StopDelivery
    <3>2. ~EndDelivery(w)
      BY <1>1, <1>5, TranskribusTypes DEF EndDelivery, AtRun
    <3>3. tRun'[rw] = [tRun[rw] EXCEPT !.status = "UPLOADED", !.remote = TRUE]
      BY <1>1, <2>2, <3>1, <3>2 DEF MarkUploaded
    <3> QED  BY <1>1, <2>2, <3>3 DEF TrRunRecord
  <2>5. DeliveryIsCurrent(w)
    BY DEF EditsInvariant
  <2> QED  BY <1>5, <2>2, <2>3, <2>4, <2>5 DEF DeliveryIsCurrent, RowIsBoundTo
<1>6. TakesLease(w) \/ GoesOn(w)
  BY <1>1, DeliveriesMove
<1> QED  BY <1>2, <1>3, <1>4, <1>5, <1>6 DEF TakesLease, GoesOn, AtRun

LEMMA DeliveryKeepsEditsInvariant ==
  ASSUME EditsInvariant, Upload, ~TrForceReprocess, NEW w \in TrWorkers, WorkOn(w)
  PROVE  EditsInvariant'
<1>1. TranskribusInvariant /\ TranskribusInvariant' /\ tFetched' = {}
  BY DeliveryKeepsInvariant, WorkerStepTyped DEF EditsInvariant
<1>2. /\ Created \subseteq Created' /\ Created' \subseteq TrRuns
      /\ \A r \in Created' \ Created : \A q \in TrRuns \ Created : r <= q
  BY <1>1, RunRowsMove, RunsGoOn DEF Created
<1>3. ASSUME NEW q \in Created', NEW r \in TrRuns, r < q
      PROVE  r \in Created'
  BY <1>2, <1>3, TranskribusAssumption DEF EditsInvariant, RunsInOrder, TrRuns
<1>4. ASSUME NEW u \in TrWorkers, NEW v \in TrWorkers, tWorker'[u].holds, tWorker'[v].holds
      PROVE  u = v
  BY <1>1, <1>4, DeliveriesMove
  DEF OthersKeepOn, TakesLease, GoesOn, EditsInvariant, RunsInOrder
<1>5. RunsInOrder'
  BY <1>3, <1>4 DEF RunsInOrder
<1>6. \A v \in TrWorkers : DeliveryIsCurrent(v)'
  BY OthersStayCurrent, DeliveryStaysCurrent
<1> QED  BY <1>1, <1>5, <1>6, DeliveryKeepsEnded DEF EditsInvariant

LEMMA PeopleKeepEditsInvariant ==
  ASSUME EditsInvariant, ~TrActivation,
         \/ \E r \in TrRuns : CorrectAtTranskribus(r)
         \/ EditRow \/ VerifyRow \/ FetchCorrected
         \/ \E x \in Contents, v, e \in BOOLEAN : Activate(x, v, e)
  PROVE  EditsInvariant'
<1>1. TranskribusInvariant' /\ tRun' = tRun /\ tWorker' = tWorker
  BY PeopleKeepRuns DEF EditsInvariant
<1>2. ~FetchCorrected /\ ~\E x \in Contents, v, e \in BOOLEAN : Activate(x, v, e)
  BY DEF EditsInvariant, FetchCorrected, Activate
<1>3. tFetched' = {}
  BY <1>2 DEF EditsInvariant, CorrectAtTranskribus, EditRow, VerifyRow
<1>4. /\ tRow'.bound = tRow.bound /\ (tRow.text # "none" => tRow'.text # "none")
      /\ tRow.verified => tRow'.verified
  <2>1. tRow \in TrRowRecord
    BY TranskribusTypes DEF EditsInvariant, TranskribusInvariant
  <2> QED  BY <1>2, <2>1 DEF CorrectAtTranskribus, EditRow, VerifyRow, TrRowRecord
<1>5. RunsInOrder'
  BY <1>1 DEF EditsInvariant, RunsInOrder, Created
<1>6. ASSUME NEW r \in TrRuns PROVE EndedRunWrote(r)'
  <2>1. EndedRunWrote(r)
    BY DEF EditsInvariant
  <2> QED  BY <1>1, <1>4, <2>1 DEF EndedRunWrote, Associated, RowIsBoundTo, Overtaken
<1>7. ASSUME NEW w \in TrWorkers PROVE DeliveryIsCurrent(w)'
  <2>1. DeliveryIsCurrent(w)
    BY DEF EditsInvariant
  <2> QED  BY <1>1, <1>4, <2>1 DEF DeliveryIsCurrent, RowIsBoundTo
<1> QED  BY <1>1, <1>3, <1>5, <1>6, <1>7 DEF EditsInvariant

(* A delivery that finds its run SUCCEEDED leaves alone what the staff have *)
(* edited since, whatever fails, is redelivered or overlaps                *)
(* (complete_transkribus_local_success). Where the staff activate corrected *)
(* transcripts the run resumed_run shows that it does not.                 *)
THEOREM UploadRunsKeepEdits ==
  ASSUME Upload, ~TrForceReprocess, ~TrActivation
  PROVE  Spec_Transkribus => EditsSurviveDuplicates
<1>1. Init_Transkribus => EditsInvariant
  <2> SUFFICES ASSUME Init_Transkribus PROVE EditsInvariant
    OBVIOUS
  <2>1. TranskribusInvariant
    BY TranskribusStarts
  <2>2. \A r \in TrRuns : tRun[r].status = "NONE"
    BY DEF Init_Transkribus, NoTrRun
  <2>3. \A w \in TrWorkers : tWorker[w].pc = "idle" /\ ~tWorker[w].holds
    BY DEF Init_Transkribus, IdleTrWorker
  <2> QED  BY <2>1, <2>2, <2>3
           DEF EditsInvariant, RunsInOrder, EndedRunWrote, DeliveryIsCurrent, Created, AtRun,
               Init_Transkribus
<1>2. EditsInvariant /\ [Next_Transkribus]_tVars => EditsInvariant'
  <2> SUFFICES ASSUME EditsInvariant, [Next_Transkribus]_tVars PROVE EditsInvariant'
    OBVIOUS
  <2>1. CASE \E w \in TrWorkers : WorkOn(w)
    BY <2>1, DeliveryKeepsEditsInvariant
  <2>2. CASE UNCHANGED tVars
    BY <2>2 DEF tVars, EditsInvariant, TranskribusInvariant, TranskribusTypeOK, RunsAreReal,
                Created, RunsInOrder, EndedRunWrote, Associated, RowIsBoundTo, Overtaken,
                DeliveryIsCurrent
  <2> QED  BY <2>1, <2>2, PeopleKeepEditsInvariant DEF Next_Transkribus
<1>3. EditsInvariant /\ [Next_Transkribus]_tVars => [KeepsEdits]_tVars
  <2> SUFFICES ASSUME EditsInvariant, Next_Transkribus, NEW w \in TrWorkers,
                      tWorker[w].pc = "complete", tWorker'[w].pc = "idle",
                      RunOf(w).status = "SUCCEEDED", tRow.text = "edited"
               PROVE  tRow'.text = "edited"
    BY DEF KeepsEdits
  <2>1. PICK v \in TrWorkers : WorkOn(v)
    BY PeopleKeepRuns DEF EditsInvariant, Next_Transkribus
  <2>2. v = w
    <3>1. v # w => tWorker'[w].pc = tWorker[w].pc
      BY <2>1, DeliveriesMove DEF EditsInvariant, OthersKeepOn
    <3> QED  BY <3>1
  <2>3. CASE CompleteLocally(w)
    <3>1. /\ tWorker[w].holds /\ tWorker[w].pc \in AtRun
          /\ \/ tRow' = tRow
             \/ ~(tRun[tWorker[w].run].status = "SUCCEEDED"
                  /\ (tRow.verified \/ RowIsBoundTo(tWorker[w].run)))
      BY <2>3, CompletionWrites DEF EditsInvariant
    <3>2. DeliveryIsCurrent(w)
      BY DEF EditsInvariant
    <3> QED  BY <3>1, <3>2 DEF DeliveryIsCurrent, RunOf
  <2>4. CASE ~CompleteLocally(w)
    BY <2>1, <2>2, <2>4, OnlyCompletionWrites
  <2> QED  BY <2>3, <2>4
<1> QED  BY <1>1, <1>2, <1>3, PTL DEF Spec_Transkribus, EditsSurviveDuplicates
===============================================================================
