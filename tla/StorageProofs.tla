----------------------------- MODULE StorageProofs -----------------------------
(***************************************************************************)
(* Theorems about what uploads and recognition leave in storage.           *)
(*                                                                         *)
(* ReadySnapshotIsWhole for any number of calls and of pages. What makes   *)
(* it inductive is who may still remove an object: the undoing call of a   *)
(* row that never becomes READY again, and a clean-up report, which names  *)
(* only keys of rows whose call is over. From it, that rows and objects    *)
(* together implement WriteOnce.                                           *)
(*                                                                         *)
(* AttemptKeepsItsPages for any number of files, tabs and rows. What makes *)
(* it inductive is where a tab that still runs may put its row: a part     *)
(* after the committed pages, a display-only page where they end.          *)
(***************************************************************************)
EXTENDS SnapshotStorage, SourceFiles, FiniteSetTheorems, TLAPS

Uploading(i) == storer[i].at \in {"upload", "look", "locked", "save"}
Undoing(i) == storer[i].at \in {"undo", "mark"}

(* A working call has the row it created, and nobody else's time touches it. *)
RowFollowsCall ==
  \A i \in Storers :
    /\ Uploading(i) \/ Undoing(i) \/ IsAt(i, "recheck") => snapRow[i] = "PENDING_UPLOAD"
    /\ storer[i].at \in {"parsed", "create"} => snapRow[i] = "none"
    /\ i \in staleRows => ~ Storing(i)

(* A call puts nothing before its row is there. Until it gives up, its     *)
(* keys hold their objects; all do when it looks for a winner.             *)
UploadedKeysHold ==
  \A i \in Storers :
    /\ storer[i].at \in {"parsed", "create", "recheck"} => storer[i].keys = {}
    /\ Uploading(i) => \A p \in storer[i].keys : <<i, p>> \in s3Objects
    /\ storer[i].at \in {"look", "locked", "save"} => storer[i].keys = SnapPages

WinnerIsReady ==
  \A i \in Storers :
    /\ storer[i].winner # NoWinner => snapRow[storer[i].winner] = "READY"
    /\ IsAt(i, "returned") => storer[i].winner # NoWinner

ObjectHasRow == \A k \in s3Objects : snapRow[k[1]] # "none"

OrphanIsAbandoned ==
  \A k \in orphans : snapRow[k[1]] # "READY" /\ ~ Storing(k[1])

ReadyIsWhole ==
  \A i \in Storers, p \in SnapPages : snapRow[i] = "READY" => <<i, p>> \in s3Objects

OneReady ==
  \A i, j \in Storers : snapRow[i] = "READY" /\ snapRow[j] = "READY" => i = j

(* The inductive invariant of the storage of a snapshot. *)
SnapshotInv ==
  /\ SnapTypeOK /\ RowFollowsCall /\ UploadedKeysHold /\ WinnerIsReady
  /\ ObjectHasRow /\ OrphanIsAbandoned /\ ReadyIsWhole /\ OneReady

FailedIsOver == \A i \in Storers : snapRow[i] = "FAILED" => ~ Storing(i)

------------------------------------------------------------------------------
(* Nothing is stored at the start. *)
LEMMA SnapshotInit == Init_Snapshot => SnapshotInv /\ FailedIsOver
  BY SnapAssumption
  DEF Init_Snapshot, SnapshotInv, FailedIsOver, SnapTypeOK, RowFollowsCall,
      UploadedKeysHold, WinnerIsReady, ObjectHasRow, OrphanIsAbandoned,
      ReadyIsWhole, OneReady, StorerSteps, StorerEnds, Uploading, Undoing,
      Storing, IsAt, NoWinner, Storers, SnapKeys

(* NoWinner is no call. *)
LEMMA NoWinnerIsNoStorer == NoWinner \notin Storers
  BY SnapAssumption DEF NoWinner, Storers

(* Every step of a call, of time and of the clean-up keeps the invariant. *)
LEMMA SnapshotStep ==
  SnapshotInv /\ FailedIsOver /\ [Next_Snapshot]_sVars => (SnapshotInv /\ FailedIsOver)'
<1> SUFFICES ASSUME SnapshotInv, FailedIsOver, [Next_Snapshot]_sVars
             PROVE  (SnapshotInv /\ FailedIsOver)'
  OBVIOUS
<1>0. /\ SnapTypeOK /\ RowFollowsCall /\ UploadedKeysHold /\ WinnerIsReady
      /\ ObjectHasRow /\ OrphanIsAbandoned /\ ReadyIsWhole /\ OneReady
  BY DEF SnapshotInv
<1> USE NoWinnerIsNoStorer
    DEF SnapTypeOK, StorerSteps, StorerEnds, Uploading, Undoing, Storing, IsAt,
        StorerGoes, StorerTakes, S3Rests, OperatorRests, SnapKeys, ReadySnapshots
<1>1. CASE UNCHANGED sVars
  BY <1>1 DEF sVars, SnapshotInv, FailedIsOver, RowFollowsCall, UploadedKeysHold,
     WinnerIsReady, ObjectHasRow, OrphanIsAbandoned, ReadyIsWhole, OneReady
<1>2. ASSUME NEW i \in Storers, FindExisting(i) PROVE (SnapshotInv /\ FailedIsOver)'
  <2>1. SnapTypeOK'
    BY <1>0, <1>2 DEF FindExisting
  <2>2. RowFollowsCall'
    BY <1>0, <1>2 DEF FindExisting, RowFollowsCall
  <2>3. UploadedKeysHold'
    BY <1>0, <1>2 DEF FindExisting, UploadedKeysHold, RowFollowsCall
  <2>4. WinnerIsReady'
    BY <1>0, <1>2 DEF FindExisting, WinnerIsReady, RowFollowsCall
  <2>5. ObjectHasRow'
    BY <1>0, <1>2 DEF FindExisting, ObjectHasRow, RowFollowsCall
  <2>6. OrphanIsAbandoned'
    BY <1>0, <1>2 DEF FindExisting, OrphanIsAbandoned, RowFollowsCall
  <2>7. ReadyIsWhole'
    BY <1>0, <1>2 DEF FindExisting, ReadyIsWhole, RowFollowsCall
  <2>8. OneReady'
    BY <1>0, <1>2 DEF FindExisting, OneReady, RowFollowsCall
  <2>9. FailedIsOver'
    BY <1>0, <1>2 DEF FindExisting, FailedIsOver, RowFollowsCall
  <2> QED
    BY <2>1, <2>2, <2>3, <2>4, <2>5, <2>6, <2>7, <2>8, <2>9 DEF SnapshotInv
<1>3. ASSUME NEW i \in Storers, CreatePending(i)
      PROVE  (SnapshotInv /\ FailedIsOver)'
  <2>1. SnapTypeOK'
    BY <1>0, <1>3 DEF CreatePending
  <2>2. RowFollowsCall'
    BY <1>0, <1>3 DEF CreatePending, RowFollowsCall
  <2>3. UploadedKeysHold'
    BY <1>0, <1>3 DEF CreatePending, UploadedKeysHold, RowFollowsCall
  <2>4. WinnerIsReady'
    BY <1>0, <1>3 DEF CreatePending, WinnerIsReady, RowFollowsCall
  <2>5. ObjectHasRow'
    BY <1>0, <1>3 DEF CreatePending, ObjectHasRow, RowFollowsCall
  <2>6. OrphanIsAbandoned'
    BY <1>0, <1>3 DEF CreatePending, OrphanIsAbandoned, RowFollowsCall
  <2>7. ReadyIsWhole'
    BY <1>0, <1>3 DEF CreatePending, ReadyIsWhole, RowFollowsCall
  <2>8. OneReady'
    BY <1>0, <1>3 DEF CreatePending, OneReady, RowFollowsCall
  <2>9. FailedIsOver'
    BY <1>0, <1>3 DEF CreatePending, FailedIsOver, RowFollowsCall
  <2> QED
    BY <2>1, <2>2, <2>3, <2>4, <2>5, <2>6, <2>7, <2>8, <2>9 DEF SnapshotInv
<1>4. ASSUME NEW i \in Storers, Recheck(i) PROVE (SnapshotInv /\ FailedIsOver)'
  <2>1. SnapTypeOK'
    BY <1>0, <1>4 DEF Recheck, MarkFailed
  <2>2. RowFollowsCall'
    BY <1>0, <1>4 DEF Recheck, MarkFailed, RowFollowsCall
  <2>3. UploadedKeysHold'
    BY <1>0, <1>4 DEF Recheck, MarkFailed, UploadedKeysHold, RowFollowsCall
  <2>4. WinnerIsReady'
    BY <1>0, <1>4 DEF Recheck, MarkFailed, WinnerIsReady, RowFollowsCall
  <2>5. ObjectHasRow'
    BY <1>0, <1>4 DEF Recheck, MarkFailed, ObjectHasRow, RowFollowsCall
  <2>6. OrphanIsAbandoned'
    BY <1>0, <1>4 DEF Recheck, MarkFailed, OrphanIsAbandoned, RowFollowsCall
  <2>7. ReadyIsWhole'
    BY <1>0, <1>4 DEF Recheck, MarkFailed, ReadyIsWhole, RowFollowsCall
  <2>8. OneReady'
    BY <1>0, <1>4 DEF Recheck, MarkFailed, OneReady, RowFollowsCall
  <2>9. FailedIsOver'
    BY <1>0, <1>4 DEF Recheck, MarkFailed, FailedIsOver, RowFollowsCall
  <2> QED
    BY <2>1, <2>2, <2>3, <2>4, <2>5, <2>6, <2>7, <2>8, <2>9 DEF SnapshotInv
<1>5. ASSUME NEW i \in Storers, PutPage(i) PROVE (SnapshotInv /\ FailedIsOver)'
  <2>1. SnapTypeOK'
    BY <1>0, <1>5 DEF PutPage
  <2>2. RowFollowsCall'
    BY <1>0, <1>5 DEF PutPage, RowFollowsCall
  <2>3. UploadedKeysHold'
    BY <1>0, <1>5 DEF PutPage, UploadedKeysHold, RowFollowsCall
  <2>4. WinnerIsReady'
    BY <1>0, <1>5 DEF PutPage, WinnerIsReady, RowFollowsCall
  <2>5. ObjectHasRow'
    BY <1>0, <1>5 DEF PutPage, ObjectHasRow, RowFollowsCall
  <2>6. OrphanIsAbandoned'
    BY <1>0, <1>5 DEF PutPage, OrphanIsAbandoned, RowFollowsCall
  <2>7. ReadyIsWhole'
    BY <1>0, <1>5 DEF PutPage, ReadyIsWhole, RowFollowsCall
  <2>8. OneReady'
    BY <1>0, <1>5 DEF PutPage, OneReady, RowFollowsCall
  <2>9. FailedIsOver'
    BY <1>0, <1>5 DEF PutPage, FailedIsOver, RowFollowsCall
  <2> QED
    BY <2>1, <2>2, <2>3, <2>4, <2>5, <2>6, <2>7, <2>8, <2>9 DEF SnapshotInv
<1>6. ASSUME NEW i \in Storers, AllPut(i) PROVE (SnapshotInv /\ FailedIsOver)'
  <2>1. SnapTypeOK'
    BY <1>0, <1>6 DEF AllPut
  <2>2. RowFollowsCall'
    BY <1>0, <1>6 DEF AllPut, RowFollowsCall
  <2>3. UploadedKeysHold'
    BY <1>0, <1>6 DEF AllPut, UploadedKeysHold, RowFollowsCall
  <2>4. WinnerIsReady'
    BY <1>0, <1>6 DEF AllPut, WinnerIsReady, RowFollowsCall
  <2>5. ObjectHasRow'
    BY <1>0, <1>6 DEF AllPut, ObjectHasRow, RowFollowsCall
  <2>6. OrphanIsAbandoned'
    BY <1>0, <1>6 DEF AllPut, OrphanIsAbandoned, RowFollowsCall
  <2>7. ReadyIsWhole'
    BY <1>0, <1>6 DEF AllPut, ReadyIsWhole, RowFollowsCall
  <2>8. OneReady'
    BY <1>0, <1>6 DEF AllPut, OneReady, RowFollowsCall
  <2>9. FailedIsOver'
    BY <1>0, <1>6 DEF AllPut, FailedIsOver, RowFollowsCall
  <2> QED
    BY <2>1, <2>2, <2>3, <2>4, <2>5, <2>6, <2>7, <2>8, <2>9 DEF SnapshotInv
<1>7. ASSUME NEW i \in Storers, LookForWinner(i, "look", "locked")
      PROVE  (SnapshotInv /\ FailedIsOver)'
  <2>1. SnapTypeOK'
    BY <1>0, <1>7 DEF LookForWinner, OtherReady
  <2>2. RowFollowsCall'
    BY <1>0, <1>7 DEF LookForWinner, OtherReady, RowFollowsCall
  <2>3. UploadedKeysHold'
    BY <1>0, <1>7 DEF LookForWinner, OtherReady, UploadedKeysHold, RowFollowsCall
  <2>4. WinnerIsReady'
    BY <1>0, <1>7 DEF LookForWinner, OtherReady, WinnerIsReady, RowFollowsCall
  <2>5. ObjectHasRow'
    BY <1>0, <1>7 DEF LookForWinner, OtherReady, ObjectHasRow, RowFollowsCall
  <2>6. OrphanIsAbandoned'
    BY <1>0, <1>7 DEF LookForWinner, OtherReady, OrphanIsAbandoned, RowFollowsCall
  <2>7. ReadyIsWhole'
    BY <1>0, <1>7 DEF LookForWinner, OtherReady, ReadyIsWhole, RowFollowsCall
  <2>8. OneReady'
    BY <1>0, <1>7 DEF LookForWinner, OtherReady, OneReady, RowFollowsCall
  <2>9. FailedIsOver'
    BY <1>0, <1>7 DEF LookForWinner, OtherReady, FailedIsOver, RowFollowsCall
  <2> QED
    BY <2>1, <2>2, <2>3, <2>4, <2>5, <2>6, <2>7, <2>8, <2>9 DEF SnapshotInv
<1>8. ASSUME NEW i \in Storers, LookForWinner(i, "locked", "save")
      PROVE  (SnapshotInv /\ FailedIsOver)'
  <2>1. SnapTypeOK'
    BY <1>0, <1>8 DEF LookForWinner, OtherReady
  <2>2. RowFollowsCall'
    BY <1>0, <1>8 DEF LookForWinner, OtherReady, RowFollowsCall
  <2>3. UploadedKeysHold'
    BY <1>0, <1>8 DEF LookForWinner, OtherReady, UploadedKeysHold, RowFollowsCall
  <2>4. WinnerIsReady'
    BY <1>0, <1>8 DEF LookForWinner, OtherReady, WinnerIsReady, RowFollowsCall
  <2>5. ObjectHasRow'
    BY <1>0, <1>8 DEF LookForWinner, OtherReady, ObjectHasRow, RowFollowsCall
  <2>6. OrphanIsAbandoned'
    BY <1>0, <1>8 DEF LookForWinner, OtherReady, OrphanIsAbandoned, RowFollowsCall
  <2>7. ReadyIsWhole'
    BY <1>0, <1>8 DEF LookForWinner, OtherReady, ReadyIsWhole, RowFollowsCall
  <2>8. OneReady'
    BY <1>0, <1>8 DEF LookForWinner, OtherReady, OneReady, RowFollowsCall
  <2>9. FailedIsOver'
    BY <1>0, <1>8 DEF LookForWinner, OtherReady, FailedIsOver, RowFollowsCall
  <2> QED
    BY <2>1, <2>2, <2>3, <2>4, <2>5, <2>6, <2>7, <2>8, <2>9 DEF SnapshotInv
<1>9. ASSUME NEW i \in Storers, SaveReady(i) PROVE (SnapshotInv /\ FailedIsOver)'
  <2>1. SnapTypeOK'
    BY <1>0, <1>9 DEF SaveReady, OtherReady, UniqueViolated
  <2>2. RowFollowsCall'
    BY <1>0, <1>9 DEF SaveReady, OtherReady, UniqueViolated, RowFollowsCall
  <2>3. UploadedKeysHold'
    BY <1>0, <1>9 DEF SaveReady, OtherReady, UniqueViolated, UploadedKeysHold, RowFollowsCall
  <2>4. WinnerIsReady'
    BY <1>0, <1>9 DEF SaveReady, OtherReady, UniqueViolated, WinnerIsReady, RowFollowsCall
  <2>5. ObjectHasRow'
    BY <1>0, <1>9 DEF SaveReady, OtherReady, UniqueViolated, ObjectHasRow, RowFollowsCall
  <2>6. OrphanIsAbandoned'
    BY <1>0, <1>9 DEF SaveReady, OtherReady, UniqueViolated, OrphanIsAbandoned, RowFollowsCall
  <2>7. ReadyIsWhole'
    BY <1>0, <1>9 DEF SaveReady, OtherReady, UniqueViolated, ReadyIsWhole, RowFollowsCall, UploadedKeysHold
  <2>8. OneReady'
    BY <1>0, <1>9 DEF SaveReady, OtherReady, UniqueViolated, OneReady, RowFollowsCall
  <2>9. FailedIsOver'
    BY <1>0, <1>9 DEF SaveReady, OtherReady, UniqueViolated, FailedIsOver, RowFollowsCall
  <2> QED
    BY <2>1, <2>2, <2>3, <2>4, <2>5, <2>6, <2>7, <2>8, <2>9 DEF SnapshotInv
<1>10. ASSUME NEW i \in Storers, DeleteKey(i) PROVE (SnapshotInv /\ FailedIsOver)'
  <2>1. SnapTypeOK'
    BY <1>0, <1>10 DEF DeleteKey
  <2>2. RowFollowsCall'
    BY <1>0, <1>10 DEF DeleteKey, RowFollowsCall
  <2>3. UploadedKeysHold'
    BY <1>0, <1>10 DEF DeleteKey, UploadedKeysHold, RowFollowsCall
  <2>4. WinnerIsReady'
    BY <1>0, <1>10 DEF DeleteKey, WinnerIsReady, RowFollowsCall
  <2>5. ObjectHasRow'
    BY <1>0, <1>10 DEF DeleteKey, ObjectHasRow, RowFollowsCall
  <2>6. OrphanIsAbandoned'
    BY <1>0, <1>10 DEF DeleteKey, OrphanIsAbandoned, RowFollowsCall
  <2>7. ReadyIsWhole'
    BY <1>0, <1>10 DEF DeleteKey, ReadyIsWhole, RowFollowsCall
  <2>8. OneReady'
    BY <1>0, <1>10 DEF DeleteKey, OneReady, RowFollowsCall
  <2>9. FailedIsOver'
    BY <1>0, <1>10 DEF DeleteKey, FailedIsOver, RowFollowsCall
  <2> QED
    BY <2>1, <2>2, <2>3, <2>4, <2>5, <2>6, <2>7, <2>8, <2>9 DEF SnapshotInv
<1>11. ASSUME NEW i \in Storers, AllDeleted(i) PROVE (SnapshotInv /\ FailedIsOver)'
  <2>1. SnapTypeOK'
    BY <1>0, <1>11 DEF AllDeleted
  <2>2. RowFollowsCall'
    BY <1>0, <1>11 DEF AllDeleted, RowFollowsCall
  <2>3. UploadedKeysHold'
    BY <1>0, <1>11 DEF AllDeleted, UploadedKeysHold, RowFollowsCall
  <2>4. WinnerIsReady'
    BY <1>0, <1>11 DEF AllDeleted, WinnerIsReady, RowFollowsCall
  <2>5. ObjectHasRow'
    BY <1>0, <1>11 DEF AllDeleted, ObjectHasRow, RowFollowsCall
  <2>6. OrphanIsAbandoned'
    BY <1>0, <1>11 DEF AllDeleted, OrphanIsAbandoned, RowFollowsCall
  <2>7. ReadyIsWhole'
    BY <1>0, <1>11 DEF AllDeleted, ReadyIsWhole, RowFollowsCall
  <2>8. OneReady'
    BY <1>0, <1>11 DEF AllDeleted, OneReady, RowFollowsCall
  <2>9. FailedIsOver'
    BY <1>0, <1>11 DEF AllDeleted, FailedIsOver, RowFollowsCall
  <2> QED
    BY <2>1, <2>2, <2>3, <2>4, <2>5, <2>6, <2>7, <2>8, <2>9 DEF SnapshotInv
<1>12. ASSUME NEW i \in Storers, MarkAndEnd(i) PROVE (SnapshotInv /\ FailedIsOver)'
  <2>1. SnapTypeOK'
    BY <1>0, <1>12 DEF MarkAndEnd, MarkFailed
  <2>2. RowFollowsCall'
    BY <1>0, <1>12 DEF MarkAndEnd, MarkFailed, RowFollowsCall
  <2>3. UploadedKeysHold'
    BY <1>0, <1>12 DEF MarkAndEnd, MarkFailed, UploadedKeysHold, RowFollowsCall
  <2>4. WinnerIsReady'
    BY <1>0, <1>12 DEF MarkAndEnd, MarkFailed, WinnerIsReady, RowFollowsCall
  <2>5. ObjectHasRow'
    BY <1>0, <1>12 DEF MarkAndEnd, MarkFailed, ObjectHasRow, RowFollowsCall
  <2>6. OrphanIsAbandoned'
    BY <1>0, <1>12 DEF MarkAndEnd, MarkFailed, OrphanIsAbandoned, RowFollowsCall
  <2>7. ReadyIsWhole'
    BY <1>0, <1>12 DEF MarkAndEnd, MarkFailed, ReadyIsWhole, RowFollowsCall
  <2>8. OneReady'
    BY <1>0, <1>12 DEF MarkAndEnd, MarkFailed, OneReady, RowFollowsCall
  <2>9. FailedIsOver'
    BY <1>0, <1>12 DEF MarkAndEnd, MarkFailed, FailedIsOver, RowFollowsCall
  <2> QED
    BY <2>1, <2>2, <2>3, <2>4, <2>5, <2>6, <2>7, <2>8, <2>9 DEF SnapshotInv
<1>13. ASSUME NEW i \in Storers, StorerDies(i) PROVE (SnapshotInv /\ FailedIsOver)'
  <2>1. SnapTypeOK'
    BY <1>0, <1>13 DEF StorerDies
  <2>2. RowFollowsCall'
    BY <1>0, <1>13 DEF StorerDies, RowFollowsCall
  <2>3. UploadedKeysHold'
    BY <1>0, <1>13 DEF StorerDies, UploadedKeysHold, RowFollowsCall
  <2>4. WinnerIsReady'
    BY <1>0, <1>13 DEF StorerDies, WinnerIsReady, RowFollowsCall
  <2>5. ObjectHasRow'
    BY <1>0, <1>13 DEF StorerDies, ObjectHasRow, RowFollowsCall
  <2>6. OrphanIsAbandoned'
    BY <1>0, <1>13 DEF StorerDies, OrphanIsAbandoned, RowFollowsCall
  <2>7. ReadyIsWhole'
    BY <1>0, <1>13 DEF StorerDies, ReadyIsWhole, RowFollowsCall
  <2>8. OneReady'
    BY <1>0, <1>13 DEF StorerDies, OneReady, RowFollowsCall
  <2>9. FailedIsOver'
    BY <1>0, <1>13 DEF StorerDies, FailedIsOver, RowFollowsCall
  <2> QED
    BY <2>1, <2>2, <2>3, <2>4, <2>5, <2>6, <2>7, <2>8, <2>9 DEF SnapshotInv
<1>14. ASSUME NEW i \in Storers, RowAges(i) PROVE (SnapshotInv /\ FailedIsOver)'
  <2>1. SnapTypeOK'
    BY <1>0, <1>14 DEF RowAges
  <2>2. RowFollowsCall'
    BY <1>0, <1>14 DEF RowAges, RowFollowsCall
  <2>3. UploadedKeysHold'
    BY <1>0, <1>14 DEF RowAges, UploadedKeysHold, RowFollowsCall
  <2>4. WinnerIsReady'
    BY <1>0, <1>14 DEF RowAges, WinnerIsReady, RowFollowsCall
  <2>5. ObjectHasRow'
    BY <1>0, <1>14 DEF RowAges, ObjectHasRow, RowFollowsCall
  <2>6. OrphanIsAbandoned'
    BY <1>0, <1>14 DEF RowAges, OrphanIsAbandoned, RowFollowsCall
  <2>7. ReadyIsWhole'
    BY <1>0, <1>14 DEF RowAges, ReadyIsWhole, RowFollowsCall
  <2>8. OneReady'
    BY <1>0, <1>14 DEF RowAges, OneReady, RowFollowsCall
  <2>9. FailedIsOver'
    BY <1>0, <1>14 DEF RowAges, FailedIsOver, RowFollowsCall
  <2> QED
    BY <2>1, <2>2, <2>3, <2>4, <2>5, <2>6, <2>7, <2>8, <2>9 DEF SnapshotInv
<1>15. ASSUME NEW k \in SnapKeys, ObjectAges(k) PROVE (SnapshotInv /\ FailedIsOver)'
  <2>1. SnapTypeOK'
    BY <1>0, <1>15 DEF ObjectAges
  <2>2. RowFollowsCall'
    BY <1>0, <1>15 DEF ObjectAges, RowFollowsCall
  <2>3. UploadedKeysHold'
    BY <1>0, <1>15 DEF ObjectAges, UploadedKeysHold, RowFollowsCall
  <2>4. WinnerIsReady'
    BY <1>0, <1>15 DEF ObjectAges, WinnerIsReady, RowFollowsCall
  <2>5. ObjectHasRow'
    BY <1>0, <1>15 DEF ObjectAges, ObjectHasRow, RowFollowsCall
  <2>6. OrphanIsAbandoned'
    BY <1>0, <1>15 DEF ObjectAges, OrphanIsAbandoned, RowFollowsCall
  <2>7. ReadyIsWhole'
    BY <1>0, <1>15 DEF ObjectAges, ReadyIsWhole, RowFollowsCall
  <2>8. OneReady'
    BY <1>0, <1>15 DEF ObjectAges, OneReady, RowFollowsCall
  <2>9. FailedIsOver'
    BY <1>0, <1>15 DEF ObjectAges, FailedIsOver, RowFollowsCall
  <2> QED
    BY <2>1, <2>2, <2>3, <2>4, <2>5, <2>6, <2>7, <2>8, <2>9 DEF SnapshotInv
<1>16. ASSUME NEW k \in SnapKeys, ApplyReport(k)
      PROVE  (SnapshotInv /\ FailedIsOver)'
  <2>1. SnapTypeOK'
    BY <1>0, <1>16 DEF ApplyReport
  <2>2. RowFollowsCall'
    BY <1>0, <1>16 DEF ApplyReport, RowFollowsCall
  <2>3. UploadedKeysHold'
    BY <1>0, <1>16 DEF ApplyReport, UploadedKeysHold, RowFollowsCall, OrphanIsAbandoned
  <2>4. WinnerIsReady'
    BY <1>0, <1>16 DEF ApplyReport, WinnerIsReady, RowFollowsCall
  <2>5. ObjectHasRow'
    BY <1>0, <1>16 DEF ApplyReport, ObjectHasRow, RowFollowsCall
  <2>6. OrphanIsAbandoned'
    BY <1>0, <1>16 DEF ApplyReport, OrphanIsAbandoned, RowFollowsCall
  <2>7. ReadyIsWhole'
    BY <1>0, <1>16 DEF ApplyReport, ReadyIsWhole, RowFollowsCall, OrphanIsAbandoned
  <2>8. OneReady'
    BY <1>0, <1>16 DEF ApplyReport, OneReady, RowFollowsCall
  <2>9. FailedIsOver'
    BY <1>0, <1>16 DEF ApplyReport, FailedIsOver, RowFollowsCall
  <2> QED
    BY <2>1, <2>2, <2>3, <2>4, <2>5, <2>6, <2>7, <2>8, <2>9 DEF SnapshotInv
<1>17. CASE BuildReport
  <2>1. SnapTypeOK'
    BY <1>0, <1>17 DEF BuildReport, ReferencedKeys
  <2>2. RowFollowsCall'
    BY <1>0, <1>17 DEF BuildReport, ReferencedKeys, RowFollowsCall
  <2>3. UploadedKeysHold'
    BY <1>0, <1>17 DEF BuildReport, ReferencedKeys, UploadedKeysHold, RowFollowsCall
  <2>4. WinnerIsReady'
    BY <1>0, <1>17 DEF BuildReport, ReferencedKeys, WinnerIsReady, RowFollowsCall
  <2>5. ObjectHasRow'
    BY <1>0, <1>17 DEF BuildReport, ReferencedKeys, ObjectHasRow, RowFollowsCall
  <2>6. OrphanIsAbandoned'
    BY <1>0, <1>17 DEF BuildReport, ReferencedKeys, OrphanIsAbandoned, RowFollowsCall, ObjectHasRow, FailedIsOver
  <2>7. ReadyIsWhole'
    BY <1>0, <1>17 DEF BuildReport, ReferencedKeys, ReadyIsWhole, RowFollowsCall
  <2>8. OneReady'
    BY <1>0, <1>17 DEF BuildReport, ReferencedKeys, OneReady, RowFollowsCall
  <2>9. FailedIsOver'
    BY <1>0, <1>17 DEF BuildReport, ReferencedKeys, FailedIsOver, RowFollowsCall
  <2> QED
    BY <2>1, <2>2, <2>3, <2>4, <2>5, <2>6, <2>7, <2>8, <2>9 DEF SnapshotInv
<1> QED
  BY <1>1, <1>2, <1>3, <1>4, <1>5, <1>6, <1>7, <1>8, <1>9,
     <1>10, <1>11, <1>12, <1>13, <1>14, <1>15, <1>16, <1>17 DEF Next_Snapshot, StorerStep

(* The invariant holds in every behaviour, however many calls store the    *)
(* transcript and however many pages it has.                               *)
THEOREM SnapshotInvariant == Spec_Snapshot => [](SnapshotInv /\ FailedIsOver)
  BY SnapshotInit, SnapshotStep, PTL DEF Spec_Snapshot

(* Rows, calls and keys keep their shapes. *)
THEOREM SnapshotTyped == Spec_Snapshot => []SnapTypeOK
<1>1. SnapshotInv => SnapTypeOK
  BY DEF SnapshotInv
<1> QED
  BY <1>1, SnapshotInvariant, PTL

(* A READY snapshot is the only one, keeps the objects of all its pages    *)
(* under losers' undoing, deaths and the orphan clean-up, and is what      *)
(* every successful call returns.                                          *)
THEOREM SnapshotIsWhole == Spec_Snapshot => []ReadySnapshotIsWhole
<1>1. SnapshotInv => ReadySnapshotIsWhole
  BY DEF SnapshotInv, ReadySnapshotIsWhole, ReadyIsWhole, OneReady,
         WinnerIsReady, ReadySnapshots, SnapTypeOK, IsAt
<1> QED
  BY <1>1, SnapshotInvariant, PTL

(* Of a row that exists only the row of a call that is to upload, undo or  *)
(* mark is written: READY and FAILED rows stay.                            *)
LEMMA ReadyStays ==
  ASSUME SnapshotInv, [Next_Snapshot]_sVars, NEW r \in Storers, snapRow[r] = "READY"
  PROVE  snapRow'[r] = "READY"
<1> USE DEF SnapshotInv, SnapTypeOK
<1>1. ASSUME NEW i \in Storers, CreatePending(i)
      PROVE  snapRow'[r] = "READY"
  <2>1. i # r
    BY <1>1 DEF CreatePending, RowFollowsCall, IsAt
  <2> QED  BY <1>1, <2>1 DEF CreatePending
<1>2. ASSUME NEW i \in Storers, MarkFailed(i)
      PROVE  snapRow'[r] = "READY"
  BY <1>2 DEF MarkFailed
<1>3. ASSUME NEW i \in Storers, SaveReady(i)
      PROVE  snapRow'[r] = "READY"
  BY <1>3 DEF SaveReady
<1>4. ASSUME NEW i \in Storers, StorerStep(i)
      PROVE  UNCHANGED snapRow \/ CreatePending(i) \/ MarkFailed(i) \/ SaveReady(i)
  BY <1>4
  DEF StorerStep, FindExisting, Recheck, PutPage, AllPut, LookForWinner, DeleteKey,
      AllDeleted, MarkAndEnd, StorerDies, RowAges
<1>5. \/ UNCHANGED snapRow
      \/ \E i \in Storers : CreatePending(i) \/ MarkFailed(i) \/ SaveReady(i)
  BY <1>4 DEF Next_Snapshot, ObjectAges, ApplyReport, BuildReport, sVars
<1> QED
  BY <1>1, <1>2, <1>3, <1>5

(* A call that has returned, or raised, or died, takes no step any more.   *)
LEMMA EndedCallRests ==
  ASSUME SnapshotInv, [Next_Snapshot]_sVars, NEW i \in Storers, ~ Storing(i)
  PROVE  storer'[i] = storer[i]
<1> USE DEF SnapshotInv, SnapTypeOK
<1>1. ASSUME NEW j \in Storers, StorerStep(j), storer' # storer
      PROVE  Storing(j) /\ \A k \in Storers \ {j} : storer'[k] = storer[k]
  <2>1. Storing(j)
    BY <1>1
    DEF StorerStep, FindExisting, CreatePending, Recheck, PutPage, AllPut, LookForWinner,
        SaveReady, DeleteKey, AllDeleted, MarkAndEnd, StorerDies, RowAges, IsAt, Storing,
        StorerSteps
  <2>2. \A k \in Storers \ {j} : storer'[k] = storer[k]
    BY <1>1
    DEF StorerStep, FindExisting, CreatePending, Recheck, PutPage, AllPut, LookForWinner,
        SaveReady, DeleteKey, AllDeleted, MarkAndEnd, StorerDies, RowAges, StorerGoes,
        StorerTakes
  <2> QED  BY <2>1, <2>2
<1>2. UNCHANGED storer \/ \E j \in Storers : StorerStep(j)
  BY DEF Next_Snapshot, ObjectAges, ApplyReport, BuildReport, sVars
<1> QED
  BY <1>1, <1>2

(* What a reader finds, by the invariant: every page in the READY snapshot *)
(* if there is one, and nothing otherwise.                                 *)
LEMMA ReadersFindTheReady ==
  ASSUME SnapshotInv
  PROVE  /\ \A r \in Storers :
              snapRow[r] = "READY" => ReadablePages = [p \in SnapPages |-> r]
         /\ ReadySnapshots = {} => ReadablePages = [p \in SnapPages |-> NoWinner]
<1>1. ASSUME NEW r \in Storers, snapRow[r] = "READY"
      PROVE  ReadablePages = [p \in SnapPages |-> r]
  <2>1. \A p \in SnapPages : ReadableFrom(p) = {r}
    BY <1>1 DEF SnapshotInv, OneReady, ReadyIsWhole, ReadableFrom, ReadySnapshots
  <2> QED  BY <2>1 DEF ReadablePages
<1>2. ReadySnapshots = {} => \A p \in SnapPages : ReadableFrom(p) = {}
  BY DEF ReadableFrom
<1> QED
  BY <1>1, <1>2 DEF ReadablePages

(* Rows and objects have no common transaction, and still the pages of a   *)
(* transcript become readable together, from one snapshot, for good; every *)
(* call that returns hands out that one                                    *)
(* (store_transkribus_transcript_snapshot).                                *)
THEOREM SnapshotImplementsWriteOnce ==
  Spec_Snapshot => SnapshotStore!Spec /\ SnapshotIsWrittenOnce
<1> DEFINE AllReadable == \A p \in SnapPages : ReadablePages[p] # NoWinner
<1>1. Init_Snapshot => SnapshotStore!Init
  <2> SUFFICES ASSUME Init_Snapshot PROVE SnapshotStore!Init
    OBVIOUS
  <2>1. ReadySnapshots = {}
    BY DEF Init_Snapshot, ReadySnapshots
  <2>2. ReadablePages = [p \in SnapPages |-> NoWinner]
    BY <2>1, SnapshotInit, ReadersFindTheReady
  <2>3. \A i \in Storers : HandedOut(i) = <<>>
    BY DEF Init_Snapshot, HandedOut, IsAt
  <2> QED
    BY <2>2, <2>3 DEF SnapshotStore!Init
<1>2. ASSUME SnapshotInv, NEW i \in Storers, IsAt(i, "returned")
      PROVE  /\ storer[i].winner \in ReadySnapshots
             /\ HandedOut(i) = ReadablePages /\ AllReadable
  <2>1. storer[i].winner \in Storers /\ snapRow[storer[i].winner] = "READY"
    BY <1>2 DEF SnapshotInv, SnapTypeOK, WinnerIsReady
  <2>2. ReadablePages = [p \in SnapPages |-> storer[i].winner]
    BY <1>2, <2>1, ReadersFindTheReady
  <2> QED
    BY <1>2, <2>1, <2>2, NoWinnerIsNoStorer DEF HandedOut, ReadySnapshots
<1> DEFINE
      Agreed == \A i \in Storers : IsAt(i, "returned") => HandedOut(i) = ReadablePages /\ AllReadable
      Stored == \A r \in Storers : snapRow[r] = "READY" => ReadablePages = [p \in SnapPages |-> r]
<1>3. SnapshotInv => Agreed
  BY <1>2
<1>4. SnapshotInv => Stored
  BY ReadersFindTheReady
<1>p. SnapshotInv' => Agreed' /\ Stored'
  <2> HIDE DEF Agreed, Stored
  <2> QED  BY <1>3, <1>4, PTL
<1>5. ASSUME SnapshotInv, SnapshotInv', [Next_Snapshot]_sVars
      PROVE  SnapshotStore!Next
  <2>1. ASSUME NEW r \in Storers, snapRow[r] = "READY"
        PROVE  ReadablePages' = ReadablePages
    <3>1. snapRow'[r] = "READY"
      BY <1>5, <2>1, ReadyStays
    <3> QED  BY <1>p, <1>5, <2>1, <3>1, ReadersFindTheReady
  <2>2. \A p \in SnapPages :
          ReadablePages[p] # NoWinner => ReadablePages'[p] = ReadablePages[p]
    BY <1>5, <2>1, ReadersFindTheReady DEF ReadySnapshots
  <2>3. ASSUME NEW i \in Storers
        PROVE  \/ HandedOut(i)' = HandedOut(i)
               \/ HandedOut(i) = <<>> /\ AllReadable' /\ HandedOut(i)' = ReadablePages'
    <3>1. CASE IsAt(i, "returned")
      <4>1. ~ Storing(i)
        BY <3>1 DEF IsAt, Storing, StorerSteps
      <4>2. storer'[i] = storer[i]
        BY <1>5, <4>1, EndedCallRests
      <4> QED  BY <4>2 DEF HandedOut, IsAt
    <3>2. CASE ~IsAt(i, "returned") /\ IsAt(i, "returned")'
      BY <1>p, <1>5, <3>2 DEF HandedOut
    <3>3. CASE ~IsAt(i, "returned") /\ ~IsAt(i, "returned")'
      BY <3>3 DEF HandedOut
    <3> QED  BY <3>1, <3>2, <3>3
  <2>4. SnapshotStore!Write
    BY <2>2 DEF SnapshotStore!Write, ReadablePages
  <2>5. SnapshotStore!Answer
    BY <2>3 DEF SnapshotStore!Answer, SnapshotStore!Whole, SnapshotStore!Contents, ReadablePages
  <2> QED
    BY <2>4, <2>5 DEF SnapshotStore!Next
<1> QED
  BY <1>1, <1>5, SnapshotInvariant, PTL
  DEF Spec_Snapshot, SnapshotIsWrittenOnce, SnapshotStore!Spec

(* What WriteOnce promises a reader: every call that has returned handed   *)
(* out the same snapshot, and it is the one that is readable page by page. *)
THEOREM SnapshotAnswersAgree == Spec_Snapshot => []SnapshotStore!AnswersAgree
<1> DEFINE Whole == \A p \in SnapPages : ReadablePages[p] # NoWinner
           Answers == [i \in Storers |-> HandedOut(i)]
<1>0. SnapshotStore!Contents = ReadablePages /\ (SnapshotStore!Contents)' = ReadablePages'
  BY DEF SnapshotStore!Contents, ReadablePages
<1>1. SnapshotStore!Init => SnapshotStore!AnswersAgree
  BY DEF SnapshotStore!Init, SnapshotStore!AnswersAgree
<1>2. ASSUME SnapshotStore!AnswersAgree, SnapshotStore!Next
      PROVE  SnapshotStore!AnswersAgree'
  <2> SUFFICES ASSUME NEW i \in Storers, Answers'[i] # <<>>
               PROVE  Whole' /\ Answers'[i] = ReadablePages'
    BY <1>0 DEF SnapshotStore!AnswersAgree, SnapshotStore!Whole
  <2>1. \/ Answers'[i] = Answers[i]
        \/ Whole' /\ Answers'[i] = ReadablePages'
    BY <1>0, <1>2 DEF SnapshotStore!Next, SnapshotStore!Answer, SnapshotStore!Whole
  <2>2. CASE Answers'[i] = Answers[i]
    <3>1. Whole /\ Answers[i] = ReadablePages
      BY <1>0, <1>2, <2>2 DEF SnapshotStore!AnswersAgree, SnapshotStore!Whole
    <3>2. \A p \in SnapPages : ReadablePages'[p] = ReadablePages[p]
      BY <1>2, <3>1 DEF SnapshotStore!Next, SnapshotStore!Write
    <3>3. ReadablePages' = ReadablePages
      BY <3>2 DEF ReadablePages
    <3> QED  BY <2>2, <3>1, <3>3
  <2> QED  BY <2>1, <2>2
<1>3. SnapshotStore!AnswersAgree /\ UNCHANGED <<ReadablePages, Answers>>
      => SnapshotStore!AnswersAgree'
  BY <1>0 DEF SnapshotStore!AnswersAgree, SnapshotStore!Whole
<1> QED
  BY <1>1, <1>2, <1>3, SnapshotImplementsWriteOnce, PTL
  DEF SnapshotStore!Spec

------------------------------------------------------------------------------
(* Source files of an upload                                               *)

(* The rows that recognition may read, and the pages: the file of a        *)
(* document that was uploaded as one has no row until a page is added.     *)
OcrRows == {k \in Rows : uSlot[k].ocr}
OcrPages == {0} \cup OcrRows

(* What waits for a primary file: recognition, display-only pages.         *)
NothingBeforeTheKey ==
  /\ uDoc.up = "UPLOADED" => uDoc.key
  /\ ~ uDoc.key => /\ uIdentity = {} /\ ~ uDoc.busy
                   /\ \A t \in SourceTabs : uTab[t].part

(* A draft has the rows of its parts without a gap.                        *)
DraftHasNoGap ==
  uDoc.expected = 0 /\ ~ uDoc.key =>
    \A k \in Rows : uSlot[k].ocr /\ \A j \in Slots : j < k => j \in Rows

(* A tab that is about to add a part chose the slot after the parts; that  *)
(* slot is committed only if another tab took it.                          *)
AddingIsNext(t) ==
  uTab[t].at = "adding" =>
    /\ \A j \in Slots : j < uTab[t].slot => j \in OcrRows
    /\ uTab[t].slot < Committed => uTab[t].slot \in Rows

(* The slot of a tab with a display-only page lies where the committed     *)
(* pages end, but for display-only pages; a part still to be added is not  *)
(* before it, unless its slot is committed.                                *)
DisplayIsLast(t) ==
  ~ uTab[t].part =>
    /\ uTab[t].slot >= 1
    /\ \A j \in OcrPages : j < uTab[t].slot <=> j < Committed
    /\ \A u \in SourceTabs : uTab[u].at = "adding" =>
         /\ uTab[u].slot <= uTab[t].slot
         /\ uTab[u].slot < uTab[t].slot => uTab[u].slot < Committed

(* The parts a finalize counted are still there when it saves the count.   *)
FinalIsTrue ==
  /\ uFinal.at = "counted" =>
       /\ uDoc.expected = 0 /\ ~ uDoc.key /\ uFinal.count >= 1
       /\ \A j \in Slots : j < uFinal.count => j \in OcrRows
  /\ uFinal.at = "committing" => uDoc.expected >= 1

IdentityIsCommitted ==
  uIdentity # {} => uIdentity = {j \in OcrPages : j < Committed}

SourcesHold ==
  /\ NothingBeforeTheKey /\ DraftHasNoGap
  /\ \A t \in SourceTabs : AddingIsNext(t)
  /\ \A t \in SourceTabs : DisplayIsLast(t)
  /\ FinalIsTrue /\ IdentityIsCommitted

(* The inductive invariant; a deleted document owes nothing.               *)
SourceInvariant ==
  /\ SourceTypeOK /\ uSlot[0].ocr
  /\ \A t \in SourceTabs : uTab[t].at \in {"idle", "adding"} => uTab[t].part
  /\ uDoc.up # "DELETED" => SourcesHold

DocRecord ==
  [up : {"UPLOADING", "UPLOADED", "FAILED", "DELETED"}, expected : 0 .. SourceMaxFiles,
   key : BOOLEAN, busy : BOOLEAN, stale : BOOLEAN]
SlotRecord ==
  [status : {"NONE", "PENDING", "UPLOADED", "FAILED"}, ocr : BOOLEAN,
   row : 0 .. SourceRowBound, stale : BOOLEAN]
TabRecord ==
  [at : {"idle", "adding", "granted", "put", "completing", "failing"},
   slot : Slots, row : 0 .. SourceRowBound, part : BOOLEAN]
FinalRecord ==
  [at : {"idle", "counted", "committing"}, count : 0 .. SourceMaxFiles, first : BOOLEAN]
SweepRecord == [at : {"idle", "listed", "deleting"}, keys : SUBSET Slots]

LEMMA SourceTypes ==
  /\ SourceTypeOK =>
       /\ uDoc \in DocRecord /\ uSlot \in [Slots -> SlotRecord]
       /\ uFile \in [Slots -> SourceTabs \cup {NoFile}]
       /\ uTab \in [SourceTabs -> TabRecord] /\ uFinal \in FinalRecord
       /\ uSweep \in SweepRecord /\ uIdentity \subseteq Slots
  /\ NoSlot \in SlotRecord /\ NoSlot.status = "NONE" /\ NoSlot.ocr
  /\ IdleTab \in TabRecord /\ IdleTab.at = "idle" /\ IdleTab.part
  /\ IdleFinal \in FinalRecord /\ IdleFinal.at = "idle"
  /\ IdleSweep \in SweepRecord
  /\ SourceMaxFiles \in Nat /\ SourceMaxFiles >= 2 /\ 0 \in Slots
BY SourceAssumption
DEF SourceTypeOK, DocRecord, SlotRecord, TabRecord, FinalRecord, SweepRecord, NoSlot, IdleTab,
    IdleFinal, IdleSweep, Slots

LEMMA SourceTypedParts ==
  ASSUME uDoc' \in DocRecord, uSlot' \in [Slots -> SlotRecord],
         uFile' \in [Slots -> SourceTabs \cup {NoFile}],
         uTab' \in [SourceTabs -> TabRecord], uFinal' \in FinalRecord,
         uSweep' \in SweepRecord, uIdentity' \subseteq Slots
  PROVE  SourceTypeOK'
BY DEF SourceTypeOK, DocRecord, SlotRecord, TabRecord, FinalRecord, SweepRecord

(* Steps that leave the rows there are, the counts and the slots of the    *)
(* tabs alone.                                                             *)
RowsStay ==
  \A j \in Slots : /\ uSlot'[j].status = "NONE" <=> uSlot[j].status = "NONE"
                   /\ uSlot'[j].ocr = uSlot[j].ocr
DocStays ==
  /\ uDoc'.expected = uDoc.expected /\ uDoc'.key = uDoc.key
  /\ uDoc'.up = "UPLOADED" => uDoc.up = "UPLOADED"
  /\ uDoc.up = "DELETED" => uDoc'.up = "DELETED"
  /\ uDoc'.busy => uDoc.busy \/ uDoc.up = "UPLOADED"
TabStays(t) ==
  /\ uTab'[t].at = "adding" => uTab[t].at = "adding" /\ uTab'[t].slot = uTab[t].slot
  /\ ~ uTab'[t].part => ~ uTab[t].part /\ uTab'[t].slot = uTab[t].slot
  /\ uTab'[t].at \in {"idle", "adding"} => uTab'[t].part
TabsStay == \A t \in SourceTabs : TabStays(t)
FinalStays == uFinal' = uFinal \/ uFinal'.at = "idle"

LEMMA SameRows ==
  ASSUME RowsStay
  PROVE  /\ \A j \in Slots : (j \in Rows)' <=> j \in Rows
         /\ \A j \in Slots : (j \in OcrRows)' <=> j \in OcrRows
         /\ Rows' = Rows /\ OcrRows' = OcrRows /\ OcrPages' = OcrPages
BY DEF RowsStay, Rows, OcrRows, OcrPages

LEMMA SameCount ==
  ASSUME uDoc'.expected = uDoc.expected, uDoc'.key = uDoc.key
  PROVE  Committed' = Committed
BY DEF Committed

LEMMA CountTyped ==
  ASSUME SourceTypeOK
  PROVE  Committed \in 0 .. SourceMaxFiles
BY SourceTypes DEF Committed, DocRecord

LEMMA QuietStepKeepsInvariant ==
  ASSUME SourceInvariant, SourceTypeOK', RowsStay, DocStays, TabsStay, FinalStays,
         uIdentity' = uIdentity
  PROVE  SourceInvariant'
<1>1. /\ Rows' = Rows /\ OcrRows' = OcrRows /\ OcrPages' = OcrPages /\ Committed' = Committed
  BY SameRows, SameCount DEF DocStays
<1>2. uSlot'[0].ocr
  BY SourceTypes DEF SourceInvariant, RowsStay
<1>3. \A t \in SourceTabs : uTab'[t].at \in {"idle", "adding"} => uTab'[t].part
  BY DEF TabsStay, TabStays
<1>4. ASSUME uDoc'.up # "DELETED" PROVE SourcesHold'
  <2>1. SourcesHold
    BY <1>4 DEF SourceInvariant, DocStays
  <2>2. NothingBeforeTheKey'
    BY <2>1 DEF SourcesHold, NothingBeforeTheKey, DocStays, TabsStay, TabStays
  <2>3. DraftHasNoGap'
    BY <1>1, <2>1 DEF SourcesHold, DraftHasNoGap, DocStays, RowsStay, Rows
  <2>4. \A t \in SourceTabs : AddingIsNext(t)'
    BY <1>1, <2>1 DEF SourcesHold, AddingIsNext, TabsStay, TabStays
  <2>5. \A t \in SourceTabs : DisplayIsLast(t)'
    BY <1>1, <2>1 DEF SourcesHold, DisplayIsLast, TabsStay, TabStays
  <2>6. FinalIsTrue'
    BY <1>1, <2>1 DEF SourcesHold, FinalIsTrue, FinalStays, DocStays
  <2>7. IdentityIsCommitted'
    BY <1>1, <2>1 DEF SourcesHold, IdentityIsCommitted
  <2> QED  BY <2>2, <2>3, <2>4, <2>5, <2>6, <2>7 DEF SourcesHold
<1> QED  BY <1>2, <1>3, <1>4 DEF SourceInvariant

(* What the updates of one slot, one tab and the document do.              *)
LEMMA SlotUpdates ==
  ASSUME SourceTypeOK, NEW k \in Slots, NEW rec \in SlotRecord,
         uSlot' = [uSlot EXCEPT ![k] = rec]
  PROVE  /\ uSlot' \in [Slots -> SlotRecord] /\ uSlot'[k] = rec
         /\ \A j \in Slots \ {k} : uSlot'[j] = uSlot[j]
BY SourceTypes

LEMMA StatusMoves ==
  ASSUME SourceTypeOK, NEW k \in Slots, NEW status \in {"PENDING", "UPLOADED", "FAILED"},
         SetStatus(k, status), k \in Rows
  PROVE  uSlot' \in [Slots -> SlotRecord] /\ RowsStay
<1> DEFINE rec == [uSlot[k] EXCEPT !.status = status, !.stale = FALSE]
<1>1. uSlot[k] \in SlotRecord /\ uSlot[k].status # "NONE"
  BY SourceTypes DEF Rows
<1>2. rec \in SlotRecord /\ rec.ocr = uSlot[k].ocr /\ rec.status # "NONE"
  BY <1>1 DEF SlotRecord
<1>3. uSlot' = [uSlot EXCEPT ![k] = rec]
  BY SourceTypes, <1>1 DEF SetStatus
<1> HIDE DEF rec
<1> QED  BY <1>1, <1>2, <1>3, SlotUpdates DEF RowsStay

LEMMA StatusSaves ==
  ASSUME SourceTypeOK, NEW k \in Slots, NEW status \in {"PENDING", "UPLOADED", "FAILED"},
         SaveStatus(k, status)
  PROVE  uSlot' \in [Slots -> SlotRecord] /\ RowsStay
BY StatusMoves, SourceTypes DEF SaveStatus, RowsStay

LEMMA TabUpdates ==
  ASSUME SourceInvariant, NEW t \in SourceTabs, NEW rec \in TabRecord,
         uTab' = [uTab EXCEPT ![t] = rec]
  PROVE  /\ uTab' \in [SourceTabs -> TabRecord] /\ uTab'[t] = rec
         /\ \A u \in SourceTabs \ {t} : uTab'[u] = uTab[u] /\ TabStays(u)
BY SourceTypes DEF SourceInvariant, TabStays

LEMMA TabMoves ==
  ASSUME SourceInvariant, NEW t \in SourceTabs,
         NEW at \in {"granted", "put", "completing", "failing"}, TabGoes(t, at)
  PROVE  uTab' \in [SourceTabs -> TabRecord] /\ TabsStay
<1> DEFINE rec == [uTab[t] EXCEPT !.at = at]
<1>1. uTab[t] \in TabRecord
  BY SourceTypes DEF SourceInvariant
<1>2. rec \in TabRecord /\ rec.at = at /\ rec.slot = uTab[t].slot /\ rec.part = uTab[t].part
  BY <1>1 DEF TabRecord
<1>3. uTab' = [uTab EXCEPT ![t] = rec]
  BY SourceTypes DEF TabGoes, SourceInvariant
<1> HIDE DEF rec
<1> QED  BY <1>2, <1>3, TabUpdates DEF TabsStay, TabStays

LEMMA TabStops ==
  ASSUME SourceInvariant, NEW t \in SourceTabs, TabEnds(t)
  PROVE  uTab' \in [SourceTabs -> TabRecord] /\ TabsStay
BY TabUpdates, SourceTypes DEF TabEnds, TabsStay, TabStays

LEMMA UnchangedParts ==
  ASSUME SourceInvariant
  PROVE  /\ uTab' = uTab => uTab' \in [SourceTabs -> TabRecord] /\ TabsStay
         /\ uSlot' = uSlot => uSlot' \in [Slots -> SlotRecord] /\ RowsStay
         /\ uDoc' = uDoc => uDoc' \in DocRecord /\ DocStays
         /\ uFile' = uFile => uFile' \in [Slots -> SourceTabs \cup {NoFile}]
         /\ uFinal' = uFinal => uFinal' \in FinalRecord /\ FinalStays
         /\ uSweep' = uSweep => uSweep' \in SweepRecord
         /\ uIdentity' = uIdentity => uIdentity' \subseteq Slots
BY SourceTypes
DEF SourceInvariant, TabsStay, TabStays, RowsStay, DocStays, FinalStays

LEMMA Quiet ==
  ASSUME SourceInvariant, uTab' \in [SourceTabs -> TabRecord], TabsStay,
         uSlot' \in [Slots -> SlotRecord], RowsStay, uDoc' \in DocRecord, DocStays,
         uFinal' \in FinalRecord, FinalStays, uIdentity' = uIdentity,
         uFile' \in [Slots -> SourceTabs \cup {NoFile}], uSweep' \in SweepRecord
  PROVE  SourceInvariant'
BY UnchangedParts, SourceTypedParts, QuietStepKeepsInvariant

(* The steps that change statuses, files and program counters only.        *)
LEMMA QuietTabSteps ==
  ASSUME SourceInvariant, NEW t \in SourceTabs,
         \/ \E k \in Slots : TakePlannedPart(t, k)
         \/ PutFile(t) \/ LeaveTab(t) \/ CompletePartRead(t) \/ CompletePart(t)
         \/ FailPartRead(t) \/ FailPart(t) \/ CompleteDisplayOnlyRead(t)
         \/ FailDisplayOnly(t)
  PROVE  SourceInvariant'
<1>0. /\ uTab \in [SourceTabs -> TabRecord] /\ uTab[t] \in TabRecord /\ uTab[t].slot \in Slots
      /\ uSlot \in [Slots -> SlotRecord] /\ uDoc \in DocRecord /\ SourceTypeOK
      /\ uFile \in [Slots -> SourceTabs \cup {NoFile}]
      /\ uTab[t].at \in {"idle", "adding"} => uTab[t].part
  BY SourceTypes DEF SourceInvariant, TabRecord
<1>1. ASSUME NEW k \in Slots, TakePlannedPart(t, k) PROVE SourceInvariant'
  <2> DEFINE rec == [uTab[t] EXCEPT !.at = "granted", !.slot = k]
  <2>1. uTab[t].at = "idle" /\ uTab[t].part
    BY <1>0, <1>1 DEF TakePlannedPart, TabAt
  <2>2. rec \in TabRecord /\ rec.at = "granted" /\ rec.part
    BY <1>0, <2>1 DEF TabRecord
  <2>3. uTab' = [uTab EXCEPT ![t] = rec]
    BY <1>0, <1>1 DEF TakePlannedPart
  <2> HIDE DEF rec
  <2>4. uTab' \in [SourceTabs -> TabRecord] /\ TabsStay
    BY <2>2, <2>3, TabUpdates DEF TabsStay, TabStays
  <2> QED  BY <1>1, <2>4, UnchangedParts, Quiet DEF TakePlannedPart, JobsRest
<1>2. CASE PutFile(t)
  <2>1. uFile' \in [Slots -> SourceTabs \cup {NoFile}]
    BY <1>0, <1>2 DEF PutFile
  <2>2. uTab' \in [SourceTabs -> TabRecord] /\ TabsStay
    BY <1>2, TabMoves DEF PutFile
  <2> QED  BY <1>2, <2>1, <2>2, UnchangedParts, Quiet DEF PutFile, JobsRest
<1>3. CASE LeaveTab(t)
  BY <1>3, TabStops, UnchangedParts, Quiet DEF LeaveTab, JobsRest
<1>4. CASE CompletePartRead(t)
  <2>1. uTab' \in [SourceTabs -> TabRecord] /\ TabsStay
    BY <1>4, TabMoves DEF CompletePartRead
  <2> QED  BY <1>4, <2>1, UnchangedParts, Quiet DEF CompletePartRead, JobsRest
<1>5. CASE CompletePart(t)
  <2>1. uSlot' \in [Slots -> SlotRecord] /\ RowsStay
    BY <1>0, <1>5, StatusSaves DEF CompletePart, SlotOf
  <2> QED  BY <1>5, <2>1, TabStops, UnchangedParts, Quiet DEF CompletePart, JobsRest
<1>6. CASE FailPartRead(t)
  <2>1. uTab' \in [SourceTabs -> TabRecord] /\ TabsStay
    BY <1>6, TabMoves DEF FailPartRead
  <2> QED  BY <1>6, <2>1, UnchangedParts, Quiet DEF FailPartRead, JobsRest
<1>7. CASE FailPart(t)
  <2>1. uSlot' \in [Slots -> SlotRecord] /\ RowsStay
    BY <1>0, <1>7, StatusSaves, UnchangedParts DEF FailPart, SlotOf
  <2>2. uDoc' \in DocRecord /\ DocStays
    <3>1. CASE uDoc' = uDoc
      BY <3>1, UnchangedParts
    <3>2. CASE uDoc' = [uDoc EXCEPT !.up = "FAILED"] /\ uDoc.up # "DELETED"
      BY <1>0, <3>2 DEF DocRecord, DocStays
    <3> QED  BY <1>7, <3>1, <3>2 DEF FailPart
  <2> QED  BY <1>7, <2>1, <2>2, TabStops, UnchangedParts, Quiet DEF FailPart, JobsRest
<1>8. CASE CompleteDisplayOnlyRead(t)
  <2> DEFINE rec == [uTab[t] EXCEPT !.at = "completing", !.row = uSlot[uTab[t].slot].row]
  <2>1. uSlot[uTab[t].slot].row \in 0 .. SourceRowBound
    BY <1>0 DEF SlotRecord
  <2>2. /\ rec \in TabRecord /\ rec.at = "completing" /\ rec.part = uTab[t].part
        /\ rec.slot = uTab[t].slot
    BY <1>0, <2>1 DEF TabRecord
  <2>3. uTab' = [uTab EXCEPT ![t] = rec]
    BY <1>0, <1>8 DEF CompleteDisplayOnlyRead, SlotOf
  <2> HIDE DEF rec
  <2>4. uTab' \in [SourceTabs -> TabRecord] /\ TabsStay
    BY <2>2, <2>3, TabUpdates DEF TabsStay, TabStays
  <2> QED  BY <1>8, <2>4, UnchangedParts, Quiet DEF CompleteDisplayOnlyRead, JobsRest
<1>9. CASE FailDisplayOnly(t)
  <2>1. uSlot' \in [Slots -> SlotRecord] /\ RowsStay
    BY <1>0, <1>9, StatusMoves DEF FailDisplayOnly, SlotOf
  <2> QED  BY <1>9, <2>1, TabStops, UnchangedParts, Quiet DEF FailDisplayOnly, JobsRest
<1> QED  BY <1>1, <1>2, <1>3, <1>4, <1>5, <1>6, <1>7, <1>8, <1>9

LEMMA QuietJobSteps ==
  ASSUME SourceInvariant,
         \/ FinalizeFails \/ FinalizeStops \/ StartOcrRun
         \/ \E k \in Slots : SlotAges(k) \/ SweepObject(k)
         \/ DraftAges \/ ListDraft \/ SweepDraft
  PROVE  SourceInvariant'
<1>0. /\ uSlot \in [Slots -> SlotRecord] /\ uDoc \in DocRecord /\ SourceTypeOK
      /\ uFile \in [Slots -> SourceTabs \cup {NoFile}] /\ uSweep \in SweepRecord
  BY SourceTypes DEF SourceInvariant
<1>1. CASE FinalizeFails
  <2>1. uDoc' \in DocRecord /\ DocStays
    BY <1>0, <1>1 DEF FinalizeFails, DocRecord, DocStays
  <2> QED  BY <1>1, <2>1, UnchangedParts, Quiet DEF FinalizeFails, JobsRest
<1>2. CASE FinalizeStops
  <2>1. uFinal' \in FinalRecord /\ FinalStays
    BY <1>2, SourceTypes DEF FinalizeStops, FinalStays
  <2> QED  BY <1>2, <2>1, UnchangedParts, Quiet DEF FinalizeStops
<1>3. CASE StartOcrRun
  <2>1. uDoc' \in DocRecord /\ DocStays
    BY <1>0, <1>3 DEF StartOcrRun, DocRecord, DocStays
  <2> QED  BY <1>3, <2>1, UnchangedParts, Quiet DEF StartOcrRun, JobsRest
<1>4. ASSUME NEW k \in Slots, SlotAges(k) PROVE SourceInvariant'
  <2> DEFINE rec == [uSlot[k] EXCEPT !.stale = TRUE]
  <2>1. rec \in SlotRecord /\ rec.status = uSlot[k].status /\ rec.ocr = uSlot[k].ocr
    BY <1>0 DEF SlotRecord
  <2>2. uSlot' = [uSlot EXCEPT ![k] = rec]
    BY <1>0, <1>4 DEF SlotAges
  <2> HIDE DEF rec
  <2>3. uSlot' \in [Slots -> SlotRecord] /\ RowsStay
    BY <1>0, <2>1, <2>2, SlotUpdates DEF RowsStay
  <2> QED  BY <1>4, <2>3, UnchangedParts, Quiet DEF SlotAges, JobsRest
<1>5. ASSUME NEW k \in Slots, SweepObject(k) PROVE SourceInvariant'
  <2>1. uSweep' \in SweepRecord /\ uFile' \in [Slots -> SourceTabs \cup {NoFile}]
    BY <1>0, <1>5 DEF SweepObject, SweepRecord
  <2> QED  BY <1>5, <2>1, UnchangedParts, Quiet DEF SweepObject
<1>6. CASE DraftAges
  <2>1. uDoc' \in DocRecord /\ DocStays
    BY <1>0, <1>6 DEF DraftAges, DocRecord, DocStays
  <2> QED  BY <1>6, <2>1, UnchangedParts, Quiet DEF DraftAges, JobsRest
<1>7. CASE ListDraft
  <2>1. uSweep' \in SweepRecord
    BY <1>7, SourceTypes DEF ListDraft, SweepRecord, IdleSweep
  <2> QED  BY <1>7, <2>1, UnchangedParts, Quiet DEF ListDraft
<1>8. CASE SweepDraft
  <2>1. uSweep' \in SweepRecord
    BY <1>8, SourceTypes DEF SweepDraft, SweepRecord, Rows
  <2> QED  BY <1>8, <2>1, UnchangedParts, Quiet DEF SweepDraft
<1> QED  BY <1>1, <1>2, <1>3, <1>4, <1>5, <1>6, <1>7, <1>8

(* A nonempty set of slots has a last one: otherwise its upper bounds      *)
(* would have a pigeonhole.                                                *)
LEMMA LastElement ==
  ASSUME NEW N \in Nat, NEW T \in SUBSET (0..N), T # {}
  PROVE  \E t \in T : \A u \in T : t >= u
<1> SUFFICES ASSUME \A t \in T : \E u \in T : t < u
             PROVE  FALSE
  OBVIOUS
<1> DEFINE D == {n \in 0..(N + 1) : \A t \in T : t < n}
           s == [n \in D |-> n - 1]
<1>1. IsFiniteSet(D) /\ IsFiniteSet(D \ {N + 1})
  <2>1. IsFiniteSet(0..(N + 1))
    BY FS_Interval
  <2>2. D \in SUBSET (0..(N + 1)) /\ D \ {N + 1} \in SUBSET (0..(N + 1))
    OBVIOUS
  <2> HIDE DEF D
  <2> QED  BY <2>1, <2>2, FS_Subset
<1>2. N + 1 \in D
  OBVIOUS
<1>3. Cardinality(D \ {N + 1}) < Cardinality(D)
  <2>1. Cardinality(D \ {N + 1}) = Cardinality(D) - 1
    BY <1>1, <1>2, FS_RemoveElement
  <2>2. Cardinality(D) \in Nat
    BY <1>1, FS_CardinalityType
  <2> QED  BY <2>1, <2>2
<1>4. ASSUME NEW n \in D
      PROVE  n - 1 \in D \ {N + 1}
  <2>1. \A t \in T : t < n - 1
    <3> SUFFICES ASSUME NEW t \in T, ~(t < n - 1)
                 PROVE  FALSE
      OBVIOUS
    <3>1. t = n - 1
      OBVIOUS
    <3>2. PICK u \in T : t < u
      OBVIOUS
    <3>3. u < n
      OBVIOUS
    <3> QED  BY <3>1, <3>2, <3>3
  <2>2. PICK t \in T : TRUE
    OBVIOUS
  <2>3. 0 <= n - 1
    BY <2>1, <2>2
  <2> QED  BY <2>1, <2>3
<1>5. s \in [D -> D \ {N + 1}]
  BY <1>4
<1>6. \A m, n \in D : s[m] = s[n] => m = n
  OBVIOUS
<1> HIDE DEF D, s
<1>7. \E m, n \in D : m # n /\ s[m] = s[n]
  BY <1>1, <1>3, <1>5, FS_PigeonHole
<1> QED  BY <1>6, <1>7

LEMMA LastRow ==
  ASSUME Rows # {}
  PROVE  /\ Max(Rows) \in Rows /\ Max(Rows) \in Slots
         /\ \A k \in Rows : k <= Max(Rows)
<1>1. Rows \in SUBSET (0 .. SourceMaxFiles - 1) /\ SourceMaxFiles - 1 \in Nat
  BY SourceAssumption DEF Rows, Slots
<1>2. \E k \in Rows : \A j \in Rows : k >= j
  BY <1>1, LastElement
<1>3. Max(Rows) \in Rows /\ \A j \in Rows : Max(Rows) >= j
  BY <1>2 DEF Max
<1> QED  BY <1>1, <1>3 DEF Slots

(* The slot that a draft offers follows its parts.                         *)
LEMMA NextFollowsRows ==
  ASSUME SourceInvariant, IsDraft, NextIndex < SourceMaxFiles
  PROVE  /\ NextIndex \in Slots /\ ~ (NextIndex < Committed)
         /\ \A j \in Slots : j < NextIndex => j \in OcrRows
<1>1. DraftHasNoGap /\ uDoc.expected = 0 /\ ~ uDoc.key
  BY SourceTypes DEF SourceInvariant, SourcesHold, IsDraft
<1>2. Committed = 0
  BY <1>1 DEF Committed
<1>3. CASE Rows = {}
  BY <1>2, <1>3, SourceAssumption DEF NextIndex, Slots
<1>4. CASE Rows # {}
  <2>1. Max(Rows) \in Rows /\ Max(Rows) \in Slots
    BY <1>4, LastRow
  <2>2. NextIndex = Max(Rows) + 1
    BY <1>4 DEF NextIndex
  <2>3. \A j \in Slots : j < NextIndex => j \in Rows
    BY <1>1, <2>1, <2>2, SourceAssumption DEF DraftHasNoGap, Slots
  <2> QED  BY <1>1, <1>2, <2>1, <2>2, <2>3, SourceAssumption DEF DraftHasNoGap, OcrRows, Slots
<1> QED  BY <1>3, <1>4

LEMMA AddPartReadKeeps ==
  ASSUME SourceInvariant, NEW t \in SourceTabs, AddPartRead(t)
  PROVE  SourceInvariant'
<1> DEFINE rec == [uTab[t] EXCEPT !.at = "adding", !.slot = NextIndex]
<1>1. /\ uTab[t].at = "idle" /\ uTab[t].part /\ uTab[t] \in TabRecord
      /\ IsDraft /\ uDoc.up = "UPLOADING" /\ NextIndex < SourceMaxFiles
      /\ uDoc' = uDoc /\ uSlot' = uSlot /\ uFile' = uFile /\ uFinal' = uFinal
      /\ uSweep' = uSweep /\ uIdentity' = uIdentity
      /\ uTab' = [uTab EXCEPT ![t].at = "adding", ![t].slot = NextIndex]
  BY SourceTypes DEF AddPartRead, TabAt, JobsRest, SourceInvariant
<1>2. /\ NextIndex \in Slots /\ ~ (NextIndex < Committed)
      /\ \A j \in Slots : j < NextIndex => j \in OcrRows
  BY <1>1, NextFollowsRows
<1> HIDE DEF NextIndex
<1>3. rec \in TabRecord /\ rec.at = "adding" /\ rec.slot = NextIndex /\ rec.part
  BY <1>1, <1>2 DEF TabRecord
<1>4. uTab' = [uTab EXCEPT ![t] = rec]
  BY <1>1, SourceTypes DEF SourceInvariant
<1> HIDE DEF rec
<1>5. /\ uTab' \in [SourceTabs -> TabRecord] /\ uTab'[t] = rec
      /\ \A u \in SourceTabs \ {t} : uTab'[u] = uTab[u]
  BY <1>3, <1>4, TabUpdates
<1>6. SourceTypeOK'
  BY <1>1, <1>5, UnchangedParts, SourceTypedParts
<1>7. Rows' = Rows /\ OcrRows' = OcrRows /\ Committed' = Committed
  BY <1>1 DEF Rows, OcrRows, Committed
<1>8. SourcesHold /\ ~ uDoc.key
  BY <1>1 DEF SourceInvariant, IsDraft
<1>9. \A u \in SourceTabs : uTab'[u].part
  BY <1>3, <1>5, <1>8 DEF SourcesHold, NothingBeforeTheKey
<1>10. NothingBeforeTheKey' /\ DraftHasNoGap' /\ FinalIsTrue' /\ IdentityIsCommitted'
  BY <1>1, <1>7, <1>8, <1>9
  DEF SourcesHold, NothingBeforeTheKey, DraftHasNoGap, FinalIsTrue, IdentityIsCommitted, OcrPages
<1>11. \A u \in SourceTabs : AddingIsNext(u)' /\ DisplayIsLast(u)'
  BY <1>2, <1>3, <1>5, <1>7, <1>8, <1>9 DEF SourcesHold, AddingIsNext, DisplayIsLast
<1> QED  BY <1>1, <1>6, <1>9, <1>10, <1>11 DEF SourceInvariant, SourcesHold

(* A part that is added lies after the committed pages, and not before a   *)
(* display-only page that is under way.                                    *)
LEMMA AddPartKeeps ==
  ASSUME SourceInvariant, NEW t \in SourceTabs, AddPart(t)
  PROVE  SourceInvariant'
<1> DEFINE k == uTab[t].slot
           row == [status |-> "PENDING", ocr |-> TRUE, row |-> uSlot[k].row + 1,
                   stale |-> FALSE]
<1>1. /\ uTab[t].at = "adding" /\ uTab[t].part /\ k \in Slots /\ uTab[t] \in TabRecord
      /\ uSlot \in [Slots -> SlotRecord] /\ SourceTypeOK
      /\ uDoc' = uDoc /\ uFile' = uFile /\ uFinal' = uFinal
      /\ uSweep' = uSweep /\ uIdentity' = uIdentity
  BY SourceTypes DEF AddPart, TabAt, JobsRest, SourceInvariant, TabRecord
<1>2. CASE ~ (uDoc.up # "DELETED" /\ k \notin Rows)
  BY <1>1, <1>2, TabStops, UnchangedParts, Quiet DEF AddPart, SlotOf
<1>3. CASE uDoc.up # "DELETED" /\ k \notin Rows
  <2>1. /\ uSlot[k].row < SourceRowBound /\ TabGoes(t, "granted")
        /\ uSlot' = [uSlot EXCEPT ![k] = row]
    BY <1>1, <1>3 DEF AddPart, SlotOf, NewRow
  <2>2. row \in SlotRecord /\ row.ocr /\ row.status # "NONE"
    BY <1>1, <2>1, SourceAssumption DEF SlotRecord
  <2> HIDE DEF row, k
  <2>3. /\ uSlot' \in [Slots -> SlotRecord] /\ uSlot'[k] = row
        /\ \A j \in Slots \ {k} : uSlot'[j] = uSlot[j]
    BY <1>1, <2>1, <2>2, SlotUpdates
  <2>4. uTab' \in [SourceTabs -> TabRecord] /\ TabsStay
    BY <2>1, TabMoves
  <2>5. SourceTypeOK'
    BY <1>1, <2>3, <2>4, UnchangedParts, SourceTypedParts
  <2>6. /\ Rows' = Rows \cup {k} /\ OcrRows' = OcrRows \cup {k}
        /\ OcrPages' = OcrPages \cup {k} /\ Committed' = Committed
    BY <1>1, <2>2, <2>3 DEF Rows, OcrRows, OcrPages, Committed
  <2>7. SourcesHold /\ AddingIsNext(t)
    BY <1>3 DEF SourceInvariant, SourcesHold
  <2>8. (\A j \in Slots : j < k => j \in OcrRows) /\ ~ (k < Committed)
    BY <1>1, <1>3, <2>7 DEF AddingIsNext, k
  <2>9. uSlot'[0].ocr
    BY <2>2, <2>3, SourceTypes DEF SourceInvariant
  <2>10. \A u \in SourceTabs : uTab'[u].at \in {"idle", "adding"} => uTab'[u].part
    BY <2>4 DEF TabsStay, TabStays
  <2>11. NothingBeforeTheKey' /\ FinalIsTrue'
    BY <1>1, <2>4, <2>6, <2>7
    DEF SourcesHold, NothingBeforeTheKey, FinalIsTrue, TabsStay, TabStays
  <2>12. DraftHasNoGap'
    <3>1. \A j \in OcrRows : j \in Rows
      BY DEF OcrRows
    <3> QED  BY <1>1, <2>2, <2>3, <2>6, <2>7, <2>8, <3>1 DEF SourcesHold, DraftHasNoGap, Rows
  <2>13. \A u \in SourceTabs : AddingIsNext(u)'
    BY <2>4, <2>6, <2>7 DEF SourcesHold, AddingIsNext, TabsStay, TabStays
  <2>14. ASSUME NEW u \in SourceTabs PROVE DisplayIsLast(u)'
    <3> SUFFICES ASSUME ~ uTab'[u].part
                 PROVE  /\ uTab'[u].slot >= 1
                        /\ \A j \in OcrPages' : j < uTab'[u].slot <=> j < Committed'
                        /\ \A v \in SourceTabs : uTab'[v].at = "adding" =>
                             /\ uTab'[v].slot <= uTab'[u].slot
                             /\ uTab'[v].slot < uTab'[u].slot => uTab'[v].slot < Committed'
      BY DEF DisplayIsLast
    <3>1. ~ uTab[u].part /\ uTab'[u].slot = uTab[u].slot /\ DisplayIsLast(u)
      BY <2>4, <2>7 DEF SourcesHold, TabsStay, TabStays
    <3>2. ~ (k < uTab[u].slot)
      BY <1>1, <2>8, <3>1 DEF DisplayIsLast, k
    <3> QED  BY <2>4, <2>6, <2>8, <3>1, <3>2 DEF DisplayIsLast, TabsStay, TabStays
  <2>15. IdentityIsCommitted'
    BY <1>1, <2>6, <2>7, <2>8 DEF SourcesHold, IdentityIsCommitted
  <2> QED  BY <2>5, <2>9, <2>10, <2>11, <2>12, <2>13, <2>14, <2>15
           DEF SourceInvariant, SourcesHold
<1> QED  BY <1>2, <1>3

(* The parts that a finalize counts are all there is, from the first on.   *)
LEMMA DraftCount ==
  ASSUME SourceInvariant, IsDraft, DraftIsReady
  PROVE  /\ Cardinality(Rows) \in 1 .. SourceMaxFiles
         /\ \A j \in Slots : j < Cardinality(Rows) => j \in OcrRows
<1> DEFINE last == Max(Rows)
<1>1. /\ Rows = 0 .. last /\ last \in Slots /\ uDoc.expected = 0 /\ ~ uDoc.key
      /\ DraftHasNoGap
  BY LastRow DEF DraftIsReady, IsDraft, SourceInvariant, SourcesHold
<1> HIDE DEF last
<1>2. last \in Int /\ last >= 0 /\ last + 1 <= SourceMaxFiles
  BY <1>1, SourceAssumption DEF Slots
<1>3. Cardinality(Rows) = last + 1
  BY <1>1, <1>2, FS_Interval
<1>4. \A j \in Slots : j < last + 1 => j \in Rows
  BY <1>1, <1>2, SourceAssumption DEF Slots
<1> QED  BY <1>1, <1>2, <1>3, <1>4, SourceAssumption DEF DraftHasNoGap, OcrRows

LEMMA FinalizeReadKeeps ==
  ASSUME SourceInvariant, FinalizeRead
  PROVE  SourceInvariant'
<1>1. /\ uDoc' = uDoc /\ uSlot' = uSlot /\ uFile' = uFile /\ uTab' = uTab
      /\ uSweep' = uSweep /\ uIdentity' = uIdentity /\ uDoc.up # "DELETED"
  BY DEF FinalizeRead
<1>2. /\ uFinal' \in FinalRecord
      /\ uFinal'.at = "counted" =>
           /\ uDoc.expected = 0 /\ ~ uDoc.key /\ uFinal'.count >= 1
           /\ \A j \in Slots : j < uFinal'.count => j \in OcrRows
      /\ uFinal'.at = "committing" => uDoc.expected >= 1
  <2>1. CASE IsDraft /\ DraftIsReady
             /\ uFinal' = [IdleFinal EXCEPT !.at = "counted", !.count = Cardinality(Rows)]
    <3>1. /\ Cardinality(Rows) \in 1 .. SourceMaxFiles
          /\ \A j \in Slots : j < Cardinality(Rows) => j \in OcrRows
      BY <2>1, DraftCount
    <3> DEFINE n == Cardinality(Rows)
    <3>2. n \in 0 .. SourceMaxFiles
      BY <3>1, SourceAssumption
    <3> HIDE DEF n
    <3>3. /\ [IdleFinal EXCEPT !.at = "counted", !.count = n] \in FinalRecord
          /\ [IdleFinal EXCEPT !.at = "counted", !.count = n].at = "counted"
          /\ [IdleFinal EXCEPT !.at = "counted", !.count = n].count = n
      BY <3>2, SourceTypes DEF FinalRecord
    <3>4. uFinal' = [IdleFinal EXCEPT !.at = "counted", !.count = n]
      BY <2>1 DEF n
    <3>5. /\ uFinal' \in FinalRecord /\ uFinal'.at = "counted"
          /\ uFinal'.count = Cardinality(Rows)
      BY <3>3, <3>4 DEF n
    <3> QED  BY <2>1, <3>1, <3>5, SourceAssumption DEF IsDraft
  <2>2. CASE IsMultiImage
             /\ uFinal' = [IdleFinal EXCEPT !.at = "committing", !.first = (uDoc.up # "UPLOADED")]
    <3>1. uFinal' \in FinalRecord /\ uFinal'.at = "committing"
      <4> DEFINE b == uDoc.up # "UPLOADED"
      <4>1. uFinal' = [IdleFinal EXCEPT !.at = "committing", !.first = b] /\ b \in BOOLEAN
        BY <2>2
      <4> HIDE DEF b
      <4> QED  BY <4>1, SourceTypes DEF FinalRecord
    <3>2. uDoc.expected >= 1
      BY <2>2, SourceTypes DEF IsMultiImage, SourceInvariant, DocRecord
    <3> QED  BY <3>1, <3>2
  <2> QED  BY <2>1, <2>2 DEF FinalizeRead
<1>3. SourceTypeOK'
  BY <1>1, <1>2, UnchangedParts, SourceTypedParts
<1>4. /\ Rows' = Rows /\ OcrRows' = OcrRows /\ OcrPages' = OcrPages
      /\ Committed' = Committed
  BY <1>1 DEF Rows, OcrRows, OcrPages, Committed
<1>5. SourcesHold
  BY <1>1 DEF SourceInvariant
<1>6. FinalIsTrue'
  BY <1>1, <1>2, <1>4 DEF FinalIsTrue
<1>7. NothingBeforeTheKey' /\ DraftHasNoGap' /\ IdentityIsCommitted'
  BY <1>1, <1>4, <1>5
  DEF SourcesHold, NothingBeforeTheKey, DraftHasNoGap, IdentityIsCommitted
<1>8. \A t \in SourceTabs : AddingIsNext(t)' /\ DisplayIsLast(t)'
  BY <1>1, <1>4, <1>5 DEF SourcesHold, AddingIsNext, DisplayIsLast
<1> QED  BY <1>1, <1>3, <1>6, <1>7, <1>8 DEF SourceInvariant, SourcesHold

LEMMA FinalizeCountKeeps ==
  ASSUME SourceInvariant, FinalizeCount
  PROVE  SourceInvariant'
<1>1. /\ uFinal.at = "counted" /\ uDoc.up # "DELETED"
      /\ uDoc' = [uDoc EXCEPT !.expected = uFinal.count, !.stale = FALSE]
      /\ uFinal' = [uFinal EXCEPT !.at = "committing"]
      /\ uSlot' = uSlot /\ uFile' = uFile /\ uTab' = uTab
      /\ uSweep' = uSweep /\ uIdentity' = uIdentity
      /\ uDoc \in DocRecord /\ uFinal \in FinalRecord
  BY SourceTypes DEF FinalizeCount, SourceInvariant
<1>2. /\ uDoc' \in DocRecord /\ uDoc'.expected = uFinal.count /\ uDoc'.key = uDoc.key
      /\ uDoc'.up = uDoc.up /\ uDoc'.busy = uDoc.busy
  BY <1>1 DEF DocRecord, FinalRecord
<1>3. uFinal' \in FinalRecord /\ uFinal'.at = "committing"
  BY <1>1 DEF FinalRecord
<1>4. SourceTypeOK'
  BY <1>1, <1>2, <1>3, UnchangedParts, SourceTypedParts
<1>5. /\ SourcesHold /\ uDoc.expected = 0 /\ ~ uDoc.key /\ uFinal.count >= 1
      /\ \A j \in Slots : j < uFinal.count => j \in OcrRows
      /\ uFinal.count \in Nat
  BY <1>1 DEF SourceInvariant, SourcesHold, FinalIsTrue, FinalRecord
<1>6. /\ Rows' = Rows /\ OcrRows' = OcrRows /\ Committed' = uFinal.count
      /\ \A j \in OcrRows : j \in Rows
  BY <1>1, <1>2, <1>5 DEF Rows, OcrRows, Committed
<1>7. uIdentity = {} /\ \A t \in SourceTabs : uTab[t].part
  BY <1>5 DEF SourcesHold, NothingBeforeTheKey
<1>8. NothingBeforeTheKey' /\ DraftHasNoGap' /\ FinalIsTrue' /\ IdentityIsCommitted'
  BY <1>1, <1>2, <1>3, <1>5, <1>7
  DEF SourcesHold, NothingBeforeTheKey, DraftHasNoGap, FinalIsTrue, IdentityIsCommitted
<1>9. ASSUME NEW t \in SourceTabs PROVE AddingIsNext(t)' /\ DisplayIsLast(t)'
  <2>1. uTab[t].slot \in Slots /\ AddingIsNext(t)
    BY <1>5, SourceTypes DEF SourceInvariant, TabRecord, SourcesHold
  <2> QED  BY <1>1, <1>5, <1>6, <1>7, <2>1 DEF AddingIsNext, DisplayIsLast
<1> QED  BY <1>1, <1>4, <1>8, <1>9 DEF SourceInvariant, SourcesHold

LEMMA FinalizeCommitKeeps ==
  ASSUME SourceInvariant, FinalizeCommit
  PROVE  SourceInvariant'
<1>1. /\ uFinal.at = "committing" /\ uDoc.up # "DELETED" /\ uFinal' = IdleFinal
      /\ uDoc' = [uDoc EXCEPT !.up = "UPLOADED", !.key = TRUE,
                              !.busy = uDoc.busy \/ uFinal.first]
      /\ uSlot' = uSlot /\ uFile' = uFile /\ uTab' = uTab
      /\ uSweep' = uSweep /\ uIdentity' = uIdentity
      /\ uDoc \in DocRecord /\ uFinal \in FinalRecord
  BY SourceTypes DEF FinalizeCommit, SourceInvariant
<1>2. /\ uDoc' \in DocRecord /\ uDoc'.expected = uDoc.expected /\ uDoc'.key
  BY <1>1 DEF DocRecord, FinalRecord
<1>3. SourceTypeOK'
  BY <1>1, <1>2, SourceTypes, UnchangedParts, SourceTypedParts
<1>4. SourcesHold /\ uDoc.expected >= 1 /\ uDoc.expected \in Nat
  BY <1>1, SourceAssumption DEF SourceInvariant, SourcesHold, FinalIsTrue, DocRecord
<1>5. /\ Rows' = Rows /\ OcrRows' = OcrRows /\ OcrPages' = OcrPages
      /\ Committed' = Committed
  BY <1>1, <1>2, <1>4 DEF Rows, OcrRows, OcrPages, Committed
<1>6. NothingBeforeTheKey' /\ DraftHasNoGap' /\ IdentityIsCommitted'
  BY <1>1, <1>2, <1>4, <1>5
  DEF SourcesHold, NothingBeforeTheKey, DraftHasNoGap, IdentityIsCommitted
<1>7. FinalIsTrue'
  BY <1>1, SourceTypes DEF FinalIsTrue
<1>8. \A t \in SourceTabs : AddingIsNext(t)' /\ DisplayIsLast(t)'
  BY <1>1, <1>4, <1>5 DEF SourcesHold, AddingIsNext, DisplayIsLast
<1> QED  BY <1>1, <1>3, <1>6, <1>7, <1>8 DEF SourceInvariant, SourcesHold

(* What recognition reads are the committed pages.                         *)
LEMMA SourcesAreCommitted ==
  ASSUME SourceInvariant, uDoc.key, SourcesAreValid
  PROVE  OcrSources = {j \in OcrPages : j < Committed} /\ OcrSources \subseteq Slots
<1>1. uDoc.expected \in Nat /\ uDoc.expected <= SourceMaxFiles /\ SourceMaxFiles \in Nat
  BY SourceTypes DEF SourceInvariant, DocRecord
<1>2. CASE IsMultiImage
  <2>1. Committed = uDoc.expected /\ uDoc.expected >= 2
    BY <1>1, <1>2 DEF Committed, IsMultiImage
  <2>2. \A k \in Slots : k < uDoc.expected => k \in Rows
    BY <1>1, <1>2 DEF SourcesAreValid, IsUploaded, Rows, Slots
  <2>3. 0 \in OcrRows
    <3>1. 0 \in Slots /\ 0 < uDoc.expected
      BY <1>1, <2>1, SourceTypes
    <3>2. 0 \in Rows /\ uSlot[0].ocr
      BY <2>2, <3>1 DEF SourceInvariant
    <3> QED  BY <3>2 DEF OcrRows
  <2>4. OcrPages = OcrRows
    BY <2>3 DEF OcrPages
  <2>5. OcrSources = {k \in 0 .. uDoc.expected - 1 : uSlot[k].ocr}
    BY <1>2 DEF OcrSources
  <2>6. \A k \in Slots : k \in OcrRows <=> k \in Rows /\ uSlot[k].ocr
    BY DEF OcrRows
  <2>7. OcrRows \subseteq Slots
    BY DEF OcrRows, Rows
  <2>8. \A k : k \in 0 .. uDoc.expected - 1 <=> k \in Slots /\ k < uDoc.expected
    BY <1>1 DEF Slots
  <2> QED  BY <2>1, <2>2, <2>4, <2>5, <2>6, <2>7, <2>8
<1>3. CASE ~ IsMultiImage
  <2>1. Committed = 1
    BY <1>1, <1>3 DEF Committed, IsMultiImage
  <2>2. \A j \in OcrPages : j < 1 <=> j = 0
    BY SourceAssumption DEF OcrPages, OcrRows, Rows, Slots
  <2>3. OcrSources = {0}
    BY <1>3 DEF OcrSources
  <2> QED  BY <2>1, <2>2, <2>3, SourceTypes DEF OcrPages
<1> QED  BY <1>2, <1>3

LEMMA RunOcrKeeps ==
  ASSUME SourceInvariant, RunOcr
  PROVE  SourceInvariant'
<1>1. /\ uDoc.up # "DELETED" /\ uDoc.busy /\ uDoc' = [uDoc EXCEPT !.busy = FALSE]
      /\ uSlot' = uSlot /\ uFile' = uFile /\ uTab' = uTab /\ uFinal' = uFinal
      /\ uSweep' = uSweep /\ uDoc \in DocRecord
      /\ \/ uIdentity' = uIdentity
         \/ SourcesAreValid /\ uIdentity' = OcrSources
  BY SourceTypes DEF RunOcr, SourceInvariant
<1>2. /\ uDoc' \in DocRecord /\ uDoc'.expected = uDoc.expected /\ uDoc'.key = uDoc.key
      /\ uDoc'.up = uDoc.up /\ uDoc'.busy = FALSE
  BY <1>1 DEF DocRecord
<1>3. SourcesHold /\ uDoc.key
  BY <1>1 DEF SourceInvariant, SourcesHold, NothingBeforeTheKey
<1>4. /\ Rows' = Rows /\ OcrRows' = OcrRows /\ OcrPages' = OcrPages
      /\ Committed' = Committed
  BY <1>1, <1>2 DEF Rows, OcrRows, OcrPages, Committed
<1>5. uIdentity' \subseteq Slots /\ IdentityIsCommitted'
  <2>1. CASE uIdentity' = uIdentity
    BY <1>3, <1>4, <2>1, UnchangedParts DEF SourcesHold, IdentityIsCommitted
  <2>2. CASE SourcesAreValid /\ uIdentity' = OcrSources
    BY <1>3, <1>4, <2>2, SourcesAreCommitted DEF IdentityIsCommitted
  <2> QED  BY <1>1, <2>1, <2>2
<1>6. SourceTypeOK'
  BY <1>1, <1>2, <1>5, UnchangedParts, SourceTypedParts
<1>7. NothingBeforeTheKey' /\ DraftHasNoGap' /\ FinalIsTrue'
  BY <1>1, <1>2, <1>3, <1>4
  DEF SourcesHold, NothingBeforeTheKey, DraftHasNoGap, FinalIsTrue
<1>8. \A t \in SourceTabs : AddingIsNext(t)' /\ DisplayIsLast(t)'
  BY <1>1, <1>3, <1>4 DEF SourcesHold, AddingIsNext, DisplayIsLast
<1> QED  BY <1>1, <1>5, <1>6, <1>7, <1>8 DEF SourceInvariant, SourcesHold

(* A display-only page gets the slot after the committed ones; no tab adds *)
(* a part beyond it, since that slot would be a part's by then.            *)
LEMMA PrepareDisplayOnlyKeeps ==
  ASSUME SourceInvariant, NEW t \in SourceTabs, PrepareDisplayOnly(t)
  PROVE  SourceInvariant'
<1> DEFINE k == Committed
           made == IF k \in Rows THEN uSlot[k].row ELSE uSlot[k].row + 1
           row == [status |-> "PENDING", ocr |-> FALSE, row |-> made, stale |-> FALSE]
           first == [uSlot[0] EXCEPT !.status = "UPLOADED"]
           tab == [at |-> "granted", slot |-> k, row |-> 0, part |-> FALSE]
<1>1. /\ uTab[t].at = "idle" /\ uDoc.up = "UPLOADED" /\ k < SourceMaxFiles
      /\ k \in Rows => ~ uSlot[k].ocr
      /\ made <= SourceRowBound
      /\ uSlot' = [uSlot EXCEPT ![0].status = "UPLOADED", ![k] = row]
      /\ uTab' = [uTab EXCEPT ![t] = tab]
      /\ uDoc' = uDoc /\ uFile' = uFile /\ uFinal' = uFinal
      /\ uSweep' = uSweep /\ uIdentity' = uIdentity
  BY DEF PrepareDisplayOnly, TabAt, MayAddDisplayOnly, JobsRest
<1>2. /\ uSlot \in [Slots -> SlotRecord] /\ uDoc \in DocRecord /\ 0 \in Slots
      /\ SourcesHold /\ uDoc.key /\ uSlot[0].ocr
  BY <1>1, SourceTypes DEF SourceInvariant, SourcesHold, NothingBeforeTheKey
<1>3. k \in Slots /\ k >= 1 /\ k # 0
  BY <1>1, <1>2, SourceAssumption DEF Committed, DocRecord, Slots
<1>4. row \in SlotRecord /\ row.ocr = FALSE /\ row.status # "NONE"
  <2>1. made \in 0 .. SourceRowBound
    BY <1>1, <1>2, <1>3, SourceAssumption DEF SlotRecord
  <2> HIDE DEF made
  <2> QED  BY <2>1 DEF SlotRecord
<1>5. first \in SlotRecord /\ first.ocr = uSlot[0].ocr /\ first.status # "NONE"
  BY <1>2 DEF SlotRecord
<1>6. tab \in TabRecord /\ tab.at = "granted" /\ tab.slot = k /\ ~ tab.part
  BY <1>3, SourceAssumption DEF TabRecord
<1>7. uSlot' = [[uSlot EXCEPT ![0] = first] EXCEPT ![k] = row]
  BY <1>1, <1>2, <1>3
<1> HIDE DEF k, row, first, tab
<1>8. /\ uSlot' \in [Slots -> SlotRecord] /\ uSlot'[k] = row /\ uSlot'[0] = first
      /\ \A j \in Slots \ {0, k} : uSlot'[j] = uSlot[j]
  BY <1>2, <1>3, <1>4, <1>5, <1>7
<1>9. /\ uTab' \in [SourceTabs -> TabRecord] /\ uTab'[t] = tab
      /\ \A u \in SourceTabs \ {t} : uTab'[u] = uTab[u]
  BY <1>1, <1>6, TabUpdates
<1>10. SourceTypeOK'
  BY <1>1, <1>8, <1>9, UnchangedParts, SourceTypedParts
<1>11. Committed' = Committed
  BY <1>1 DEF Committed
<1>12. k \notin OcrRows
  BY <1>1 DEF OcrRows
<1>13. \A j \in Slots : /\ j \in Rows' <=> j \in Rows \/ j \in {0, k}
                        /\ j \in OcrRows' <=> j \in OcrRows \/ j = 0
  <2> SUFFICES ASSUME NEW j \in Slots
               PROVE  /\ uSlot'[j].status # "NONE" <=> uSlot[j].status # "NONE" \/ j \in {0, k}
                      /\ uSlot'[j].status # "NONE" /\ uSlot'[j].ocr
                           <=> (uSlot[j].status # "NONE" /\ uSlot[j].ocr) \/ j = 0
    BY DEF Rows, OcrRows
  <2>1. CASE j = k
    BY <1>3, <1>4, <1>8, <1>12, <2>1 DEF OcrRows, Rows
  <2>2. CASE j = 0
    BY <1>2, <1>5, <1>8, <2>2
  <2>3. CASE j \notin {0, k}
    BY <1>8, <2>3
  <2> QED  BY <2>1, <2>2, <2>3
<1>14. OcrPages' = OcrPages
  <2>1. OcrRows \subseteq Slots /\ OcrRows' \subseteq Slots
    BY DEF OcrRows, Rows
  <2> QED  BY <1>13, <2>1 DEF OcrPages
<1>15. uSlot'[0].ocr /\ \A u \in SourceTabs : uTab'[u].at \in {"idle", "adding"} => uTab'[u].part
  BY <1>2, <1>5, <1>6, <1>8, <1>9 DEF SourceInvariant
<1>16. NothingBeforeTheKey' /\ DraftHasNoGap'
  BY <1>1, <1>2 DEF SourcesHold, NothingBeforeTheKey, DraftHasNoGap
<1>17. FinalIsTrue'
  BY <1>1, <1>2 DEF SourcesHold, FinalIsTrue
<1>18. IdentityIsCommitted'
  BY <1>1, <1>2, <1>11, <1>14 DEF SourcesHold, IdentityIsCommitted
<1>19. ASSUME NEW u \in SourceTabs, uTab'[u].at = "adding"
       PROVE  /\ uTab[u].at = "adding" /\ uTab'[u].slot = uTab[u].slot
              /\ uTab[u].slot \in Slots /\ AddingIsNext(u) /\ uTab[u].slot <= k
  <2>1. uTab[u].at = "adding" /\ uTab'[u].slot = uTab[u].slot
    BY <1>6, <1>9, <1>19
  <2>2. uTab[u].slot \in Slots /\ AddingIsNext(u)
    BY <1>2, SourceTypes DEF SourceInvariant, SourcesHold, TabRecord
  <2>3. ~ (k < uTab[u].slot)
    BY <1>3, <1>12, <2>1, <2>2 DEF AddingIsNext
  <2> QED  BY <1>3, <2>1, <2>2, <2>3 DEF Slots
<1>20. \A u \in SourceTabs : AddingIsNext(u)'
  BY <1>11, <1>13, <1>19 DEF AddingIsNext
<1>21. ASSUME NEW u \in SourceTabs PROVE DisplayIsLast(u)'
  <2>1. CASE u = t
    <3>1. uTab'[u].slot = Committed /\ Committed' = Committed
      BY <1>6, <1>9, <1>11, <2>1 DEF k
    <3> QED  BY <1>3, <1>19, <3>1 DEF DisplayIsLast, k
  <2>2. CASE u # t
    <3>1. uTab'[u] = uTab[u] /\ DisplayIsLast(u)
      BY <1>2, <1>9, <2>2 DEF SourcesHold
    <3> QED  BY <1>11, <1>14, <1>19, <3>1 DEF DisplayIsLast
  <2> QED  BY <2>1, <2>2
<1> QED  BY <1>10, <1>15, <1>16, <1>17, <1>18, <1>20, <1>21 DEF SourceInvariant, SourcesHold

LEMMA CompleteDisplayOnlyKeeps ==
  ASSUME SourceInvariant, NEW t \in SourceTabs, CompleteDisplayOnly(t)
  PROVE  SourceInvariant'
<1> DEFINE s == uTab[t].slot
<1>1. /\ ~ uTab[t].part /\ s \in Rows /\ ~ uSlot[s].ocr /\ uDoc.up = "UPLOADED" /\ ~ uDoc.busy
      /\ SetStatus(s, "UPLOADED") /\ TabEnds(t)
      /\ uDoc' = [uDoc EXCEPT !.expected = s + 1, !.stale = FALSE]
      /\ uFile' = uFile /\ uFinal' = uFinal /\ uSweep' = uSweep /\ uIdentity' = uIdentity
  BY DEF CompleteDisplayOnly, SlotOf, SameRow, MayAddDisplayOnly, JobsRest
<1>2. /\ uDoc \in DocRecord /\ s \in Slots /\ s \in Nat /\ s + 1 <= SourceMaxFiles
      /\ SourcesHold /\ uDoc.key /\ uSlot[0].ocr /\ SourceTypeOK
  <2>1. uDoc \in DocRecord /\ s \in Slots /\ SourceTypeOK /\ uSlot[0].ocr
    BY SourceTypes DEF SourceInvariant, TabRecord
  <2>2. s \in Nat /\ s + 1 <= SourceMaxFiles
    BY <2>1, SourceAssumption DEF Slots
  <2> QED  BY <1>1, <2>1, <2>2 DEF SourceInvariant, SourcesHold, NothingBeforeTheKey
<1>3. DisplayIsLast(t)
  BY <1>2 DEF SourcesHold
<1> HIDE DEF s
<1>4. uSlot' \in [Slots -> SlotRecord] /\ RowsStay
  BY <1>1, <1>2, StatusMoves
<1>5. uTab' \in [SourceTabs -> TabRecord] /\ TabsStay
  BY <1>1, TabStops
<1>6. /\ uDoc' \in DocRecord /\ uDoc'.expected = s + 1 /\ uDoc'.key /\ ~ uDoc'.busy
  <2>1. s + 1 \in 0 .. SourceMaxFiles
    BY <1>2, SourceAssumption
  <2> QED  BY <1>1, <1>2, <2>1 DEF DocRecord
<1>7. SourceTypeOK'
  BY <1>1, <1>4, <1>5, <1>6, UnchangedParts, SourceTypedParts
<1>8. /\ Rows' = Rows /\ OcrRows' = OcrRows /\ OcrPages' = OcrPages /\ Committed' = s + 1
  BY <1>2, <1>4, <1>6, SameRows DEF Committed
<1>9. /\ s >= 1 /\ s \notin OcrPages
      /\ \A j \in OcrPages : j < s <=> j < Committed
      /\ \A u \in SourceTabs : uTab[u].at = "adding" =>
           /\ uTab[u].slot <= s
           /\ uTab[u].slot < s => uTab[u].slot < Committed
  <2>1. /\ s >= 1 /\ \A j \in OcrPages : j < s <=> j < Committed
        /\ \A u \in SourceTabs : uTab[u].at = "adding" =>
             /\ uTab[u].slot <= s
             /\ uTab[u].slot < s => uTab[u].slot < Committed
    BY <1>1, <1>3 DEF DisplayIsLast, s
  <2>2. s \notin OcrPages
    BY <1>1, <1>2, <2>1 DEF OcrPages, OcrRows
  <2> QED  BY <2>1, <2>2
<1>10. \A j \in OcrPages : j \in Nat /\ (j < s + 1 <=> j < s)
  <2>1. \A j \in OcrPages : j \in Nat
    BY DEF OcrPages, OcrRows, Rows, Slots
  <2> QED  BY <1>2, <1>9, <2>1
<1>11. uSlot'[0].ocr /\ \A u \in SourceTabs : uTab'[u].at \in {"idle", "adding"} => uTab'[u].part
  BY <1>2, <1>4, <1>5, SourceTypes DEF RowsStay, TabsStay, TabStays
<1>12. NothingBeforeTheKey' /\ DraftHasNoGap'
  BY <1>6 DEF NothingBeforeTheKey, DraftHasNoGap
<1>13. FinalIsTrue'
  BY <1>1, <1>2, <1>6, <1>9 DEF SourcesHold, FinalIsTrue
<1>14. IdentityIsCommitted'
  BY <1>1, <1>2, <1>8, <1>9, <1>10 DEF SourcesHold, IdentityIsCommitted
<1>15. ASSUME NEW u \in SourceTabs, uTab'[u].at = "adding"
       PROVE  /\ uTab[u].at = "adding" /\ uTab'[u].slot = uTab[u].slot
              /\ uTab[u].slot \in Nat /\ AddingIsNext(u)
  <2>1. uTab[u].slot \in Slots
    BY SourceTypes DEF SourceInvariant, TabRecord
  <2> QED  BY <1>2, <1>5, <1>15, <2>1 DEF TabsStay, TabStays, SourcesHold, Slots
<1>16. ASSUME NEW u \in SourceTabs PROVE AddingIsNext(u)'
  <2> SUFFICES ASSUME uTab'[u].at = "adding"
               PROVE  /\ \A j \in Slots : j < uTab[u].slot => j \in OcrRows
                      /\ uTab[u].slot < s + 1 => uTab[u].slot \in Rows
    BY <1>8, <1>15 DEF AddingIsNext
  <2>1. uTab[u].slot < s + 1 => uTab[u].slot = s \/ uTab[u].slot < s
    BY <1>2, <1>15
  <2> QED  BY <1>1, <1>9, <1>15, <2>1 DEF AddingIsNext
<1>17. ASSUME NEW u \in SourceTabs PROVE DisplayIsLast(u)'
  <2> SUFFICES ASSUME ~ uTab'[u].part
               PROVE  /\ uTab[u].slot >= 1
                      /\ \A j \in OcrPages : j < uTab[u].slot <=> j < s + 1
                      /\ \A v \in SourceTabs : uTab'[v].at = "adding" =>
                           /\ uTab[v].slot <= uTab[u].slot
                           /\ uTab[v].slot < uTab[u].slot => uTab[v].slot < s + 1
    BY <1>5, <1>8, <1>15 DEF DisplayIsLast, TabsStay, TabStays
  <2>1. ~ uTab[u].part /\ DisplayIsLast(u)
    BY <1>2, <1>5 DEF TabsStay, TabStays, SourcesHold
  <2>2. \A v \in SourceTabs : uTab'[v].at = "adding" => uTab[v].slot < s + 1
    BY <1>2, <1>9, <1>15
  <2> QED  BY <1>9, <1>10, <1>15, <2>1, <2>2 DEF DisplayIsLast
<1> QED  BY <1>7, <1>11, <1>12, <1>13, <1>14, <1>16, <1>17 DEF SourceInvariant, SourcesHold

(* The clean-up of a display-only page takes away no part and no committed *)
(* page.                                                                   *)
LEMMA CleanUpDisplayOnlyKeeps ==
  ASSUME SourceInvariant, NEW k \in Slots, CleanUpDisplayOnly(k)
  PROVE  SourceInvariant'
<1> DEFINE row == [NoSlot EXCEPT !.row = uSlot[k].row]
<1>1. /\ ~ uSlot[k].ocr /\ k >= Committed /\ uDoc.up = "UPLOADED"
      /\ uFile' = [uFile EXCEPT ![k] = NoFile] /\ uSlot' = [uSlot EXCEPT ![k] = row]
      /\ uDoc' = uDoc /\ uTab' = uTab /\ uFinal' = uFinal
      /\ uSweep' = uSweep /\ uIdentity' = uIdentity
      /\ uSlot \in [Slots -> SlotRecord] /\ SourceTypeOK
      /\ uFile \in [Slots -> SourceTabs \cup {NoFile}]
  BY SourceTypes DEF CleanUpDisplayOnly, JobsRest, SourceInvariant
<1>2. row \in SlotRecord /\ row.ocr /\ row.status = "NONE"
  BY <1>1, SourceTypes DEF SlotRecord
<1> HIDE DEF row
<1>3. /\ uSlot' \in [Slots -> SlotRecord] /\ uSlot'[k] = row
      /\ \A j \in Slots \ {k} : uSlot'[j] = uSlot[j]
  BY <1>1, <1>2, SlotUpdates
<1>4. uFile' \in [Slots -> SourceTabs \cup {NoFile}]
  BY <1>1
<1>5. SourceTypeOK'
  BY <1>1, <1>3, <1>4, UnchangedParts, SourceTypedParts
<1>6. /\ Rows' = Rows \ {k} /\ Committed' = Committed
      /\ \A j \in Slots : j \in OcrRows' <=> j \in OcrRows
  BY <1>1, <1>2, <1>3 DEF Rows, OcrRows, Committed
<1>7. OcrRows' = OcrRows /\ OcrPages' = OcrPages
  <2>1. OcrRows \subseteq Slots /\ OcrRows' \subseteq Slots
    BY DEF OcrRows, Rows
  <2> QED  BY <1>6, <2>1 DEF OcrPages
<1>8. SourcesHold /\ uDoc.key
  BY <1>1 DEF SourceInvariant, SourcesHold, NothingBeforeTheKey
<1>9. uSlot'[0].ocr
  BY <1>2, <1>3, SourceTypes DEF SourceInvariant
<1>10. NothingBeforeTheKey' /\ DraftHasNoGap' /\ FinalIsTrue' /\ IdentityIsCommitted'
  BY <1>1, <1>6, <1>7, <1>8
  DEF SourcesHold, NothingBeforeTheKey, DraftHasNoGap, FinalIsTrue, IdentityIsCommitted
<1>11. ASSUME NEW t \in SourceTabs PROVE AddingIsNext(t)' /\ DisplayIsLast(t)'
  <2>1. uTab[t].slot \in Slots /\ k \in Nat /\ Committed \in Nat
    BY <1>1, CountTyped, SourceTypes DEF SourceInvariant, TabRecord, Slots
  <2>2. uTab[t].slot < Committed => uTab[t].slot # k
    BY <1>1, <2>1 DEF Slots
  <2> QED  BY <1>1, <1>6, <1>7, <1>8, <2>2 DEF SourcesHold, AddingIsNext, DisplayIsLast
<1> QED  BY <1>1, <1>5, <1>9, <1>10, <1>11 DEF SourceInvariant, SourcesHold

LEMMA SweepDocumentKeeps ==
  ASSUME SourceInvariant, SweepDocument
  PROVE  SourceInvariant'
<1>1. /\ uDoc' = [uDoc EXCEPT !.up = "DELETED", !.busy = FALSE]
      /\ uSlot' = [k \in Slots |-> [NoSlot EXCEPT !.row = uSlot[k].row]]
      /\ uSweep' = IdleSweep /\ uFile' = uFile /\ uTab' = uTab /\ uFinal' = uFinal
      /\ uIdentity' = uIdentity /\ uDoc \in DocRecord /\ uSlot \in [Slots -> SlotRecord]
  BY SourceTypes DEF SweepDocument, SourceInvariant
<1>2. uDoc' \in DocRecord /\ uDoc'.up = "DELETED"
  BY <1>1 DEF DocRecord
<1>3. \A k \in Slots : /\ [NoSlot EXCEPT !.row = uSlot[k].row] \in SlotRecord
                       /\ [NoSlot EXCEPT !.row = uSlot[k].row].ocr
  BY <1>1, SourceTypes DEF SlotRecord
<1>4. uSlot' \in [Slots -> SlotRecord] /\ uSlot'[0].ocr
  BY <1>1, <1>3, SourceTypes
<1>5. SourceTypeOK'
  BY <1>1, <1>2, <1>4, SourceTypes, UnchangedParts, SourceTypedParts
<1> QED  BY <1>1, <1>2, <1>4, <1>5 DEF SourceInvariant

LEMMA SourcesStart ==
  ASSUME Init_Source
  PROVE  SourceInvariant
<1>1. /\ uDoc \in DocRecord /\ uDoc.up # "DELETED" /\ ~ uDoc.busy
      /\ uDoc.up = "UPLOADED" => uDoc.key /\ uDoc.expected = 0
  <2>1. /\ Draft \in DocRecord /\ Draft.up = "UPLOADING" /\ ~ Draft.busy
    BY SourceAssumption DEF Draft, DocRecord
  <2>2. /\ TwoPlanned \in DocRecord /\ TwoPlanned.up = "UPLOADING" /\ ~ TwoPlanned.busy
    <3>1. 2 \in 0 .. SourceMaxFiles
      BY SourceAssumption
    <3> QED  BY <2>1, <3>1 DEF TwoPlanned, DocRecord
  <2>3. /\ SingleFile \in DocRecord /\ SingleFile.up = "UPLOADED" /\ ~ SingleFile.busy
        /\ SingleFile.key /\ SingleFile.expected = 0
    BY <2>1, SourceAssumption DEF SingleFile, Draft, DocRecord
  <2> QED  BY <2>1, <2>2, <2>3 DEF Init_Source
<1>2. PICK made \in 0 .. uDoc.expected :
        uSlot = [k \in Slots |->
                   IF k < made THEN [NoSlot EXCEPT !.status = "PENDING", !.row = 1] ELSE NoSlot]
  BY DEF Init_Source
<1>3. /\ [NoSlot EXCEPT !.status = "PENDING", !.row = 1] \in SlotRecord
      /\ [NoSlot EXCEPT !.status = "PENDING", !.row = 1].ocr
      /\ [NoSlot EXCEPT !.status = "PENDING", !.row = 1].status # "NONE"
  <2>1. 1 \in 0 .. SourceRowBound /\ NoSlot \in SlotRecord /\ NoSlot.ocr
    BY SourceAssumption, SourceTypes
  <2> QED  BY <2>1 DEF SlotRecord
<1>4. uSlot \in [Slots -> SlotRecord] /\ \A k \in Slots : uSlot[k].ocr
  BY <1>2, <1>3, SourceTypes
<1>5. /\ uTab = [t \in SourceTabs |-> IdleTab] /\ uFile = [k \in Slots |-> NoFile]
      /\ uFinal = IdleFinal /\ uSweep = IdleSweep /\ uIdentity = {}
  BY DEF Init_Source
<1>6. SourceTypeOK
  BY <1>1, <1>4, <1>5, SourceTypes
  DEF SourceTypeOK, DocRecord, SlotRecord, TabRecord, FinalRecord, SweepRecord
<1>7. uDoc.expected = 0 => Rows = {}
  <2>1. uDoc.expected = 0 => \A k \in Slots : uSlot[k] = NoSlot
    BY <1>2 DEF Slots
  <2> QED  BY <2>1, SourceTypes DEF Rows
<1>8. NothingBeforeTheKey /\ DraftHasNoGap /\ FinalIsTrue /\ IdentityIsCommitted
  BY <1>1, <1>5, <1>7, SourceTypes
  DEF NothingBeforeTheKey, DraftHasNoGap, FinalIsTrue, IdentityIsCommitted
<1>9. \A t \in SourceTabs : AddingIsNext(t) /\ DisplayIsLast(t)
  BY <1>5, SourceTypes DEF AddingIsNext, DisplayIsLast
<1> QED  BY <1>4, <1>5, <1>6, <1>8, <1>9, SourceTypes DEF SourceInvariant, SourcesHold

(* Rows, tabs and requests of SourceFiles keep their shapes, recognition   *)
(* and display-only pages wait for the primary file, and the slots of the  *)
(* tabs stay clear of the committed pages (source_files.py).               *)
THEOREM SourceInvariantHolds == Spec_Source => []SourceInvariant
<1>1. Init_Source => SourceInvariant
  BY SourcesStart
<1>2. SourceInvariant /\ [Next_Source]_uVars => SourceInvariant'
  <2> SUFFICES ASSUME SourceInvariant, [Next_Source]_uVars PROVE SourceInvariant'
    OBVIOUS
  <2>1. CASE UNCHANGED uVars
    BY <2>1, UnchangedParts, Quiet DEF uVars
  <2>2. ASSUME NEW t \in SourceTabs, TabStep(t) PROVE SourceInvariant'
    BY <2>2, QuietTabSteps, AddPartReadKeeps, AddPartKeeps, PrepareDisplayOnlyKeeps,
       CompleteDisplayOnlyKeeps DEF TabStep
  <2>3. CASE FinalizeRead \/ FinalizeCount \/ FinalizeCommit \/ RunOcr \/ SweepDocument
    BY <2>3, FinalizeReadKeeps, FinalizeCountKeeps, FinalizeCommitKeeps, RunOcrKeeps,
       SweepDocumentKeeps
  <2>4. ASSUME NEW k \in Slots, SlotAges(k) \/ CleanUpDisplayOnly(k) \/ SweepObject(k)
        PROVE  SourceInvariant'
    BY <2>4, QuietJobSteps, CleanUpDisplayOnlyKeeps
  <2>5. CASE FinalizeFails \/ FinalizeStops \/ StartOcrRun \/ DraftAges \/ ListDraft \/ SweepDraft
    BY <2>5, QuietJobSteps
  <2> QED  BY <2>1, <2>2, <2>3, <2>4, <2>5 DEF Next_Source
<1> QED  BY <1>1, <1>2, PTL DEF Spec_Source

THEOREM SourceFilesTyped == Spec_Source => []SourceTypeOK
<1>1. SourceInvariant => SourceTypeOK
  BY DEF SourceInvariant
<1> QED  BY <1>1, SourceInvariantHolds, PTL

(* Whatever is added, reported late or cleaned up after the upload, the    *)
(* valid sources of a document are those of its first recognition attempt  *)
(* (get_ordered_ocr_source_files_for_processing).                          *)
THEOREM AttemptsKeepTheirPages == Spec_Source => []AttemptKeepsItsPages
<1>1. SourceInvariant => AttemptKeepsItsPages
  <2> SUFFICES ASSUME SourceInvariant, uIdentity # {}, uDoc.up = "UPLOADED", SourcesAreValid
               PROVE  OcrSources = uIdentity
    BY DEF AttemptKeepsItsPages
  <2>1. SourcesHold /\ uDoc.key
    BY DEF SourceInvariant, SourcesHold, NothingBeforeTheKey
  <2> QED  BY <2>1, SourcesAreCommitted DEF SourcesHold, IdentityIsCommitted
<1> QED  BY <1>1, SourceInvariantHolds, PTL
====
