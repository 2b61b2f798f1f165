--------------------------- MODULE SnapshotStorage ---------------------------
(***************************************************************************)
(* A Transkribus transcript is stored in two places without a common       *)
(* transaction: rows in PostgreSQL and one PAGE XML object per page in S3. *)
(* Several deliveries may store the same transcript of a document at the   *)
(* same time, any of them may die between two steps, and an operator may   *)
(* run the orphan clean-up of S3 while they work.                          *)
(***************************************************************************)
EXTENDS Integers, FiniteSets

CONSTANTS
  SnapStorerCount,   \* the calls of store_transkribus_transcript_snapshot
  SnapPageCount      \* the pages of the transcript

ASSUME SnapAssumption ==
  /\ SnapStorerCount \in Nat
  /\ SnapPageCount \in Nat \ {0}

Storers == 1 .. SnapStorerCount
SnapPages == 1 .. SnapPageCount

(* The deterministic key of a page's object names the row and the page.    *)
SnapKeys == Storers \X SnapPages

VARIABLES
  snapRow,     \* storage_status of the row each storer created
  storer,      \* the locals of each call, with its program counter
  s3Objects,   \* the keys that hold an object
  s3Aged,      \* those last modified before the clean-up's cutoff
  staleRows,   \* rows created more than 24 hours ago
  orphans      \* the candidates of the clean-up report being applied

sVars == <<snapRow, storer, s3Objects, s3Aged, staleRows, orphans>>

NoWinner == 0

StorerSteps ==
  {"parsed", "create", "recheck", "upload", "look", "locked", "save", "undo",
   "mark"}
StorerEnds == {"returned", "raised", "gone"}

SnapTypeOK ==
  /\ snapRow \in [Storers -> {"none", "PENDING_UPLOAD", "READY", "FAILED"}]
  /\ storer \in [Storers -> [at : StorerSteps \cup StorerEnds,
                             keys : SUBSET SnapPages,
                             winner : Storers \cup {NoWinner}]]
  /\ s3Objects \subseteq SnapKeys
  /\ s3Aged \subseteq s3Objects
  /\ staleRows \subseteq Storers
  /\ orphans \subseteq SnapKeys

Init_Snapshot ==
  /\ snapRow = [i \in Storers |-> "none"]
  /\ storer = [i \in Storers |->
                [at |-> "parsed", keys |-> {}, winner |-> NoWinner]]
  /\ s3Objects = {} /\ s3Aged = {} /\ staleRows = {} /\ orphans = {}

Storing(i) == storer[i].at \in StorerSteps
ReadySnapshots == {i \in Storers : snapRow[i] = "READY"}

IsAt(i, step) == storer[i].at = step
StorerGoes(i, step) == storer' = [storer EXCEPT ![i].at = step]
StorerTakes(i, step, r) ==
  storer' = [storer EXCEPT ![i].at = step, ![i].winner = r]
S3Rests == UNCHANGED <<s3Objects, s3Aged>>
OperatorRests == UNCHANGED <<staleRows, orphans>>

------------------------------------------------------------------------------
(* One call of store_transkribus_transcript_snapshot. A database error     *)
(* before the row exists ends the call like the death of its process;      *)
(* after that it leads to the clean-up of the call. A transaction whose    *)
(* COMMIT took effect but whose answer was lost is not modelled.           *)

FindExisting(i) ==
  /\ IsAt(i, "parsed")
  /\ \/ ReadySnapshots = {} /\ StorerGoes(i, "create")
     \/ \E r \in ReadySnapshots : StorerTakes(i, "returned", r)
  /\ UNCHANGED snapRow /\ S3Rests /\ OperatorRests

CreatePending(i) ==
  /\ IsAt(i, "create")
  /\ snapRow' = [snapRow EXCEPT ![i] = "PENDING_UPLOAD"]
  /\ StorerGoes(i, "recheck")
  /\ S3Rests /\ OperatorRests

(* The update of the row is best effort; it never touches a READY row.     *)
MarkFailed(i) ==
  \/ snapRow[i] = "PENDING_UPLOAD" /\ snapRow' = [snapRow EXCEPT ![i] = "FAILED"]
  \/ UNCHANGED snapRow

Recheck(i) ==
  /\ IsAt(i, "recheck")
  /\ \/ ReadySnapshots = {} /\ StorerGoes(i, "upload") /\ UNCHANGED snapRow
     \/ \E r \in ReadySnapshots : StorerTakes(i, "returned", r) /\ MarkFailed(i)
     \/ StorerGoes(i, "undo") /\ UNCHANGED snapRow
  /\ S3Rests /\ OperatorRests

(* The pages are put in order. A put that fails is not remembered, though  *)
(* its object may exist.                                                   *)
PutPage(i) ==
  \E p \in SnapPages \ storer[i].keys :
    /\ IsAt(i, "upload")
    /\ \A q \in SnapPages \ storer[i].keys : p <= q
    /\ \/ /\ s3Objects' = s3Objects \cup {<<i, p>>}
          /\ storer' = [storer EXCEPT ![i].keys = @ \cup {p}]
       \/ /\ s3Objects' = s3Objects \cup {<<i, p>>}
          /\ StorerGoes(i, "undo")
       \/ UNCHANGED s3Objects /\ StorerGoes(i, "undo")
    /\ UNCHANGED <<snapRow, s3Aged>> /\ OperatorRests

AllPut(i) ==
  /\ IsAt(i, "upload") /\ storer[i].keys = SnapPages
  /\ StorerGoes(i, "look")
  /\ UNCHANGED snapRow /\ S3Rests /\ OperatorRests

(* The unlocked look for a READY snapshot, then the look that holds the    *)
(* lock of the own row: both see what has committed by then.               *)
OtherReady(i) == ReadySnapshots \ {i}

LookForWinner(i, step, next) ==
  /\ IsAt(i, step)
  /\ \/ OtherReady(i) = {} /\ StorerGoes(i, next)
     \/ \E r \in OtherReady(i) : StorerTakes(i, "undo", r)
     \/ StorerGoes(i, "undo")
  /\ UNCHANGED snapRow /\ S3Rests /\ OperatorRests

(* Mutant of UniqueViolated: the rows have no such constraint. *)
Unconstrained(i) == FALSE

(* uniq_tr_snap_ready_raw_xml refuses a second READY row.                  *)
UniqueViolated(i) == OtherReady(i) # {}

SaveReady(i) ==
  /\ IsAt(i, "save")
  /\ \/ /\ ~ UniqueViolated(i)
        /\ snapRow' = [snapRow EXCEPT ![i] = "READY"]
        /\ StorerTakes(i, "returned", i)
     \/ /\ UniqueViolated(i)
        /\ \E r \in OtherReady(i) : StorerTakes(i, "undo", r)
        /\ UNCHANGED snapRow
     \/ StorerGoes(i, "undo") /\ UNCHANGED snapRow
  /\ S3Rests /\ OperatorRests

(* A loser, or a call that failed, deletes what it put, key by key; a      *)
(* delete that fails is noted and the next key is tried.                   *)
DeleteKey(i) ==
  \E p \in storer[i].keys :
    /\ IsAt(i, "undo")
    /\ storer' = [storer EXCEPT ![i].keys = @ \ {p}]
    /\ \/ s3Objects' = s3Objects \ {<<i, p>>} /\ s3Aged' = s3Aged \ {<<i, p>>}
       \/ S3Rests
    /\ UNCHANGED snapRow /\ OperatorRests

AllDeleted(i) ==
  /\ IsAt(i, "undo") /\ storer[i].keys = {}
  /\ StorerGoes(i, "mark")
  /\ UNCHANGED snapRow /\ S3Rests /\ OperatorRests

MarkAndEnd(i) ==
  /\ IsAt(i, "mark")
  /\ MarkFailed(i)
  /\ StorerGoes(i, IF storer[i].winner = NoWinner THEN "raised" ELSE "returned")
  /\ S3Rests /\ OperatorRests

(* The process dies; nothing it has written is undone.                     *)
StorerDies(i) ==
  /\ Storing(i)
  /\ StorerGoes(i, "gone")
  /\ UNCHANGED snapRow /\ S3Rests /\ OperatorRests

------------------------------------------------------------------------------
(* Time. A call is over long before its row is a day old; an object may    *)
(* pass the age of the clean-up (an hour or more) while its call runs.     *)

RowAges(i) ==
  /\ snapRow[i] # "none" /\ ~ Storing(i) /\ i \notin staleRows
  /\ staleRows' = staleRows \cup {i}
  /\ UNCHANGED <<snapRow, storer, orphans>> /\ S3Rests

ObjectAges(k) ==
  /\ k \in s3Objects \ s3Aged
  /\ s3Aged' = s3Aged \cup {k}
  /\ UNCHANGED <<snapRow, storer, s3Objects>> /\ OperatorRests

------------------------------------------------------------------------------
(* cleanup_document_s3_orphans: the report, then a delete per candidate    *)
(* that looks at nothing again.                                            *)

(* Mutant of ReferencedKeys: only finished snapshots are protected. *)
ReadyKeysOnly == {k \in SnapKeys : snapRow[k[1]] = "READY"}

ReferencedKeys ==
  {k \in SnapKeys :
     \/ snapRow[k[1]] = "READY"
     \/ snapRow[k[1]] = "PENDING_UPLOAD" /\ k[1] \notin staleRows}

BuildReport ==
  /\ orphans = {}
  /\ orphans' = s3Aged \ ReferencedKeys
  /\ orphans' # {}
  /\ UNCHANGED <<snapRow, storer, staleRows>> /\ S3Rests

ApplyReport(k) ==
  /\ k \in orphans
  /\ orphans' = orphans \ {k}
  /\ \/ s3Objects' = s3Objects \ {k} /\ s3Aged' = s3Aged \ {k}
     \/ S3Rests
  /\ UNCHANGED <<snapRow, storer, staleRows>>

------------------------------------------------------------------------------
StorerStep(i) ==
  \/ FindExisting(i) \/ CreatePending(i) \/ Recheck(i) \/ PutPage(i) \/ AllPut(i)
  \/ LookForWinner(i, "look", "locked") \/ LookForWinner(i, "locked", "save")
  \/ SaveReady(i) \/ DeleteKey(i) \/ AllDeleted(i) \/ MarkAndEnd(i)
  \/ StorerDies(i) \/ RowAges(i)

Next_Snapshot ==
  \/ \E i \in Storers : StorerStep(i)
  \/ \E k \in SnapKeys : ObjectAges(k) \/ ApplyReport(k)
  \/ BuildReport

Spec_Snapshot == Init_Snapshot /\ [][Next_Snapshot]_sVars

------------------------------------------------------------------------------
(* A transcript has one READY snapshot at most, and it keeps an object for *)
(* every page whatever other calls undo, wherever they die and whenever an *)
(* operator cleans up; every call that returns hands out that snapshot.    *)
ReadySnapshotIsWhole ==
  /\ \A i, j \in ReadySnapshots : i = j
  /\ \A i \in ReadySnapshots, p \in SnapPages : <<i, p>> \in s3Objects
  /\ \A i \in Storers : IsAt(i, "returned") => storer[i].winner \in ReadySnapshots

------------------------------------------------------------------------------
(* The storage of a transcript implements WriteOnce. *)

(* The snapshot that a reader of page p finds, row and object. *)
ReadableFrom(p) == {i \in ReadySnapshots : <<i, p>> \in s3Objects}
ReadablePages ==
  [p \in SnapPages |-> IF ReadableFrom(p) = {} THEN NoWinner
                       ELSE CHOOSE i \in ReadableFrom(p) : TRUE]
HandedOut(i) ==
  IF IsAt(i, "returned") THEN [p \in SnapPages |-> storer[i].winner] ELSE <<>>

SnapshotStore == INSTANCE WriteOnce WITH
  Cells <- SnapPages, Readers <- Storers, Empty <- NoWinner, Unanswered <- <<>>,
  cell <- ReadablePages, answer <- [i \in Storers |-> HandedOut(i)]

(* Two stores without a common transaction act as one: the pages of a      *)
(* transcript become readable together and for good, from one snapshot,    *)
(* which is the one that every call hands out that returns:                *)
(* SnapshotStore!Spec, said of the steps that move something here.         *)
SnapshotIsWrittenOnce ==
  SnapshotStore!Init /\ [][UNCHANGED sVars \/ SnapshotStore!Next]_sVars
=============================================================================
