----------------------- MODULE GeminiPageCheckpoints -----------------------
(***************************************************************************)
(* One Gemini OCR attempt of a document: its durable page checkpoints and  *)
(* the runs that claim, execute, settle and assemble them. Every run with  *)
(* the same source, route, prompt and configuration shares the attempt.    *)
(*                                                                         *)
(* A run is the one execution of a PROCESS_DOCUMENT request (see           *)
(* ProcessDocument: a request is executed at most once). A transaction     *)
(* that locks two rows is two actions: it holds its first row lock while   *)
(* it waits for the second. A transaction that locks one row is one.       *)
(***************************************************************************)
EXTENDS Naturals, FiniteSets

CONSTANTS
  GeminiPageCount, \* expected_page_count of the attempt
  GeminiRunCount   \* bound: requests that execute this attempt

ASSUME GeminiPageCountAssumption == GeminiPageCount \in Nat \ {0}
ASSUME GeminiRunCountAssumption == GeminiRunCount \in Nat

VARIABLES
  gAttempt,   \* the GeminiOcrAttempt row
  gPage,      \* gPage[p]: the GeminiOcrPageCheckpoint row of page p
  gRun,       \* gRun[i]: program counter and locals of run i
  gAuthorized \* the run whose identity may claim pages, 0 when none may

gVars == <<gAttempt, gPage, gRun, gAuthorized>>

GeminiPages == 1..GeminiPageCount
GeminiRuns == 1..GeminiRunCount

(* token counts the leases issued for the page and stands for their fresh  *)
(* uuid4 values; text is the token of the claim that wrote it, 0 for None. *)
NoGeminiPage == [status |-> "NONE", token |-> 0, live |-> FALSE, text |-> 0]

Init_Gemini ==
  /\ gAttempt = [status |-> "NONE", missing |-> {}]
  /\ gPage = [p \in GeminiPages |-> NoGeminiPage]
  /\ gRun = [i \in GeminiRuns |-> [pc |-> "idle", page |-> 0, token |-> 0, result |-> <<>>]]
  /\ gAuthorized = 0

Missing(page) == {p \in GeminiPages : page[p].status # "SUCCEEDED"}

(* Row locks held by a transaction that waits for its second lock. *)
AttemptIsLocked == \E i \in GeminiRuns : gRun[i].pc \in {"claiming", "assembling"}
PageIsLocked(p) == \E i \in GeminiRuns : gRun[i].pc = "failing" /\ gRun[i].page = p

Enter(i, pc) == gRun' = [gRun EXCEPT ![i].pc = pc]

-----------------------------------------------------------------------------
(* A request is claimed by a worker, which creates or finds the attempt.   *)
(* No other request of the document is active then.                        *)
StartGeminiRun(i) ==
  /\ gRun[i].pc = "idle"
  /\ \A j \in GeminiRuns : j < i => gRun[j].pc # "idle"
  /\ gAuthorized = 0
  /\ gAuthorized' = i
  /\ gAttempt' = IF gAttempt.status = "NONE"
                 THEN [status |-> "IN_PROGRESS", missing |-> GeminiPages]
                 ELSE gAttempt
  /\ gRun' = [gRun EXCEPT ![i].pc = "claim", ![i].page = 1]
  /\ UNCHANGED gPage

(* The request is terminalized, or abandoned by staff while its run goes   *)
(* on: the identity of the run can claim no further page.                  *)
EndGeminiRequest ==
  /\ gAuthorized # 0
  /\ gAuthorized' = 0
  /\ UNCHANGED <<gAttempt, gPage, gRun>>

(* claim_gemini_page locks the attempt, then the checkpoint. *)
LockAttemptForClaim(i) ==
  /\ gRun[i].pc = "claim"
  /\ ~AttemptIsLocked
  /\ Enter(i, "claiming")
  /\ UNCHANGED <<gAttempt, gPage, gAuthorized>>

Advance(i) ==
  gRun' = [gRun EXCEPT ![i].page = IF @ = GeminiPageCount THEN @ ELSE @ + 1,
             ![i].pc = IF gRun[i].page = GeminiPageCount THEN "assemble" ELSE "claim"]

(* Mutant of PageIsReusable: a later run executes finished pages again. *)
NeverReusable(p) == FALSE

PageIsReusable(p) == gPage[p].status = "SUCCEEDED"

(* GeminiPageClaimAction.REUSE: the run goes on with the next page. *)
ReusePage(i) ==
  /\ gRun[i].pc = "claiming"
  /\ PageIsReusable(gRun[i].page)
  /\ ~PageIsLocked(gRun[i].page)
  /\ Advance(i)
  /\ UNCHANGED <<gAttempt, gPage, gAuthorized>>

(* Mutant of PageIsBusy: a RUNNING page is taken over at once. *)
NeverBusy(p) == FALSE

PageIsBusy(p) == gPage[p].status = "RUNNING" /\ gPage[p].live

(* BUSY, or an identity that require_process_document_page_claim_allowed   *)
(* refuses: the run raises and leaves the attempt as it is.                *)
RefuseClaim(i) ==
  /\ gRun[i].pc = "claiming"
  /\ ~PageIsReusable(gRun[i].page)
  /\ ~PageIsLocked(gRun[i].page)
  /\ PageIsBusy(gRun[i].page) \/ gAuthorized # i
  /\ Enter(i, "stopped")
  /\ UNCHANGED <<gAttempt, gPage, gAuthorized>>

(* EXECUTE: a new token and a 45 minute lease; the attempt is open again,  *)
(* its missing pages stay as the last failure or assembly left them.       *)
ClaimGeminiPage(i) ==
  LET p == gRun[i].page
      token == gPage[p].token + 1
  IN /\ gRun[i].pc = "claiming"
     /\ ~PageIsReusable(p)
     /\ ~PageIsLocked(p)
     /\ ~PageIsBusy(p)
     /\ gAuthorized = i
     /\ gPage' = [gPage EXCEPT ![p] = [status |-> "RUNNING", token |-> token,
                                      live |-> TRUE, text |-> 0]]
     /\ gAttempt' = [gAttempt EXCEPT !.status = "IN_PROGRESS"]
     /\ gRun' = [gRun EXCEPT ![i].pc = "execute", ![i].token = token]
     /\ UNCHANGED gAuthorized

GeminiLeaseExpires(p) ==
  /\ gPage[p].live
  /\ gPage' = [gPage EXCEPT ![p].live = FALSE]
  /\ UNCHANGED <<gAttempt, gRun, gAuthorized>>

-----------------------------------------------------------------------------
(* Settling a page. The provider calls of _execute_claimed_page run        *)
(* outside any transaction, see GeminiPageCalls.                           *)

(* Neither the lease's expiry nor the request is asked again. *)
HoldsClaim(i) ==
  /\ gPage[gRun[i].page].status = "RUNNING"
  /\ gPage[gRun[i].page].token = gRun[i].token

PersistGeminiPageSuccess(i) ==
  /\ gRun[i].pc = "execute"
  /\ ~PageIsLocked(gRun[i].page)
  /\ HoldsClaim(i)
  /\ gPage' = [gPage EXCEPT ![gRun[i].page].status = "SUCCEEDED",
                            ![gRun[i].page].live = FALSE,
                            ![gRun[i].page].text = gRun[i].token]
  /\ Advance(i)
  /\ UNCHANGED <<gAttempt, gAuthorized>>

(* StaleGeminiPageClaimError of a success or a failure. *)
StaleClaim(i) ==
  /\ gRun[i].pc = "execute"
  /\ ~PageIsLocked(gRun[i].page)
  /\ ~HoldsClaim(i)
  /\ Enter(i, "stopped")
  /\ UNCHANGED <<gAttempt, gPage, gAuthorized>>

(* persist_gemini_page_failure locks the checkpoint before the attempt,    *)
(* against the order of claims and assembly.                               *)
LockPageForFailure(i) ==
  /\ gRun[i].pc = "execute"
  /\ ~PageIsLocked(gRun[i].page)
  /\ HoldsClaim(i)
  /\ Enter(i, "failing")
  /\ UNCHANGED <<gAttempt, gPage, gAuthorized>>

FailedPage(row) == [row EXCEPT !.status = "FAILED", !.live = FALSE, !.text = 0]

(* Mutant of MissingAfterFailure: the page that fails is left out. *)
MissingOthers(p) == Missing(gPage) \ {p}

(* _missing_page_indices_locked reads the other pages without a lock. *)
MissingAfterFailure(p) == Missing(gPage)

(* The adapter raises EnginePageIncompleteError and tries no later page. *)
PersistGeminiPageFailure(i) ==
  /\ gRun[i].pc = "failing"
  /\ ~AttemptIsLocked
  /\ gPage' = [gPage EXCEPT ![gRun[i].page] = FailedPage(@)]
  /\ gAttempt' = [status |-> "PARTIAL", missing |-> MissingAfterFailure(gRun[i].page)]
  /\ Enter(i, "incomplete")
  /\ UNCHANGED gAuthorized

-----------------------------------------------------------------------------
LockAttemptForAssembly(i) ==
  /\ gRun[i].pc = "assemble"
  /\ ~AttemptIsLocked
  /\ Enter(i, "assembling")
  /\ UNCHANGED <<gAttempt, gPage, gAuthorized>>

(* assemble_gemini_attempt: the texts of all pages in order, or PARTIAL. *)
AssembleGeminiAttempt(i) ==
  LET missing == Missing(gPage)
  IN /\ gRun[i].pc = "assembling"
     /\ \A p \in GeminiPages : ~PageIsLocked(p)
     /\ gAttempt' = [status |-> IF missing = {} THEN "COMPLETED" ELSE "PARTIAL",
                     missing |-> missing]
     /\ gRun' = [gRun EXCEPT ![i].pc = IF missing = {} THEN "done" ELSE "incomplete",
                   ![i].result = IF missing = {}
                                 THEN [p \in GeminiPages |-> gPage[p].text]
                                 ELSE <<>>]
     /\ UNCHANGED <<gPage, gAuthorized>>

Ended == {"done", "incomplete", "stopped"}

(* The worker dies or the database refuses a statement: the transaction    *)
(* rolls back and the run raises, leaving its lease behind.                *)
StopGeminiRun(i) ==
  /\ gRun[i].pc \notin Ended \cup {"idle"}
  /\ Enter(i, "stopped")
  /\ UNCHANGED <<gAttempt, gPage, gAuthorized>>

(* Run i waits for a row that j holds, and j for a row that i holds. *)
Deadlocked(i, j) ==
  /\ gRun[i].pc = "failing"
  /\ \/ gRun[j].pc = "claiming" /\ gRun[j].page = gRun[i].page
     \/ gRun[j].pc = "assembling"

(* Mutant of AbortVictim: nobody breaks the cycle. *)
NoVictim(i) == FALSE

AbortVictim(i) == \E j \in GeminiRuns : Deadlocked(i, j) \/ Deadlocked(j, i)

(* PostgreSQL aborts a transaction of the cycle with a DatabaseError,      *)
(* which becomes EnginePageCheckpointPersistenceRetryableError.            *)
AbortDeadlockedRun(i) ==
  /\ AbortVictim(i)
  /\ Enter(i, "stopped")
  /\ UNCHANGED <<gAttempt, gPage, gAuthorized>>

GeminiRunStep(i) ==
  \/ LockAttemptForClaim(i) \/ ReusePage(i) \/ RefuseClaim(i) \/ ClaimGeminiPage(i)
  \/ PersistGeminiPageSuccess(i) \/ StaleClaim(i)
  \/ LockPageForFailure(i) \/ PersistGeminiPageFailure(i)
  \/ LockAttemptForAssembly(i) \/ AssembleGeminiAttempt(i)
  \/ AbortDeadlockedRun(i)

Next_Gemini ==
  \/ \E i \in GeminiRuns : StartGeminiRun(i) \/ GeminiRunStep(i) \/ StopGeminiRun(i)
  \/ \E p \in GeminiPages : GeminiLeaseExpires(p)
  \/ EndGeminiRequest

Spec_Gemini == Init_Gemini /\ [][Next_Gemini]_gVars

(* A run whose process lives goes on: its provider calls time out and its  *)
(* lock waits end. StopGeminiRun stays possible everywhere.                *)
GeminiFairness == \A i \in GeminiRuns : WF_gVars(GeminiRunStep(i))

-----------------------------------------------------------------------------
(* Properties *)

GeminiPageRow ==
  [status : {"NONE", "RUNNING", "SUCCEEDED", "FAILED"}, token : Nat,
   live : BOOLEAN, text : Nat]
GeminiResult == {<<>>} \cup [GeminiPages -> Nat]
GeminiRunRow ==
  [pc : Ended \cup {"idle", "claim", "claiming", "execute", "failing", "assemble",
                    "assembling"},
   page : GeminiPages \cup {0}, token : Nat, result : GeminiResult]

(* Every row and every program counter has one of its shapes. *)
GeminiTypeOK ==
  /\ gAttempt \in [status : {"NONE", "IN_PROGRESS", "PARTIAL", "COMPLETED"},
                   missing : SUBSET GeminiPages]
  /\ gPage \in [GeminiPages -> GeminiPageRow]
  /\ gRun \in [GeminiRuns -> GeminiRunRow]
  /\ gAuthorized \in GeminiRuns \cup {0}

(* A page that has no text is reported: missing_page_indices, which is     *)
(* computed from unlocked reads and kept by later claims, may name a page  *)
(* that succeeded since but never omits one that has no text. A COMPLETED  *)
(* attempt therefore has the text of every page.                           *)
MissingPagesAreReported ==
  /\ gAttempt.status # "NONE" =>
       \A p \in GeminiPages \ gAttempt.missing :
         gPage[p].status = "SUCCEEDED" /\ gPage[p].text # 0
  /\ gAttempt.status = "COMPLETED" => gAttempt.missing = {}

(* Runs that overlap, were abandoned or outlived their leases all return   *)
(* the same text: the one every page was stored with.                      *)
ResultsAgree ==
  \A i \in GeminiRuns : gRun[i].pc = "done" =>
    /\ gAttempt.status = "COMPLETED"
    /\ gRun[i].result = [p \in GeminiPages |-> gPage[p].text]

(* A success is kept: no later claim, late failure or late success of      *)
(* another run changes a SUCCEEDED page, and nothing reopens a COMPLETED   *)
(* attempt.                                                                *)
SuccessIsKept ==
  [][/\ \A p \in GeminiPages : gPage[p].status = "SUCCEEDED" => gPage'[p] = gPage[p]
     /\ gAttempt.status = "COMPLETED" => gAttempt' = gAttempt]_gVars

HolderSettles(p) ==
  \E i \in GeminiRuns :
    /\ gRun[i].token = gPage[p].token /\ gRun[i].page = p
    /\ gRun[i].pc \in {"execute", "failing"}
    /\ gRun'[i].pc \notin {"execute", "failing"}

(* While the lease of a page is live its row changes only by the run that  *)
(* holds it or by the clock, whatever run staff start meanwhile.           *)
LiveLeaseIsExclusive ==
  [][\A p \in GeminiPages : gPage[p].live /\ gPage'[p] # gPage[p] =>
       gPage'[p] = [gPage[p] EXCEPT !.live = FALSE] \/ HolderSettles(p)]_gVars

(* Runs never wait for one another for ever: a busy page makes a run stop, *)
(* and the lock cycle of a failing and a claiming run is broken by the     *)
(* database.                                                               *)
GeminiRunsEnd == \A i \in GeminiRuns : gRun[i].pc # "idle" ~> gRun[i].pc \in Ended

-----------------------------------------------------------------------------
(* The attempt implements WriteOnce. *)

(* The attempt row answers too: COMPLETED, it stands for all its texts. *)
GeminiTexts ==
  [p \in GeminiPages |-> IF gPage[p].status = "SUCCEEDED" THEN gPage[p].text ELSE 0]
GeminiAnswer(i) ==
  CASE i = 0 /\ gAttempt.status = "COMPLETED" -> GeminiTexts
    [] i # 0 /\ gRun[i].pc = "done" -> gRun[i].result
    [] OTHER -> <<>>

GeminiStore == INSTANCE WriteOnce WITH
  Cells <- GeminiPages, Readers <- GeminiRuns \cup {0}, Empty <- 0, Unanswered <- <<>>,
  cell <- GeminiTexts, answer <- [i \in GeminiRuns \cup {0} |-> GeminiAnswer(i)]

(* No later claim, late failure or late success of another run changes the *)
(* text of a page, nothing reopens a COMPLETED attempt, and every run that *)
(* returns, early or late, returns the one text each page is stored with:  *)
(* GeminiStore!Spec, said of the steps that move something here.           *)
GeminiWritesOnce == GeminiStore!Init /\ [][UNCHANGED gVars \/ GeminiStore!Next]_gVars
=============================================================================
