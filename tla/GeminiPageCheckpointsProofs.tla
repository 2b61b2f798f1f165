-------------------- MODULE GeminiPageCheckpointsProofs --------------------
(***************************************************************************)
(* Theorems about GeminiPageCheckpoints, for any number of pages and of    *)
(* overlapping runs: pages without text are reported, all finished runs    *)
(* return the stored text, a success is kept, a live lease is exclusive,   *)
(* and so the attempt implements WriteOnce. And theorems about             *)
(* GeminiPageCalls, for any number of models and any caps: a page keeps to *)
(* its budget of calls and has its fallback tried.                         *)
(***************************************************************************)
EXTENDS GeminiPageCheckpoints, GeminiPageCalls, TLAPS

(* A run under way has a page to work on and an attempt to work for.       *)
RunsArePlaced ==
  \A i \in GeminiRuns : gRun[i].pc # "idle" =>
    gRun[i].page \in GeminiPages /\ gAttempt.status # "NONE"

(* A run that executes has a lease token, which is never 0.                *)
ExecutingHasToken == \A i \in GeminiRuns : gRun[i].pc \in {"execute", "failing"} =>
                       gRun[i].token # 0

(* The row lock of persist_gemini_page_failure keeps the claim in force    *)
(* while the run waits for the attempt.                                    *)
FailingHoldsPage ==
  /\ \A i \in GeminiRuns : gRun[i].pc = "failing" => HoldsClaim(i)
  /\ \A i, j \in GeminiRuns :
       gRun[i].pc = "failing" /\ gRun[j].pc = "failing" /\ gRun[i].page = gRun[j].page
         => i = j

(* Only RUNNING pages have a live lease, and a SUCCEEDED page has text.    *)
PagesAreSound ==
  \A p \in GeminiPages :
    /\ gPage[p].live => gPage[p].status = "RUNNING"
    /\ gPage[p].status = "SUCCEEDED" => gPage[p].text # 0

GeminiInv ==
  /\ GeminiTypeOK /\ RunsArePlaced /\ ExecutingHasToken /\ FailingHoldsPage
  /\ PagesAreSound /\ MissingPagesAreReported /\ ResultsAgree

------------------------------------------------------------------------------
(* The invariant holds before the attempt exists. *)
LEMMA GeminiInvHoldsInitially == Init_Gemini => GeminiInv
<1> SUFFICES ASSUME Init_Gemini PROVE GeminiInv
  OBVIOUS
<1> USE DEF Init_Gemini, NoGeminiPage
<1>1. GeminiTypeOK
  BY DEF GeminiTypeOK, GeminiPageRow, GeminiRunRow, GeminiResult
<1>2. RunsArePlaced /\ ExecutingHasToken /\ FailingHoldsPage /\ PagesAreSound
  BY DEF RunsArePlaced, ExecutingHasToken, FailingHoldsPage, PagesAreSound
<1>3. MissingPagesAreReported /\ ResultsAgree
  BY DEF MissingPagesAreReported, ResultsAgree
<1> QED
  BY <1>1, <1>2, <1>3 DEF GeminiInv

(* A step that only moves run i to a program counter without a claim and   *)
(* without a result.                                                       *)
QuietStep(i) ==
  /\ gRun[i].pc # "idle"
  /\ \E pc \in {"claim", "claiming", "assemble", "assembling", "stopped"},
        p \in GeminiPages :
       gRun' = [gRun EXCEPT ![i] = [gRun[i] EXCEPT !.pc = pc, !.page = p]]
  /\ UNCHANGED <<gAttempt, gPage, gAuthorized>>

LEMMA QuietStepsKeepGeminiInv ==
  ASSUME GeminiInv, NEW i \in GeminiRuns, QuietStep(i)
  PROVE  GeminiInv'
<1> PICK pc \in {"claim", "claiming", "assemble", "assembling", "stopped"},
         p \in GeminiPages :
      gRun' = [gRun EXCEPT ![i] = [gRun[i] EXCEPT !.pc = pc, !.page = p]]
  BY DEF QuietStep
<1> USE DEF GeminiInv, GeminiTypeOK
<1>1. gAttempt' = gAttempt /\ gPage' = gPage /\ gAuthorized' = gAuthorized
  BY DEF QuietStep
<1>2. /\ \A j \in GeminiRuns \ {i} : gRun'[j] = gRun[j]
      /\ gRun'[i].pc = pc /\ gRun'[i].page = p
  BY DEF GeminiRunRow
<1>3. GeminiTypeOK'
  <2>1. gRun[i] \in GeminiRunRow
    OBVIOUS
  <2>2. [gRun[i] EXCEPT !.pc = pc, !.page = p] \in GeminiRunRow
    BY <2>1 DEF GeminiRunRow, Ended
  <2> QED
    BY <1>1, <2>2
<1>4. RunsArePlaced' /\ ExecutingHasToken'
  BY <1>1, <1>2 DEF RunsArePlaced, ExecutingHasToken, QuietStep
<1>5. FailingHoldsPage'
  BY <1>1, <1>2 DEF FailingHoldsPage, HoldsClaim
<1>6. PagesAreSound' /\ MissingPagesAreReported'
  BY <1>1 DEF PagesAreSound, MissingPagesAreReported
<1>7. ResultsAgree'
  BY <1>1, <1>2 DEF ResultsAgree
<1> QED
  BY <1>3, <1>4, <1>5, <1>6, <1>7

(* Every step of a run that takes no claim, settles no page and assembles  *)
(* nothing is such a step.                                                 *)
LEMMA MovesAreQuiet ==
  ASSUME GeminiInv, NEW i \in GeminiRuns,
         \/ LockAttemptForClaim(i) \/ ReusePage(i) \/ RefuseClaim(i) \/ StaleClaim(i)
         \/ LockAttemptForAssembly(i) \/ StopGeminiRun(i) \/ AbortDeadlockedRun(i)
  PROVE  QuietStep(i)
<1> USE DEF GeminiInv, GeminiTypeOK
<1>1. gRun[i].pc # "idle"
  BY DEF LockAttemptForClaim, ReusePage, RefuseClaim, StaleClaim, LockAttemptForAssembly,
         StopGeminiRun, AbortDeadlockedRun, AbortVictim, Deadlocked
<1>2. gRun[i].page \in GeminiPages /\ gRun[i] \in GeminiRunRow
  BY <1>1 DEF RunsArePlaced
<1>3. CASE ReusePage(i)
  <2> DEFINE p == IF gRun[i].page = GeminiPageCount THEN gRun[i].page ELSE gRun[i].page + 1
             pc == IF gRun[i].page = GeminiPageCount THEN "assemble" ELSE "claim"
  <2>1. p \in GeminiPages
    BY <1>2, GeminiPageCountAssumption DEF GeminiPages
  <2>2. gRun' = [gRun EXCEPT ![i] = [gRun[i] EXCEPT !.pc = pc, !.page = p]]
    BY <1>2, <1>3 DEF ReusePage, Advance
  <2> QED
    BY <1>1, <1>3, <2>1, <2>2 DEF ReusePage, QuietStep
<1>4. CASE ~ReusePage(i)
  <2>1. /\ gRun' = [gRun EXCEPT ![i].pc = "claiming"]
              \/ gRun' = [gRun EXCEPT ![i].pc = "assembling"]
              \/ gRun' = [gRun EXCEPT ![i].pc = "stopped"]
        /\ UNCHANGED <<gAttempt, gPage, gAuthorized>>
    BY <1>4 DEF LockAttemptForClaim, RefuseClaim, StaleClaim, LockAttemptForAssembly,
                StopGeminiRun, AbortDeadlockedRun, Enter
  <2>2. \A pc \in {"claiming", "assembling", "stopped"} :
          [gRun EXCEPT ![i].pc = pc]
            = [gRun EXCEPT ![i] = [gRun[i] EXCEPT !.pc = pc, !.page = gRun[i].page]]
    BY <1>2 DEF GeminiRunRow
  <2> QED
    BY <1>1, <1>2, <2>1, <2>2 DEF QuietStep
<1> QED
  BY <1>3, <1>4

(* Claims take pages without a text, so the reported pages stay right.     *)
LEMMA ClaimKeepsGeminiInv ==
  ASSUME GeminiInv, NEW i \in GeminiRuns, ClaimGeminiPage(i)
  PROVE  GeminiInv'
<1> DEFINE p == gRun[i].page
           token == gPage[p].token + 1
           row == [status |-> "RUNNING", token |-> token, live |-> TRUE, text |-> 0]
<1> USE DEF GeminiInv, GeminiTypeOK
<1>1. /\ gRun[i].pc = "claiming" /\ ~PageIsReusable(p) /\ ~PageIsLocked(p)
      /\ gPage' = [gPage EXCEPT ![p] = row]
      /\ gAttempt' = [gAttempt EXCEPT !.status = "IN_PROGRESS"]
      /\ gRun' = [gRun EXCEPT ![i].pc = "execute", ![i].token = token]
      /\ gAuthorized' = gAuthorized
  BY DEF ClaimGeminiPage
<1>2. /\ p \in GeminiPages /\ gAttempt.status # "NONE" /\ gPage[p] \in GeminiPageRow
      /\ gRun[i] \in GeminiRunRow /\ gPage[p].status # "SUCCEEDED"
  BY <1>1 DEF RunsArePlaced, PageIsReusable
<1>3. token \in Nat \ {0} /\ row \in GeminiPageRow
  BY <1>2 DEF GeminiPageRow
<1>4. /\ gPage'[p] = row /\ \A q \in GeminiPages \ {p} : gPage'[q] = gPage[q]
      /\ gRun'[i].pc = "execute" /\ gRun'[i].page = p /\ gRun'[i].token = token
      /\ \A j \in GeminiRuns \ {i} : gRun'[j] = gRun[j]
      /\ gAttempt'.status = "IN_PROGRESS" /\ gAttempt'.missing = gAttempt.missing
  BY <1>1, <1>2 DEF GeminiRunRow
<1>5. GeminiTypeOK'
  <2>1. [[gRun[i] EXCEPT !.pc = "execute"] EXCEPT !.token = token] \in GeminiRunRow
    BY <1>2, <1>3 DEF GeminiRunRow, Ended
  <2>2. gRun' = [gRun EXCEPT ![i] =
                   [[gRun[i] EXCEPT !.pc = "execute"] EXCEPT !.token = token]]
    BY <1>1, <1>2 DEF GeminiRunRow
  <2> QED
    BY <1>1, <1>3, <2>1, <2>2
<1>6. RunsArePlaced' /\ ExecutingHasToken'
  BY <1>2, <1>3, <1>4 DEF RunsArePlaced, ExecutingHasToken
<1>7. FailingHoldsPage'
  <2>1. \A j \in GeminiRuns : gRun'[j].pc = "failing" =>
          j # i /\ gRun'[j] = gRun[j] /\ gRun[j].page # p
    BY <1>1, <1>4 DEF PageIsLocked
  <2> QED
    BY <1>4, <2>1 DEF FailingHoldsPage, HoldsClaim, RunsArePlaced
<1>8. PagesAreSound'
  BY <1>4 DEF PagesAreSound
<1>9. MissingPagesAreReported'
  BY <1>2, <1>4 DEF MissingPagesAreReported
<1>10. ResultsAgree'
  BY <1>2, <1>4 DEF ResultsAgree, MissingPagesAreReported
<1> QED
  BY <1>5, <1>6, <1>7, <1>8, <1>9, <1>10

(* A success turns a RUNNING page, which every report names, into a page   *)
(* with a text.                                                            *)
LEMMA SuccessKeepsGeminiInv ==
  ASSUME GeminiInv, NEW i \in GeminiRuns, PersistGeminiPageSuccess(i)
  PROVE  GeminiInv'
<1> DEFINE p == gRun[i].page
           q == IF p = GeminiPageCount THEN p ELSE p + 1
           pc == IF p = GeminiPageCount THEN "assemble" ELSE "claim"
<1> USE DEF GeminiInv, GeminiTypeOK
<1>1. /\ gRun[i].pc = "execute" /\ HoldsClaim(i) /\ ~PageIsLocked(p)
      /\ gPage' = [gPage EXCEPT ![p].status = "SUCCEEDED", ![p].live = FALSE,
                                ![p].text = gRun[i].token]
      /\ gRun' = [gRun EXCEPT ![i].page = IF @ = GeminiPageCount THEN @ ELSE @ + 1,
                              ![i].pc = pc]
      /\ gAttempt' = gAttempt /\ gAuthorized' = gAuthorized
  BY DEF PersistGeminiPageSuccess, Advance
<1>2. /\ p \in GeminiPages /\ gAttempt.status # "NONE" /\ gPage[p] \in GeminiPageRow
      /\ gRun[i] \in GeminiRunRow /\ gRun[i].token \in Nat \ {0}
      /\ gPage[p].status = "RUNNING" /\ gPage[p].token = gRun[i].token
  BY <1>1 DEF RunsArePlaced, ExecutingHasToken, HoldsClaim, GeminiRunRow
<1>3. q \in GeminiPages /\ pc \in {"assemble", "claim"}
  BY <1>2, GeminiPageCountAssumption DEF GeminiPages
<1>4. /\ gPage' = [gPage EXCEPT ![p] = [status |-> "SUCCEEDED", token |-> gPage[p].token,
                                        live |-> FALSE, text |-> gRun[i].token]]
      /\ gRun' = [gRun EXCEPT ![i] = [pc |-> pc, page |-> q, token |-> gRun[i].token,
                                      result |-> gRun[i].result]]
  BY <1>1, <1>2 DEF GeminiPageRow, GeminiRunRow
<1>5. GeminiTypeOK'
  BY <1>1, <1>2, <1>3, <1>4 DEF GeminiPageRow, GeminiRunRow, Ended
<1>6. RunsArePlaced' /\ ExecutingHasToken'
  BY <1>1, <1>2, <1>3, <1>4 DEF RunsArePlaced, ExecutingHasToken
<1>7. FailingHoldsPage'
  <2>1. \A j \in GeminiRuns : gRun'[j].pc = "failing" =>
          j # i /\ gRun'[j] = gRun[j] /\ gRun[j].page # p
    BY <1>1, <1>3, <1>4 DEF PageIsLocked
  <2> QED
    BY <1>4, <2>1 DEF FailingHoldsPage, HoldsClaim, RunsArePlaced
<1>8. PagesAreSound'
  BY <1>2, <1>4 DEF PagesAreSound
<1>9. MissingPagesAreReported'
  BY <1>1, <1>2, <1>4 DEF MissingPagesAreReported
<1>10. ResultsAgree'
  BY <1>1, <1>2, <1>3, <1>4 DEF ResultsAgree, MissingPagesAreReported
<1> QED
  BY <1>5, <1>6, <1>7, <1>8, <1>9, <1>10

(* Two row locks are never taken on one page by two failing runs. *)
LEMMA LockPageKeepsGeminiInv ==
  ASSUME GeminiInv, NEW i \in GeminiRuns, LockPageForFailure(i)
  PROVE  GeminiInv'
<1> USE DEF GeminiInv, GeminiTypeOK
<1>1. /\ gRun[i].pc = "execute" /\ HoldsClaim(i) /\ ~PageIsLocked(gRun[i].page)
      /\ gRun' = [gRun EXCEPT ![i].pc = "failing"]
      /\ gPage' = gPage /\ gAttempt' = gAttempt /\ gAuthorized' = gAuthorized
  BY DEF LockPageForFailure, Enter
<1>2. gRun[i] \in GeminiRunRow
  OBVIOUS
<1>3. /\ gRun'[i].pc = "failing" /\ gRun'[i].page = gRun[i].page
      /\ gRun'[i].token = gRun[i].token
      /\ \A j \in GeminiRuns \ {i} : gRun'[j] = gRun[j]
  BY <1>1, <1>2 DEF GeminiRunRow
<1>4. GeminiTypeOK'
  BY <1>1, <1>2 DEF GeminiRunRow
<1>5. RunsArePlaced' /\ ExecutingHasToken'
  BY <1>1, <1>3 DEF RunsArePlaced, ExecutingHasToken
<1>6. FailingHoldsPage'
  BY <1>1, <1>3 DEF FailingHoldsPage, HoldsClaim, PageIsLocked
<1>7. PagesAreSound' /\ MissingPagesAreReported'
  BY <1>1 DEF PagesAreSound, MissingPagesAreReported
<1>8. ResultsAgree'
  BY <1>1, <1>3 DEF ResultsAgree
<1> QED
  BY <1>4, <1>5, <1>6, <1>7, <1>8

(* A failure settles the RUNNING page it locked, and reports every page    *)
(* that has no text.                                                       *)
LEMMA FailureKeepsGeminiInv ==
  ASSUME GeminiInv, NEW i \in GeminiRuns, PersistGeminiPageFailure(i)
  PROVE  GeminiInv'
<1> DEFINE p == gRun[i].page
           missing == {q \in GeminiPages : gPage[q].status # "SUCCEEDED"}
<1> USE DEF GeminiInv, GeminiTypeOK
<1>1. /\ gRun[i].pc = "failing"
      /\ gPage' = [gPage EXCEPT ![p] = FailedPage(gPage[p])]
      /\ gAttempt' = [status |-> "PARTIAL", missing |-> missing]
      /\ gRun' = [gRun EXCEPT ![i].pc = "incomplete"]
      /\ gAuthorized' = gAuthorized
  BY DEF PersistGeminiPageFailure, MissingAfterFailure, Missing, Enter
<1>2. /\ p \in GeminiPages /\ gAttempt.status # "NONE" /\ gPage[p] \in GeminiPageRow
      /\ gRun[i] \in GeminiRunRow /\ gPage[p].status = "RUNNING"
  BY <1>1 DEF RunsArePlaced, FailingHoldsPage, HoldsClaim
<1>3. /\ FailedPage(gPage[p]) \in GeminiPageRow
      /\ FailedPage(gPage[p]).status = "FAILED" /\ FailedPage(gPage[p]).live = FALSE
  BY <1>2 DEF FailedPage, GeminiPageRow
<1>4. /\ gPage'[p] = FailedPage(gPage[p])
      /\ \A q \in GeminiPages \ {p} : gPage'[q] = gPage[q]
      /\ gRun'[i].pc = "incomplete" /\ gRun'[i].page = p
      /\ \A j \in GeminiRuns \ {i} : gRun'[j] = gRun[j]
  BY <1>1, <1>2 DEF GeminiRunRow
<1>5. GeminiTypeOK'
  BY <1>1, <1>2, <1>3 DEF GeminiRunRow, Ended
<1>6. RunsArePlaced' /\ ExecutingHasToken'
  BY <1>1, <1>2, <1>4 DEF RunsArePlaced, ExecutingHasToken
<1>7. FailingHoldsPage'
  <2>1. \A j \in GeminiRuns : gRun'[j].pc = "failing" =>
          j # i /\ gRun'[j] = gRun[j] /\ gRun[j].page # p
    BY <1>1, <1>4 DEF FailingHoldsPage
  <2> QED
    BY <1>4, <2>1 DEF FailingHoldsPage, HoldsClaim, RunsArePlaced
<1>8. PagesAreSound' /\ MissingPagesAreReported'
  BY <1>1, <1>2, <1>3, <1>4 DEF PagesAreSound, MissingPagesAreReported
<1>9. ResultsAgree'
  BY <1>2, <1>4 DEF ResultsAgree, MissingPagesAreReported
<1> QED
  BY <1>5, <1>6, <1>7, <1>8, <1>9

(* Assembly completes the attempt only with the text of every page. *)
LEMMA AssemblyKeepsGeminiInv ==
  ASSUME GeminiInv, NEW i \in GeminiRuns, AssembleGeminiAttempt(i)
  PROVE  GeminiInv'
<1> DEFINE missing == {q \in GeminiPages : gPage[q].status # "SUCCEEDED"}
           texts == [q \in GeminiPages |-> gPage[q].text]
           pc == IF missing = {} THEN "done" ELSE "incomplete"
           result == IF missing = {} THEN texts ELSE <<>>
<1> USE DEF GeminiInv, GeminiTypeOK
<1>1. /\ gRun[i].pc = "assembling"
      /\ gAttempt' = [status |-> IF missing = {} THEN "COMPLETED" ELSE "PARTIAL",
                      missing |-> missing]
      /\ gRun' = [gRun EXCEPT ![i].pc = pc, ![i].result = result]
      /\ gPage' = gPage /\ gAuthorized' = gAuthorized
  BY DEF AssembleGeminiAttempt, Missing
<1>2. gRun[i] \in GeminiRunRow /\ gRun[i].page \in GeminiPages
  BY <1>1 DEF RunsArePlaced
<1>3. texts \in [GeminiPages -> Nat] /\ result \in GeminiResult
  BY DEF GeminiResult, GeminiPageRow
<1> HIDE DEF texts
<1>4. /\ gRun'[i].pc = pc /\ gRun'[i].page = gRun[i].page /\ gRun'[i].result = result
      /\ \A j \in GeminiRuns \ {i} : gRun'[j] = gRun[j]
  <2> HIDE DEF pc, result
  <2> QED
    BY <1>1, <1>2 DEF GeminiRunRow
<1>5. GeminiTypeOK'
  <2>1. pc \in {"done", "incomplete"}
    OBVIOUS
  <2>2. gRun' \in [GeminiRuns -> GeminiRunRow]
    <3> HIDE DEF pc, result
    <3>1. [[gRun[i] EXCEPT !.pc = pc] EXCEPT !.result = result] \in GeminiRunRow
      BY <1>2, <1>3, <2>1 DEF GeminiRunRow, Ended
    <3>2. gRun' = [gRun EXCEPT ![i] =
                     [[gRun[i] EXCEPT !.pc = pc] EXCEPT !.result = result]]
      BY <1>1
    <3> QED
      BY <3>1, <3>2
  <2>3. gAttempt' \in [status : {"NONE", "IN_PROGRESS", "PARTIAL", "COMPLETED"},
                       missing : SUBSET GeminiPages]
    BY <1>1
  <2> QED
    BY <1>1, <2>2, <2>3
<1>6. RunsArePlaced' /\ ExecutingHasToken' /\ FailingHoldsPage'
  <2>1. \A j \in GeminiRuns \ {i} : gRun'[j] = gRun[j]
    BY <1>4
  <2>2. gRun'[i].pc \in {"done", "incomplete"} /\ gRun'[i].page \in GeminiPages
    BY <1>2, <1>4
  <2> QED
    BY <1>1, <2>1, <2>2 DEF RunsArePlaced, ExecutingHasToken, FailingHoldsPage, HoldsClaim
<1>7. PagesAreSound' /\ MissingPagesAreReported'
  BY <1>1 DEF PagesAreSound, MissingPagesAreReported
<1>8. ResultsAgree'
  <2> SUFFICES ASSUME NEW j \in GeminiRuns, gRun'[j].pc = "done"
               PROVE  gAttempt'.status = "COMPLETED" /\ gRun'[j].result = texts
    BY <1>1 DEF ResultsAgree, texts
  <2>1. CASE j = i
    BY <1>1, <1>4, <2>1
  <2>2. CASE j # i
    <3>1. gRun'[j] = gRun[j]
      BY <1>4, <2>2
    <3>2. gAttempt.status = "COMPLETED" /\ gRun[j].result = texts
      BY <3>1 DEF ResultsAgree, texts
    <3>3. missing = {}
      BY <3>2 DEF MissingPagesAreReported
    <3> QED
      BY <1>1, <3>1, <3>2, <3>3
  <2> QED
    BY <2>1, <2>2
<1> QED
  BY <1>5, <1>6, <1>7, <1>8

(* A request that starts opens an attempt that reports every page; its end *)
(* and the clock of a lease change no text.                                *)
LEMMA RequestsAndClocksKeepGeminiInv ==
  ASSUME GeminiInv,
         \/ \E i \in GeminiRuns : StartGeminiRun(i)
         \/ EndGeminiRequest
         \/ \E p \in GeminiPages : GeminiLeaseExpires(p)
  PROVE  GeminiInv'
<1> USE DEF GeminiInv, GeminiTypeOK
<1>1. ASSUME NEW i \in GeminiRuns, StartGeminiRun(i) PROVE GeminiInv'
  <2>1. /\ gRun[i].pc = "idle" /\ gAuthorized' = i /\ gPage' = gPage
        /\ gAttempt' = IF gAttempt.status = "NONE"
                       THEN [status |-> "IN_PROGRESS", missing |-> GeminiPages]
                       ELSE gAttempt
        /\ gRun' = [gRun EXCEPT ![i].pc = "claim", ![i].page = 1]
    BY <1>1 DEF StartGeminiRun
  <2>2. gRun[i] \in GeminiRunRow /\ 1 \in GeminiPages
    BY GeminiPageCountAssumption DEF GeminiPages
  <2>3. /\ gRun'[i].pc = "claim" /\ gRun'[i].page = 1
        /\ \A j \in GeminiRuns \ {i} : gRun'[j] = gRun[j]
    BY <2>1, <2>2 DEF GeminiRunRow
  <2>4. GeminiTypeOK'
    <3>1. gRun' \in [GeminiRuns -> GeminiRunRow]
      <4>1. [[gRun[i] EXCEPT !.pc = "claim"] EXCEPT !.page = 1] \in GeminiRunRow
        BY <2>2 DEF GeminiRunRow, Ended
      <4>2. gRun' = [gRun EXCEPT ![i] = [[gRun[i] EXCEPT !.pc = "claim"] EXCEPT !.page = 1]]
        BY <2>1
      <4> QED
        BY <4>1, <4>2
    <3>2. gAttempt' \in [status : {"NONE", "IN_PROGRESS", "PARTIAL", "COMPLETED"},
                         missing : SUBSET GeminiPages]
      BY <2>1
    <3> QED
      BY <2>1, <3>1, <3>2
  <2>5. gAttempt'.status # "NONE"
    BY <2>1
  <2>6. RunsArePlaced' /\ ExecutingHasToken' /\ FailingHoldsPage'
    BY <2>1, <2>2, <2>3, <2>5
    DEF RunsArePlaced, ExecutingHasToken, FailingHoldsPage, HoldsClaim
  <2>7. PagesAreSound' /\ MissingPagesAreReported'
    BY <2>1 DEF PagesAreSound, MissingPagesAreReported
  <2>8. ResultsAgree'
    BY <2>1, <2>3 DEF ResultsAgree
  <2> QED
    BY <2>4, <2>6, <2>7, <2>8
<1>2. ASSUME EndGeminiRequest PROVE GeminiInv'
  BY <1>2 DEF EndGeminiRequest, RunsArePlaced, ExecutingHasToken, FailingHoldsPage, HoldsClaim,
              PagesAreSound, MissingPagesAreReported, ResultsAgree
<1>3. ASSUME NEW p \in GeminiPages, GeminiLeaseExpires(p) PROVE GeminiInv'
  <2>1. gPage[p] \in GeminiPageRow
    OBVIOUS
  <2>2. /\ gPage' = [gPage EXCEPT ![p] = [gPage[p] EXCEPT !.live = FALSE]]
        /\ gRun' = gRun /\ gAttempt' = gAttempt /\ gAuthorized' = gAuthorized
    BY <1>3 DEF GeminiLeaseExpires
  <2>3. GeminiTypeOK'
    <3>1. [gPage[p] EXCEPT !.live = FALSE] \in GeminiPageRow
      BY <2>1, Zenon DEF GeminiPageRow
    <3> QED
      BY <2>2, <3>1
  <2>4. \A q \in GeminiPages :
          /\ gPage'[q].status = gPage[q].status /\ gPage'[q].token = gPage[q].token
          /\ gPage'[q].text = gPage[q].text /\ (gPage'[q].live => gPage[q].live)
    BY <2>1, <2>2 DEF GeminiPageRow
  <2>5. RunsArePlaced' /\ ExecutingHasToken' /\ FailingHoldsPage'
    BY <2>2, <2>4 DEF RunsArePlaced, ExecutingHasToken, FailingHoldsPage, HoldsClaim
  <2>6. PagesAreSound' /\ MissingPagesAreReported' /\ ResultsAgree'
    BY <2>2, <2>4 DEF PagesAreSound, MissingPagesAreReported, ResultsAgree
  <2> QED
    BY <2>3, <2>5, <2>6
<1> QED
  BY <1>1, <1>2, <1>3

------------------------------------------------------------------------------
(* Every reachable state satisfies the invariant. *)
THEOREM GeminiInvariantHolds == Spec_Gemini => []GeminiInv
<1>1. Init_Gemini => GeminiInv
  BY GeminiInvHoldsInitially
<1>2. ASSUME GeminiInv, [Next_Gemini]_gVars PROVE GeminiInv'
  <2>1. CASE UNCHANGED gVars
    BY <1>2, <2>1
    DEF gVars, GeminiInv, GeminiTypeOK, RunsArePlaced, ExecutingHasToken, FailingHoldsPage,
        HoldsClaim, PagesAreSound, MissingPagesAreReported, ResultsAgree
  <2>2. ASSUME NEW i \in GeminiRuns, GeminiRunStep(i) \/ StopGeminiRun(i) PROVE GeminiInv'
    BY <1>2, <2>2, MovesAreQuiet, QuietStepsKeepGeminiInv, ClaimKeepsGeminiInv,
       SuccessKeepsGeminiInv, LockPageKeepsGeminiInv, FailureKeepsGeminiInv,
       AssemblyKeepsGeminiInv
    DEF GeminiRunStep
  <2>3. CASE \/ \E i \in GeminiRuns : StartGeminiRun(i)
             \/ EndGeminiRequest
             \/ \E p \in GeminiPages : GeminiLeaseExpires(p)
    BY <1>2, <2>3, RequestsAndClocksKeepGeminiInv
  <2> QED
    BY <1>2, <2>1, <2>2, <2>3 DEF Next_Gemini
<1> QED
  BY <1>1, <1>2, PTL DEF Spec_Gemini

(* A page without a text is always among missing_page_indices, although    *)
(* _missing_page_indices_locked reads the other pages without their locks. *)
THEOREM GeminiPagesAreReported == Spec_Gemini => []MissingPagesAreReported
<1>1. GeminiInv => MissingPagesAreReported
  BY DEF GeminiInv
<1> QED
  BY <1>1, GeminiInvariantHolds, PTL

(* However runs overlap, assemble_gemini_attempt gives each the same text. *)
THEOREM GeminiResultsAgree == Spec_Gemini => []ResultsAgree
<1>1. GeminiInv => ResultsAgree
  BY DEF GeminiInv
<1> QED
  BY <1>1, GeminiInvariantHolds, PTL

(* What a step may do to the rows: under the invariant only a claim, a     *)
(* settlement or a lease's expiry changes a page.                          *)
LEMMA PageChanges ==
  ASSUME GeminiInv, [Next_Gemini]_gVars
  PROVE  \/ gPage' = gPage
         \/ \E i \in GeminiRuns : ClaimGeminiPage(i) \/ PersistGeminiPageSuccess(i)
                                    \/ PersistGeminiPageFailure(i)
         \/ \E p \in GeminiPages : GeminiLeaseExpires(p)
  BY MovesAreQuiet
  DEF Next_Gemini, GeminiRunStep, gVars, StartGeminiRun, EndGeminiRequest, QuietStep,
      LockPageForFailure, AssembleGeminiAttempt

LEMMA SuccessIsKeptByStep ==
  ASSUME GeminiInv, [Next_Gemini]_gVars
  PROVE  /\ \A p \in GeminiPages : gPage[p].status = "SUCCEEDED" => gPage'[p] = gPage[p]
         /\ gAttempt.status = "COMPLETED" => gAttempt' = gAttempt
<1> USE DEF GeminiInv, GeminiTypeOK
<1>1. ASSUME NEW p \in GeminiPages, gPage[p].status = "SUCCEEDED"
      PROVE  gPage'[p] = gPage[p]
  <2>1. ASSUME NEW i \in GeminiRuns, ClaimGeminiPage(i) PROVE gPage'[p] = gPage[p]
    BY <1>1, <2>1 DEF ClaimGeminiPage, PageIsReusable
  <2>2. ASSUME NEW i \in GeminiRuns, PersistGeminiPageSuccess(i)
        PROVE  gPage'[p] = gPage[p]
    BY <1>1, <2>2 DEF PersistGeminiPageSuccess, HoldsClaim
  <2>3. ASSUME NEW i \in GeminiRuns, PersistGeminiPageFailure(i)
        PROVE  gPage'[p] = gPage[p]
    BY <1>1, <2>3 DEF PersistGeminiPageFailure, FailingHoldsPage, HoldsClaim
  <2>4. ASSUME NEW q \in GeminiPages, GeminiLeaseExpires(q) PROVE gPage'[p] = gPage[p]
    BY <1>1, <2>4 DEF GeminiLeaseExpires, PagesAreSound
  <2> QED
    BY <2>1, <2>2, <2>3, <2>4, PageChanges
<1>2. ASSUME gAttempt.status = "COMPLETED" PROVE gAttempt' = gAttempt
  <2>1. \A p \in GeminiPages : gPage[p].status = "SUCCEEDED"
    BY <1>2 DEF MissingPagesAreReported
  <2>2. ASSUME NEW i \in GeminiRuns PROVE ~ClaimGeminiPage(i)
    BY <2>1 DEF ClaimGeminiPage, PageIsReusable, RunsArePlaced
  <2>3. ASSUME NEW i \in GeminiRuns PROVE ~PersistGeminiPageFailure(i)
    BY <2>1 DEF PersistGeminiPageFailure, FailingHoldsPage, HoldsClaim, RunsArePlaced
  <2>4. ASSUME NEW i \in GeminiRuns, AssembleGeminiAttempt(i) PROVE gAttempt' = gAttempt
    <3>1. Missing(gPage) = {} /\ gAttempt.missing = {}
      BY <1>2, <2>1 DEF Missing, MissingPagesAreReported
    <3>2. gAttempt' = [status |-> "COMPLETED", missing |-> {}]
      BY <2>4, <3>1 DEF AssembleGeminiAttempt
    <3> QED
      BY <1>2, <3>1, <3>2
  <2>5. \A i \in GeminiRuns : StartGeminiRun(i) => gAttempt' = gAttempt
    BY <1>2 DEF StartGeminiRun
  <2>6. \A i \in GeminiRuns :
          \/ PersistGeminiPageSuccess(i) \/ LockPageForFailure(i)
          \/ LockAttemptForClaim(i) \/ ReusePage(i) \/ RefuseClaim(i) \/ StaleClaim(i)
          \/ LockAttemptForAssembly(i) \/ StopGeminiRun(i) \/ AbortDeadlockedRun(i)
          => gAttempt' = gAttempt
    BY MovesAreQuiet DEF PersistGeminiPageSuccess, LockPageForFailure, QuietStep
  <2> QED
    BY <2>2, <2>3, <2>4, <2>5, <2>6
    DEF Next_Gemini, GeminiRunStep, gVars, GeminiLeaseExpires, EndGeminiRequest
<1> QED
  BY <1>1, <1>2

(* No late or later run replaces a SUCCEEDED page or reopens a COMPLETED   *)
(* attempt (claim_gemini_page, persist_gemini_page_failure).               *)
THEOREM GeminiSuccessIsKept == Spec_Gemini => SuccessIsKept
<1> QED
  BY SuccessIsKeptByStep, GeminiInvariantHolds, PTL DEF Spec_Gemini, SuccessIsKept

(* A run that returned its texts is over.                                  *)
LEMMA DoneStays ==
  ASSUME GeminiInv, [Next_Gemini]_gVars, NEW i \in GeminiRuns, gRun[i].pc = "done"
  PROVE  gRun'[i].pc = "done"
<1> USE DEF GeminiInv, GeminiTypeOK
<1>1. CASE gRun' = gRun
  BY <1>1
<1>2. ASSUME NEW j \in GeminiRuns, StartGeminiRun(j) PROVE gRun'[i] = gRun[i]
  BY <1>2 DEF StartGeminiRun
<1>3. ASSUME NEW j \in GeminiRuns,
             \/ LockAttemptForClaim(j) \/ ReusePage(j) \/ RefuseClaim(j) \/ StaleClaim(j)
             \/ LockAttemptForAssembly(j) \/ StopGeminiRun(j) \/ AbortDeadlockedRun(j)
      PROVE  gRun'[i] = gRun[i]
  <2>1. gRun[j].pc # "done"
    BY <1>3
    DEF LockAttemptForClaim, ReusePage, RefuseClaim, StaleClaim, LockAttemptForAssembly,
        StopGeminiRun, AbortDeadlockedRun, AbortVictim, Deadlocked, Ended
  <2> QED
    BY <1>3, <2>1, MovesAreQuiet DEF QuietStep
<1>4. ASSUME NEW j \in GeminiRuns,
             \/ ClaimGeminiPage(j) \/ PersistGeminiPageSuccess(j) \/ LockPageForFailure(j)
             \/ PersistGeminiPageFailure(j) \/ AssembleGeminiAttempt(j)
      PROVE  gRun'[i] = gRun[i]
  <2>1. gRun[j].pc # "done"
    BY <1>4
    DEF ClaimGeminiPage, PersistGeminiPageSuccess, LockPageForFailure,
        PersistGeminiPageFailure, AssembleGeminiAttempt
  <2>2. \A k \in GeminiRuns \ {j} : gRun'[k] = gRun[k]
    BY <1>4
    DEF ClaimGeminiPage, PersistGeminiPageSuccess, LockPageForFailure,
        PersistGeminiPageFailure, AssembleGeminiAttempt, Advance, Enter
  <2> QED
    BY <2>1, <2>2
<1> QED
  BY <1>1, <1>2, <1>3, <1>4
  DEF Next_Gemini, GeminiRunStep, gVars, GeminiLeaseExpires, EndGeminiRequest

(* The runs that share an attempt and its rows act as one store that is    *)
(* written once: whichever of them stores a page, whichever assembles, and *)
(* however late, each page has one text and every answer is made of them   *)
(* (persist_gemini_page_success, assemble_gemini_attempt).                 *)
THEOREM GeminiImplementsWriteOnce == Spec_Gemini => GeminiStore!Spec /\ GeminiWritesOnce
<1> DEFINE AllStored == \A p \in GeminiPages : GeminiTexts[p] # 0
<1>1. Init_Gemini => GeminiStore!Init
  <2> SUFFICES ASSUME Init_Gemini PROVE GeminiStore!Init
    OBVIOUS
  <2>1. GeminiTexts = [p \in GeminiPages |-> 0]
    BY DEF Init_Gemini, NoGeminiPage, GeminiTexts
  <2>2. \A i \in GeminiRuns \cup {0} : GeminiAnswer(i) = <<>>
    BY DEF Init_Gemini, GeminiAnswer
  <2> QED
    BY <2>1, <2>2 DEF GeminiStore!Init
<1>2. ASSUME GeminiInv, gAttempt.status = "COMPLETED"
      PROVE  \A p \in GeminiPages : gPage[p].status = "SUCCEEDED" /\ GeminiTexts[p] # 0
  BY <1>2 DEF GeminiInv, MissingPagesAreReported, GeminiTexts
<1>3. ASSUME GeminiInv, NEW i \in GeminiRuns, gRun[i].pc = "done"
      PROVE  gAttempt.status = "COMPLETED" /\ gRun[i].result = GeminiTexts
  BY <1>2, <1>3 DEF GeminiInv, ResultsAgree, GeminiTexts
<1>4. ASSUME GeminiInv, GeminiInv', [Next_Gemini]_gVars
      PROVE  GeminiStore!Next
  <2>1. /\ \A p \in GeminiPages : gPage[p].status = "SUCCEEDED" => gPage'[p] = gPage[p]
        /\ gAttempt.status = "COMPLETED" => gAttempt' = gAttempt
    BY <1>4, SuccessIsKeptByStep
  <2>2. \A p \in GeminiPages : GeminiTexts[p] # 0 => GeminiTexts'[p] = GeminiTexts[p]
    BY <2>1 DEF GeminiTexts
  <2>3. gAttempt.status = "COMPLETED" => GeminiTexts' = GeminiTexts
    BY <1>2, <1>4, <2>2 DEF GeminiTexts
  <2>4. gAttempt'.status = "COMPLETED" => AllStored'
    BY <1>4 DEF GeminiInv, MissingPagesAreReported, GeminiTexts
  <2>5. ASSUME NEW i \in GeminiRuns, gRun'[i].pc = "done"
        PROVE  gAttempt'.status = "COMPLETED" /\ gRun'[i].result = GeminiTexts'
    BY <1>4, <2>4, <2>5 DEF GeminiInv, MissingPagesAreReported, ResultsAgree, GeminiTexts
  <2>6. ASSUME NEW i \in GeminiRuns \cup {0}
        PROVE  \/ GeminiAnswer(i)' = GeminiAnswer(i)
               \/ GeminiAnswer(i) = <<>> /\ AllStored' /\ GeminiAnswer(i)' = GeminiTexts'
    <3>1. CASE i = 0
      BY <2>1, <2>3, <2>4, <3>1 DEF GeminiAnswer
    <3>2. CASE i \in GeminiRuns
      <4>1. i # 0
        BY <3>2 DEF GeminiRuns
      <4>2. CASE gRun[i].pc = "done"
        <5>1. gRun'[i].pc = "done" /\ GeminiAnswer(i) = GeminiTexts
          BY <1>3, <1>4, <3>2, <4>1, <4>2, DoneStays DEF GeminiAnswer
        <5>2. GeminiAnswer(i)' = GeminiTexts' /\ GeminiTexts' = GeminiTexts
          BY <1>3, <1>4, <2>3, <2>5, <3>2, <4>1, <4>2, <5>1 DEF GeminiAnswer
        <5> QED
          BY <5>1, <5>2
      <4>3. CASE gRun[i].pc # "done" /\ gRun'[i].pc = "done"
        BY <2>4, <2>5, <3>2, <4>1, <4>3 DEF GeminiAnswer
      <4>4. CASE gRun[i].pc # "done" /\ gRun'[i].pc # "done"
        BY <4>1, <4>4 DEF GeminiAnswer
      <4> QED
        BY <4>2, <4>3, <4>4
    <3> QED
      BY <3>1, <3>2
  <2>7. GeminiStore!Write
    BY <2>2 DEF GeminiStore!Write, GeminiTexts
  <2>8. GeminiStore!Answer
    BY <2>6 DEF GeminiStore!Answer, GeminiStore!Whole, GeminiStore!Contents, GeminiTexts
  <2> QED
    BY <2>7, <2>8 DEF GeminiStore!Next
<1> QED
  BY <1>1, <1>4, GeminiInvariantHolds, PTL DEF Spec_Gemini, GeminiWritesOnce, GeminiStore!Spec

(* Staff may start another run while an old one is still executing: it     *)
(* does not touch a page whose lease is live.                              *)
THEOREM GeminiLiveLeaseIsExclusive == Spec_Gemini => LiveLeaseIsExclusive
<1>1. ASSUME GeminiInv, [Next_Gemini]_gVars, NEW p \in GeminiPages, gPage[p].live,
             gPage'[p] # gPage[p]
      PROVE  gPage'[p] = [gPage[p] EXCEPT !.live = FALSE] \/ HolderSettles(p)
  <2> USE DEF GeminiInv, GeminiTypeOK
  <2>1. ASSUME NEW i \in GeminiRuns, ClaimGeminiPage(i) PROVE FALSE
    BY <1>1, <2>1 DEF ClaimGeminiPage, PageIsBusy, PagesAreSound
  <2>2. ASSUME NEW i \in GeminiRuns, PersistGeminiPageSuccess(i) PROVE HolderSettles(p)
    <3>1. gRun[i].page = p
      BY <1>1, <2>2 DEF PersistGeminiPageSuccess
    <3>2. gRun'[i].pc \in {"assemble", "claim"}
      BY <1>1, <2>2 DEF PersistGeminiPageSuccess, Advance, GeminiRunRow
    <3> QED
      BY <1>1, <2>2, <3>1, <3>2 DEF PersistGeminiPageSuccess, HoldsClaim, HolderSettles
  <2>3. ASSUME NEW i \in GeminiRuns, PersistGeminiPageFailure(i) PROVE HolderSettles(p)
    <3>1. gRun[i].page = p
      BY <1>1, <2>3 DEF PersistGeminiPageFailure
    <3>2. gRun'[i].pc = "incomplete"
      BY <1>1, <2>3 DEF PersistGeminiPageFailure, Enter, GeminiRunRow
    <3> QED
      BY <1>1, <2>3, <3>1, <3>2 DEF PersistGeminiPageFailure, FailingHoldsPage, HoldsClaim,
                           HolderSettles
  <2>4. ASSUME NEW q \in GeminiPages, GeminiLeaseExpires(q)
        PROVE  gPage'[p] = [gPage[p] EXCEPT !.live = FALSE]
    BY <1>1, <2>4 DEF GeminiLeaseExpires
  <2> QED
    BY <1>1, <2>1, <2>2, <2>3, <2>4, PageChanges
<1>2. ASSUME GeminiInv, [Next_Gemini]_gVars
      PROVE  [\A p \in GeminiPages : gPage[p].live /\ gPage'[p] # gPage[p] =>
                gPage'[p] = [gPage[p] EXCEPT !.live = FALSE] \/ HolderSettles(p)]_gVars
  BY <1>1, <1>2
<1> QED
  BY <1>2, GeminiInvariantHolds, PTL DEF Spec_Gemini, LiveLeaseIsExclusive

------------------------------------------------------------------------------
(* The calls of a page so far: its window and, once Gemini gave the page   *)
(* up, the calls of OpenAI and of the crops.                               *)
WindowIsSpent(c) ==
  /\ c.tries < c.max /\ c.max <= c.left /\ c.reserve < c.max /\ c.extra = 0
  /\ c.route \in FallbackRoutes => c.calls + c.left = PageMaxProviderCalls + c.tries
  /\ c.route = "default" =>
       c.left = PageMaxProviderCalls
       /\ c.calls <= PageMaxProviderCalls * (c.model - 1) + c.tries

CropsAreSpent(c) ==
  /\ c.crop \in {1, 2}
  /\ c.crop = 1 => c.extra <= c.model - 1
  /\ c.crop = 2 => c.extra <= c.models + c.model - 1

(* The first model keeps a call for the second one, unless plain retries   *)
(* spent it.                                                               *)
FirstWindow(c) ==
  /\ c.left = PageMaxProviderCalls /\ c.calls = c.tries
  /\ c.route = "hebrew_general" => c.max = 1
  /\ c.route = "primary_then_36" =>
       c.max = PageMaxProviderCalls /\ c.reserve = 1 /\ (c.tries = 2 => c.plain)

BudgetOf(c) ==
  IF c.route \in FallbackRoutes THEN PageMaxProviderCalls
  ELSE PageMaxProviderCalls * c.models

PageInvariant(c) ==
  /\ c.model <= c.models
  /\ c.openai \/ c.pc \in {"openai", "crop", "latin"} => c.route = "hebrew_printed"
  /\ c.pc = "call" => WindowIsSpent(c)
  /\ c.pc = "call" /\ c.model = 1 /\ c.models > 1 => FirstWindow(c)
  /\ c.pc # "call" => c.calls <= BudgetOf(c) /\ c.extra <= 2 * c.models + 1
  /\ c.pc = "openai" => c.extra = 0
  /\ c.pc = "crop" => CropsAreSpent(c)
  /\ c.pc = "latin" => c.crop = 2 /\ c.extra <= 2 * c.models
  /\ /\ c.pc = "failed" /\ c.route \in {"hebrew_general", "primary_then_36"}
     /\ c.model = 1 /\ c.models > 1 /\ c.last \in {"MAX_TOKENS", "RECITATION"}
     => c.plain /\ c.calls = PageMaxProviderCalls

CallsInvariant == CallsTypeOK /\ PageInvariant(gc)

PageRecord ==
  [route : PageRoutes, models : 1..GeminiModelCount, openai : BOOLEAN,
   pc : {"call", "openai", "crop", "latin", "succeeded", "failed"},
   model : 1..GeminiModelCount, left : 0..PageMaxProviderCalls,
   tries : 0..PageMaxProviderCalls, plain : BOOLEAN, max : 1..PageMaxProviderCalls,
   reserve : {0, 1}, cap : 1..GeminiHardCap, start : 1..GeminiHardCap,
   last : Answers \cup {"none"}, calls : Nat, extra : Nat, crop : 0..2,
   hebrew : BOOLEAN]

LEMMA NextCapIsBounded ==
  ASSUME NEW cap \in 1..GeminiHardCap
  PROVE  NextCap(cap) = 0 \/ NextCap(cap) \in 1..GeminiHardCap
BY GeminiCapsAssumption DEF NextCap, MinEscalatedOutputTokens

(* What the call just made leaves behind. *)
LEMMA SpentCall ==
  ASSUME gc \in PageRecord, PageInvariant(gc), gc.pc = "call", NEW answer \in Answers
  PROVE  /\ SpendCall(answer) \in PageRecord
         /\ SpendCall(answer).calls = gc.calls + 1
         /\ SpendCall(answer).tries = gc.tries + 1
         /\ SpendCall(answer).last = answer
         /\ SpendCall(answer) = [gc EXCEPT !.calls = gc.calls + 1, !.tries = gc.tries + 1,
                                           !.last = answer]
         /\ SpendCall(answer).route = gc.route /\ SpendCall(answer).models = gc.models
         /\ SpendCall(answer).openai = gc.openai /\ SpendCall(answer).pc = "call"
         /\ SpendCall(answer).model = gc.model /\ SpendCall(answer).left = gc.left
         /\ SpendCall(answer).plain = gc.plain /\ SpendCall(answer).max = gc.max
         /\ SpendCall(answer).reserve = gc.reserve /\ SpendCall(answer).extra = gc.extra
<1>1. gc.tries + 1 \in 0..PageMaxProviderCalls /\ gc.calls + 1 \in Nat
  BY DEF PageRecord, PageInvariant, WindowIsSpent, PageMaxProviderCalls
<1>2. SpendCall(answer) = [gc EXCEPT !.calls = gc.calls + 1, !.tries = gc.tries + 1,
                                     !.last = answer]
  BY DEF PageRecord, SpendCall
<1>3. SpendCall(answer) \in PageRecord
  BY <1>1, <1>2, ZenonT(60) DEF PageRecord
<1>4. QED
  BY <1>2, <1>3 DEF PageRecord

(* The window that a model gets. *)
LEMMA CandidateWindow ==
  ASSUME NEW c \in PageRecord, NEW model \in 1..c.models, c.models <= GeminiModelCount,
         NEW left \in 1..PageMaxProviderCalls, NEW cap \in 1..GeminiHardCap
  PROVE  LET d == Candidate(c, model, left, cap) IN
         /\ d \in PageRecord
         /\ d.pc = "call" /\ d.model = model /\ d.left = left /\ d.tries = 0
         /\ d.max = MaxCalls(c.route, model, left)
         /\ d.reserve = ReservedCalls(c.route, model, c.models, left)
         /\ d.max <= left /\ d.reserve < d.max
         /\ d.route = c.route /\ d.models = c.models /\ d.openai = c.openai
         /\ d.calls = c.calls /\ d.extra = c.extra
<1> DEFINE d == Candidate(c, model, left, cap)
           m == MaxCalls(c.route, model, left)
           n == ReservedCalls(c.route, model, c.models, left)
<1>1. m \in 1..PageMaxProviderCalls /\ m <= left /\ n \in {0, 1} /\ n < m
  BY DEF MaxCalls, ReservedCalls, PageMaxProviderCalls
<1>2. model \in 1..GeminiModelCount /\ left \in 0..PageMaxProviderCalls
  BY GeminiCapsAssumption DEF PageRecord, PageMaxProviderCalls
<1>3. d = [c EXCEPT !.pc = "call", !.model = model, !.left = left, !.cap = cap,
                    !.start = cap, !.tries = 0, !.plain = FALSE, !.max = m, !.reserve = n]
  BY DEF Candidate
<1> HIDE DEF m, n, d
<1>4. 0 \in 0..PageMaxProviderCalls /\ FALSE \in BOOLEAN
  BY DEF PageMaxProviderCalls
<1>5. d \in PageRecord
  BY <1>1, <1>2, <1>3, <1>4 DEF PageRecord
<1>6. /\ d.pc = "call" /\ d.model = model /\ d.left = left /\ d.tries = 0
      /\ d.max = m /\ d.reserve = n
      /\ d.route = c.route /\ d.models = c.models /\ d.openai = c.openai
      /\ d.calls = c.calls /\ d.extra = c.extra
  BY <1>3 DEF PageRecord
<1>7. QED
  BY <1>1, <1>5, <1>6 DEF d, m, n

LEMMA InitHasBudget == Init_Calls => CallsInvariant
<1> SUFFICES ASSUME NEW route \in PageRoutes, NEW models \in 1..GeminiModelCount,
                    NEW openai \in IF route = "hebrew_printed" THEN BOOLEAN ELSE {FALSE},
                    gc = NewPage(route, models, openai)
             PROVE  CallsInvariant
  BY DEF Init_Calls
<1> DEFINE c == [route |-> route, models |-> models, openai |-> openai, pc |-> "call",
                 model |-> 1, left |-> PageMaxProviderCalls, tries |-> 0,
                 plain |-> FALSE, max |-> 1, reserve |-> 0, cap |-> GeminiStartCap,
                 start |-> GeminiStartCap, last |-> "none", calls |-> 0, extra |-> 0,
                 crop |-> 0, hebrew |-> FALSE]
<1>1. /\ 1 \in 1..models /\ 1 \in 1..GeminiModelCount /\ models <= GeminiModelCount
      /\ PageMaxProviderCalls = 3 /\ GeminiStartCap \in 1..GeminiHardCap
  BY GeminiCapsAssumption DEF PageMaxProviderCalls
<1>8. openai \in BOOLEAN /\ (openai => route = "hebrew_printed")
  <2>1. CASE route = "hebrew_printed"
    BY <2>1
  <2>2. CASE route # "hebrew_printed"
    BY <2>2
  <2>3. QED
    BY <2>1, <2>2
<1>2. c \in PageRecord
  BY <1>1, <1>8 DEF PageRecord
<1>3. /\ c.route = route /\ c.models = models /\ c.openai = openai
      /\ c.calls = 0 /\ c.extra = 0
  OBVIOUS
<1>4. gc = Candidate(c, 1, PageMaxProviderCalls, GeminiStartCap)
  BY DEF NewPage
<1> HIDE DEF c
<1>5. /\ gc \in PageRecord
      /\ gc.pc = "call" /\ gc.model = 1 /\ gc.left = 3 /\ gc.tries = 0
      /\ gc.max = MaxCalls(route, 1, 3) /\ gc.reserve = ReservedCalls(route, 1, models, 3)
      /\ gc.reserve < gc.max /\ gc.max <= 3
      /\ gc.route = route /\ gc.models = models /\ gc.openai = openai
      /\ gc.calls = 0 /\ gc.extra = 0
  BY <1>1, <1>2, <1>3, <1>4, CandidateWindow
<1>6. WindowIsSpent(gc)
  BY <1>1, <1>5 DEF WindowIsSpent, PageMaxProviderCalls, PageRecord
<1>9. models > 1 => FirstWindow(gc)
  BY <1>1, <1>5 DEF FirstWindow, MaxCalls, ReservedCalls, PageMaxProviderCalls
<1>10. PageInvariant(gc)
  BY <1>1, <1>5, <1>6, <1>8, <1>9 DEF PageInvariant
<1>7. QED
  BY <1>5, <1>10 DEF CallsInvariant, CallsTypeOK, PageRecord

(* A retry stays inside the window. *)
LEMMA RetryKeepsBudget ==
  ASSUME gc \in PageRecord, PageInvariant(gc), RetrySameModel
  PROVE  gc' \in PageRecord /\ PageInvariant(gc')
<1>1. PICK answer \in Answers :
        /\ gc.pc = "call" /\ Retries(gc, answer)
        /\ gc' = [SpendCall(answer) EXCEPT !.cap = RetryCap(gc, answer),
                                           !.plain = @ \/ answer # "MAX_TOKENS"]
  BY DEF RetrySameModel
<1> DEFINE s == SpendCall(answer)
<1>2. /\ s \in PageRecord /\ s.calls = gc.calls + 1 /\ s.tries = gc.tries + 1
      /\ s.last = answer /\ s.route = gc.route /\ s.models = gc.models
      /\ s.openai = gc.openai /\ s.pc = "call" /\ s.model = gc.model /\ s.left = gc.left
      /\ s.plain = gc.plain /\ s.max = gc.max /\ s.reserve = gc.reserve
      /\ s.extra = gc.extra
  BY <1>1, SpentCall
<1>3. RetryCap(gc, answer) \in 1..GeminiHardCap
  BY <1>1, NextCapIsBounded DEF Retries, RetryCap, PageRecord
<1> DEFINE plain == gc.plain \/ answer # "MAX_TOKENS"
<1>4. gc' = [s EXCEPT !.cap = RetryCap(gc, answer), !.plain = plain]
  BY <1>1, <1>2
<1>5. plain \in BOOLEAN
  BY DEF PageRecord
<1> HIDE DEF s, plain
<1>6. gc' \in PageRecord
  BY <1>2, <1>3, <1>4, <1>5 DEF PageRecord
<1>7. /\ gc'.calls = gc.calls + 1 /\ gc'.tries = gc.tries + 1
      /\ gc'.route = gc.route /\ gc'.models = gc.models
      /\ gc'.openai = gc.openai /\ gc'.pc = "call" /\ gc'.model = gc.model
      /\ gc'.left = gc.left /\ gc'.plain = plain /\ gc'.max = gc.max
      /\ gc'.reserve = gc.reserve /\ gc'.extra = gc.extra
  BY <1>2, <1>4 DEF PageRecord
<1>8. gc.tries + 1 < gc.max
  BY <1>1 DEF Retries, PageRecord
<1>9. /\ gc'.model <= gc'.models
      /\ gc'.openai => gc'.route = "hebrew_printed"
  BY <1>7 DEF PageInvariant
<1>10. WindowIsSpent(gc')
  BY <1>1, <1>7, <1>8 DEF PageInvariant, WindowIsSpent, PageRecord, PageMaxProviderCalls
<1>11. gc.model = 1 /\ gc.models > 1 => FirstWindow(gc')
  <2>1. answer = "MAX_TOKENS" => gc.max - (gc.tries + 1) > gc.reserve
    BY <1>1 DEF Retries
  <2>2. answer # "MAX_TOKENS" => gc'.plain
    BY <1>7 DEF plain
  <2>3. QED
    BY <1>1, <1>7, <1>8, <2>1, <2>2
    DEF PageInvariant, FirstWindow, PageRecord, PageMaxProviderCalls
<1>12. QED
  BY <1>6, <1>7, <1>9, <1>10, <1>11 DEF PageInvariant

(* An engine error that hands the page on was charged for all its calls.   *)
LEMMA ChargedInFull ==
  ASSUME gc \in PageRecord, PageInvariant(gc), gc.pc = "call", NEW answer \in Answers,
         NEW counts429 \in BOOLEAN,
         Decision(gc, answer, counts429) \in {"next_after_quota", "next_after_code"}
  PROVE  /\ answer # "API_ERROR" /\ HasNextModel(gc)
         /\ LeftAfter(gc, answer) = gc.left - (gc.tries + 1)
         /\ gc.route # "default" => LeftAfter(gc, answer) \in 1..PageMaxProviderCalls
         /\ gc.route = "default" => Decision(gc, answer, counts429) = "next_after_quota"
<1>1. ASSUME Decision(gc, answer, counts429) = "next_after_quota"
      PROVE  QuotaTakesNext(gc, answer) /\ LooksLikeQuota(answer, counts429)
  BY <1>1 DEF Decision
<1>2. ASSUME Decision(gc, answer, counts429) = "next_after_code"
      PROVE  CodeTakesNext(gc, answer)
  BY <1>2 DEF Decision
<1>3. answer \in FallbackCodes(gc.route) => answer \in {"MAX_TOKENS", "RECITATION"}
  BY DEF FallbackCodes
<1>4. answer # "API_ERROR" /\ HasNextModel(gc)
  BY <1>1, <1>2, <1>3
  DEF QuotaTakesNext, CodeTakesNext, LooksLikeQuota, QuotaErrors, ResponseErrors
<1>5. LeftAfter(gc, answer) = gc.left - (gc.tries + 1)
  BY <1>4 DEF LeftAfter, CallsUsed, PageInvariant, WindowIsSpent, PageRecord
<1>6. gc.route # "default" => LeftAfter(gc, answer) > 0
  BY <1>1, <1>2 DEF QuotaTakesNext, CodeTakesNext
<1>7. gc.route # "default" => LeftAfter(gc, answer) \in 1..PageMaxProviderCalls
  BY <1>5, <1>6 DEF PageRecord, PageMaxProviderCalls
<1>8. gc.route = "default" => Decision(gc, answer, counts429) = "next_after_quota"
  BY <1>2 DEF CodeTakesNext, FallbackCodes, RecitationRoutes
<1>9. QED
  BY <1>4, <1>5, <1>7, <1>8

(* The next model gets what is left, or a budget of its own. *)
LEMMA NextModelKeepsBudget ==
  ASSUME gc \in PageRecord, PageInvariant(gc), TakeNextModel
  PROVE  gc' \in PageRecord /\ PageInvariant(gc')
<1>1. PICK answer \in Answers, counts429 \in BOOLEAN :
        /\ Raised(answer)
        /\ \/ /\ Decision(gc, answer, counts429) = "next_after_quota"
              /\ gc' = IF gc.route = "default"
                       THEN Candidate(SpendCall(answer), gc.model + 1,
                                      PageMaxProviderCalls, GeminiStartCap)
                       ELSE Candidate(SpendCall(answer), gc.model + 1,
                                      LeftAfter(gc, answer), gc.start)
           \/ /\ Decision(gc, answer, counts429) = "next_after_code"
              /\ gc' = Candidate(SpendCall(answer), gc.model + 1,
                                 LeftAfter(gc, answer), gc.cap)
  BY DEF TakeNextModel
<1> DEFINE s == SpendCall(answer)
<1>2. gc.pc = "call"
  BY <1>1 DEF Raised
<1>3. /\ s \in PageRecord /\ s.calls = gc.calls + 1
      /\ s.route = gc.route /\ s.models = gc.models
      /\ s.openai = gc.openai /\ s.extra = gc.extra
  BY <1>2, SpentCall
<1>4. /\ HasNextModel(gc)
      /\ LeftAfter(gc, answer) = gc.left - (gc.tries + 1)
      /\ gc.route # "default" => LeftAfter(gc, answer) \in 1..PageMaxProviderCalls
      /\ gc.route = "default" => Decision(gc, answer, counts429) = "next_after_quota"
  BY <1>1, <1>2, ChargedInFull
<1>5. PICK left \in 1..PageMaxProviderCalls, cap \in 1..GeminiHardCap :
        /\ gc' = Candidate(s, gc.model + 1, left, cap)
        /\ IF gc.route = "default" THEN left = PageMaxProviderCalls
           ELSE left = gc.left - (gc.tries + 1)
  <2>1. /\ gc.start \in 1..GeminiHardCap /\ gc.cap \in 1..GeminiHardCap
        /\ GeminiStartCap \in 1..GeminiHardCap
        /\ PageMaxProviderCalls \in 1..PageMaxProviderCalls
    BY GeminiCapsAssumption DEF PageRecord, PageMaxProviderCalls
  <2>2. CASE gc.route = "default"
    BY <1>1, <1>4, <2>1, <2>2
  <2>3. CASE gc.route # "default"
    BY <1>1, <1>4, <2>1, <2>3
  <2>4. QED
    BY <2>2, <2>3
<1>6. gc.model + 1 \in 1..gc.models /\ gc.models <= GeminiModelCount /\ gc.model + 1 # 1
  BY <1>4, GeminiCapsAssumption DEF HasNextModel, PageRecord
<1> HIDE DEF s
<1>7. /\ gc' \in PageRecord
      /\ gc'.pc = "call" /\ gc'.model = gc.model + 1 /\ gc'.left = left /\ gc'.tries = 0
      /\ gc'.max <= left /\ gc'.reserve < gc'.max
      /\ gc'.route = gc.route /\ gc'.models = gc.models /\ gc'.openai = gc.openai
      /\ gc'.calls = gc.calls + 1 /\ gc'.extra = gc.extra
  BY <1>3, <1>5, <1>6, CandidateWindow
<1>8. WindowIsSpent(gc')
  <2>1. /\ gc'.tries < gc'.max /\ gc'.max <= gc'.left /\ gc'.reserve < gc'.max
        /\ gc'.extra = 0
    BY <1>2, <1>7 DEF PageInvariant, WindowIsSpent, PageRecord
  <2>2. /\ gc.calls \in Nat /\ gc.left \in Nat /\ gc.tries \in Nat /\ gc.max \in Nat
        /\ gc.model \in Nat /\ PageMaxProviderCalls = 3
    BY DEF PageRecord, PageMaxProviderCalls
  <2>3. /\ gc.route \in FallbackRoutes => gc.calls + gc.left = 3 + gc.tries
        /\ gc.route = "default" => gc.left = 3 /\ gc.calls <= 3 * (gc.model - 1) + gc.tries
        /\ gc.tries < gc.max /\ gc.max <= gc.left
    BY <1>2, <2>2 DEF PageInvariant, WindowIsSpent
  <2>4. gc'.route \in FallbackRoutes => gc'.calls + gc'.left = 3 + gc'.tries
    BY <1>5, <1>7, <2>2, <2>3 DEF FallbackRoutes
  <2>5. gc'.route = "default" =>
          gc'.left = 3 /\ gc'.calls <= 3 * (gc'.model - 1) + gc'.tries
    BY <1>5, <1>7, <2>2, <2>3
  <2>6. QED
    BY <2>1, <2>2, <2>4, <2>5 DEF WindowIsSpent
<1>9. QED
  BY <1>6, <1>7, <1>8 DEF PageInvariant

(* The call that ends the window is inside the budget of the page.         *)
LEMMA LastCallIsInBudget ==
  ASSUME gc \in PageRecord, PageInvariant(gc), gc.pc = "call"
  PROVE  gc.calls + 1 <= BudgetOf(gc)
<1>1. /\ gc.calls \in Nat /\ gc.left \in Nat /\ gc.tries \in Nat /\ gc.max \in Nat
      /\ gc.model \in Nat /\ gc.models \in Nat /\ PageMaxProviderCalls = 3
      /\ gc.route \in FallbackRoutes \/ gc.route = "default"
  BY GeminiCapsAssumption DEF PageRecord, PageMaxProviderCalls, FallbackRoutes
<1>2. /\ gc.route \in FallbackRoutes => gc.calls + gc.left = 3 + gc.tries
      /\ gc.route = "default" => gc.left = 3 /\ gc.calls <= 3 * (gc.model - 1) + gc.tries
      /\ gc.tries < gc.max /\ gc.max <= gc.left /\ gc.model <= gc.models
  BY <1>1 DEF PageInvariant, WindowIsSpent
<1>3. QED
  BY <1>1, <1>2 DEF BudgetOf

(* The first of two models that truncates or recites is not the last.      *)
LEMMA FirstModelHandsOn ==
  ASSUME gc \in PageRecord, PageInvariant(gc), gc.pc = "call", NEW counts429 \in BOOLEAN,
         NEW answer \in {"MAX_TOKENS", "RECITATION"},
         gc.route \in {"hebrew_general", "primary_then_36"},
         gc.model = 1, gc.models > 1,
         Decision(gc, answer, counts429) \in {"exhausted", "settle"}
  PROVE  gc.plain /\ gc.calls + 1 = PageMaxProviderCalls
<1>1. /\ gc.tries \in Nat /\ gc.calls = gc.tries /\ gc.left = 3 /\ PageMaxProviderCalls = 3
      /\ gc.max \in Nat /\ gc.tries < gc.max /\ HasNextModel(gc)
      /\ gc.route = "hebrew_general" => gc.max = 1
      /\ gc.route = "primary_then_36" => gc.max = 3 /\ (gc.tries = 2 => gc.plain)
  BY DEF PageRecord, PageMaxProviderCalls, PageInvariant, WindowIsSpent, FirstWindow,
         HasNextModel
<1>2. LeftAfter(gc, answer) = 3 - (gc.tries + 1)
  BY <1>1 DEF LeftAfter, CallsUsed
<1>3. answer \in FallbackCodes(gc.route)
  BY DEF FallbackCodes, RecitationRoutes
<1>4. LeftAfter(gc, answer) > 0 => CodeTakesNext(gc, answer)
  BY <1>1, <1>3 DEF CodeTakesNext
<1>5. CASE gc.route = "hebrew_general"
  <2>1. LeftAfter(gc, answer) > 0
    BY <1>1, <1>2, <1>5
  <2>2. QuotaTakesNext(gc, answer)
    BY <1>1, <1>5, <2>1 DEF QuotaTakesNext
  <2>3. Decision(gc, answer, counts429) \in {"next_after_quota", "next_after_code"}
    BY <1>4, <2>1, <2>2 DEF Decision
  <2>4. QED
    BY <2>3
<1>6. CASE gc.route = "primary_then_36"
  <2>1. ~CodeTakesNext(gc, answer)
    BY <1>6 DEF Decision, QuotaTakesNext
  <2>2. gc.tries = 2
    BY <1>1, <1>2, <1>4, <1>6, <2>1
  <2>3. QED
    BY <1>1, <1>6, <2>2
<1>7. QED
  BY <1>5, <1>6

LEMMA AnswerKeepsBudget ==
  ASSUME gc \in PageRecord, PageInvariant(gc), PageAnswered \/ SettleFullPage
  PROVE  gc' \in PageRecord /\ PageInvariant(gc')
<1>1. PICK answer \in Answers, pc \in {"succeeded", "failed", "openai", "crop"},
           crop \in 0..2, model \in 1..gc.models :
        /\ gc.pc = "call"
        /\ gc' = [SpendCall(answer) EXCEPT !.pc = pc, !.crop = crop, !.model = model]
        /\ pc \in {"openai", "crop"} => gc.route = "hebrew_printed"
        /\ pc = "crop" => crop = 1 /\ model = 1
        /\ pc # "crop" => model = gc.model
        /\ /\ pc = "failed" /\ gc.route \in {"hebrew_general", "primary_then_36"}
           /\ gc.model = 1 /\ gc.models > 1 /\ answer \in {"MAX_TOKENS", "RECITATION"}
           => gc.plain /\ gc.calls + 1 = PageMaxProviderCalls
  <2>1. gc.pc = "call"
    BY DEF PageAnswered, SettleFullPage, Raised
  <2>2. /\ gc.model \in 1..gc.models /\ gc.crop \in 0..2 /\ 1 \in 1..gc.models /\ 1 \in 0..2
        /\ gc.openai => gc.route = "hebrew_printed"
    BY GeminiCapsAssumption DEF PageRecord, PageInvariant
  <2>3. ASSUME NEW a \in Answers, NEW pc
        PROVE  [SpendCall(a) EXCEPT !.pc = pc]
                 = [SpendCall(a) EXCEPT !.pc = pc, !.crop = gc.crop, !.model = gc.model]
    BY DEF SpendCall, PageRecord
  <2>4. CASE PageAnswered
    <3>1. {"text", "blank"} \subseteq Answers
      BY DEF Answers
    <3>2. PICK a \in {"text", "blank"}, pc \in {"succeeded", "failed"} :
            gc' = [SpendCall(a) EXCEPT !.pc = pc]
      BY <2>4 DEF PageAnswered
    <3>3. gc' = [SpendCall(a) EXCEPT !.pc = pc, !.crop = gc.crop, !.model = gc.model]
      BY <2>3, <3>1, <3>2
    <3>4. QED
      BY <2>1, <2>2, <3>1, <3>3, ZenonT(60)
  <2>5. CASE SettleFullPage
    <3>1. PICK answer \in Answers, counts429 \in BOOLEAN :
            /\ Decision(gc, answer, counts429) \in {"exhausted", "settle"}
            /\ \/ gc.openai /\ gc' = [SpendCall(answer) EXCEPT !.pc = "openai"]
               \/ /\ gc.route = "hebrew_printed"
                  /\ gc' = [SpendCall(answer) EXCEPT !.pc = "crop", !.crop = 1, !.model = 1]
               \/ gc' = [SpendCall(answer) EXCEPT !.pc = "failed"]
      BY <2>5 DEF SettleFullPage, StartsCrops
    <3>2. answer \in {"MAX_TOKENS", "RECITATION"}
          /\ gc.route \in {"hebrew_general", "primary_then_36"}
          /\ gc.model = 1 /\ gc.models > 1
          => gc.plain /\ gc.calls + 1 = PageMaxProviderCalls
      BY <2>1, <3>1, FirstModelHandsOn
    <3>3. CASE gc.openai /\ gc' = [SpendCall(answer) EXCEPT !.pc = "openai"]
      BY <2>1, <2>2, <2>3, <3>3
    <3>4. CASE /\ gc.route = "hebrew_printed"
               /\ gc' = [SpendCall(answer) EXCEPT !.pc = "crop", !.crop = 1, !.model = 1]
      BY <2>1, <2>2, <3>4
    <3>5. CASE gc' = [SpendCall(answer) EXCEPT !.pc = "failed"]
      BY <2>1, <2>2, <2>3, <3>2, <3>5, ZenonT(60)
    <3>6. QED
      BY <3>1, <3>3, <3>4, <3>5
  <2>6. QED
    BY <2>4, <2>5
<1> DEFINE s == SpendCall(answer)
<1>2. /\ s \in PageRecord /\ s.calls = gc.calls + 1 /\ s.last = answer
      /\ s.route = gc.route /\ s.models = gc.models /\ s.plain = gc.plain
      /\ s.openai = gc.openai /\ s.extra = gc.extra
  BY <1>1, SpentCall
<1>3. model \in 1..GeminiModelCount /\ model <= gc.models /\ gc.extra = 0 /\ gc.models \in Nat
      /\ gc.models >= 1
  BY <1>1, GeminiCapsAssumption DEF PageRecord, PageInvariant, WindowIsSpent
<1>4. gc' = [s EXCEPT !.pc = pc, !.crop = crop, !.model = model]
  BY <1>1
<1> HIDE DEF s
<1>5. gc' \in PageRecord
  <2>1. pc \in {"call", "openai", "crop", "latin", "succeeded", "failed"} /\ crop \in 0..2
    OBVIOUS
  <2>2. s \in PageRecord /\ model \in 1..GeminiModelCount
    BY <1>2, <1>3
  <2>3. [s EXCEPT !.pc = pc] \in PageRecord
    BY <2>1, <2>2 DEF PageRecord
  <2>4. [s EXCEPT !.pc = pc, !.crop = crop] \in PageRecord
    BY <2>1, <2>3 DEF PageRecord
  <2>5. [s EXCEPT !.pc = pc, !.crop = crop, !.model = model] \in PageRecord
    BY <2>2, <2>4 DEF PageRecord
  <2>6. QED
    BY <1>4, <2>5
<1>6. /\ gc'.pc = pc /\ gc'.crop = crop /\ gc'.model = model
      /\ gc'.calls = gc.calls + 1 /\ gc'.last = answer
      /\ gc'.route = gc.route /\ gc'.models = gc.models /\ gc'.plain = gc.plain
      /\ gc'.openai = gc.openai /\ gc'.extra = 0
  BY <1>2, <1>3, <1>4 DEF PageRecord
<1>7. gc'.calls <= BudgetOf(gc')
  BY <1>1, <1>6, LastCallIsInBudget DEF BudgetOf
<1>8. pc = "crop" => CropsAreSpent(gc')
  BY <1>1, <1>3, <1>6 DEF CropsAreSpent
<1>9. gc'.openai => gc'.route = "hebrew_printed"
  BY <1>6 DEF PageInvariant
<1>10. /\ gc'.pc = "failed" /\ gc'.route \in {"hebrew_general", "primary_then_36"}
       /\ gc'.model = 1 /\ gc'.models > 1 /\ gc'.last \in {"MAX_TOKENS", "RECITATION"}
       => gc'.plain /\ gc'.calls = PageMaxProviderCalls
  <2>1. pc = "failed" => model = gc.model
    BY <1>1
  <2>2. QED
    BY <1>1, <1>6, <2>1
<1>11. /\ gc'.model <= gc'.models
       /\ gc'.pc \in {"openai", "crop", "latin"} => gc'.route = "hebrew_printed"
       /\ gc'.pc # "call" /\ gc'.pc # "latin" /\ gc'.extra <= 2 * gc'.models + 1
       /\ gc'.extra = 0
  BY <1>1, <1>3, <1>6
<1>12. /\ gc'.model <= gc'.models
       /\ gc'.openai \/ gc'.pc \in {"openai", "crop", "latin"} => gc'.route = "hebrew_printed"
       /\ gc'.pc # "call" => gc'.calls <= BudgetOf(gc') /\ gc'.extra <= 2 * gc'.models + 1
       /\ gc'.pc = "openai" => gc'.extra = 0
       /\ gc'.pc = "crop" => CropsAreSpent(gc')
  BY <1>6, <1>7, <1>8, <1>9, <1>11
<1>13. PageInvariant(gc')
  BY <1>10, <1>11, <1>12 DEF PageInvariant
<1>14. QED
  BY <1>5, <1>13

(* A step of a fallback for Hebrew print that spends no more than it may.  *)
LEMMA FallbackStepKeepsBudget ==
  ASSUME gc \in PageRecord, PageInvariant(gc), gc.pc \in {"openai", "crop", "latin"},
         NEW pc \in {"crop", "latin", "succeeded", "failed"}, NEW extra \in Nat,
         NEW crop \in 0..2, NEW model \in 1..gc.models, NEW hebrew \in BOOLEAN,
         gc' = [gc EXCEPT !.pc = pc, !.extra = extra, !.crop = crop, !.model = model,
                          !.hebrew = hebrew],
         extra <= 2 * gc.models + 1,
         pc = "crop" => \/ crop = 1 /\ extra <= model - 1
                        \/ crop = 2 /\ extra <= gc.models + model - 1,
         pc = "latin" => crop = 2 /\ extra <= 2 * gc.models
  PROVE  gc' \in PageRecord /\ PageInvariant(gc')
<1>1. /\ model \in 1..GeminiModelCount /\ model <= gc.models
      /\ gc.route = "hebrew_printed"
      /\ gc.calls <= BudgetOf(gc)
  BY GeminiCapsAssumption DEF PageRecord, PageInvariant
<1>2. [gc EXCEPT !.pc = pc] \in PageRecord
  BY DEF PageRecord
<1>3. [gc EXCEPT !.pc = pc, !.extra = extra, !.crop = crop] \in PageRecord
  BY <1>2 DEF PageRecord
<1>4. gc' \in PageRecord
  BY <1>1, <1>3 DEF PageRecord
<1>5. /\ gc'.pc = pc /\ gc'.extra = extra /\ gc'.crop = crop /\ gc'.model = model
      /\ gc'.route = gc.route /\ gc'.models = gc.models /\ gc'.calls = gc.calls
  BY DEF PageRecord
<1>6. gc'.calls <= BudgetOf(gc')
  BY <1>1, <1>5 DEF BudgetOf
<1>7. pc = "crop" => CropsAreSpent(gc')
  BY <1>5 DEF CropsAreSpent
<1>8. PageInvariant(gc')
  BY <1>1, <1>5, <1>6, <1>7 DEF PageInvariant
<1>9. QED
  BY <1>4, <1>8

LEMMA FallbackKeepsBudget ==
  ASSUME gc \in PageRecord, PageInvariant(gc),
         OpenAIPage \/ CropText \/ CropNextModel \/ CropFails \/ LatinRegion
  PROVE  gc' \in PageRecord /\ PageInvariant(gc')
<1> DEFINE Goal == gc' \in PageRecord /\ PageInvariant(gc')
           Step(pc, extra, crop, model, hebrew) ==
             gc' = [gc EXCEPT !.pc = pc, !.extra = extra, !.crop = crop, !.model = model,
                              !.hebrew = hebrew]
<1>1. /\ gc.models \in Nat /\ gc.model \in 1..gc.models /\ gc.extra \in Nat
      /\ gc.crop \in 0..2 /\ gc.hebrew \in BOOLEAN /\ 1 \in 1..gc.models
  BY GeminiCapsAssumption DEF PageRecord, PageInvariant
<1>2. CASE OpenAIPage
  <2>1. PICK pc \in {"succeeded", "failed"}, spent \in {0, 1} :
          gc' = [gc EXCEPT !.pc = pc, !.extra = gc.extra + spent]
    BY <1>2 DEF OpenAIPage
  <2>2. Step(pc, gc.extra + spent, gc.crop, gc.model, gc.hebrew)
    BY <2>1 DEF PageRecord
  <2>3. gc.pc = "openai" /\ gc.extra = 0 /\ gc.extra + spent \in Nat
        /\ gc.extra + spent <= 2 * gc.models + 1
    BY <1>1, <1>2 DEF OpenAIPage, PageInvariant
  <2>4. QED
    BY <1>1, <2>2, <2>3, FallbackStepKeepsBudget, ZenonT(60)
<1>3. CASE gc.pc = "crop"
  <2>1. /\ gc.crop \in {1, 2} /\ gc.extra + 1 \in Nat
        /\ gc.crop = 1 => gc.extra <= gc.model - 1
        /\ gc.crop = 2 => gc.extra <= gc.models + gc.model - 1
        /\ gc.extra + 1 <= 2 * gc.models
    BY <1>1, <1>3 DEF PageInvariant, CropsAreSpent
  <2>2. ASSUME NEW hebrew \in BOOLEAN, gc.crop = 1,
               gc' = [gc EXCEPT !.extra = gc.extra + 1, !.crop = 2, !.model = 1,
                                !.hebrew = hebrew]
        PROVE  Goal
    <3>1. PICK crop \in 0..2, model \in 1..gc.models :
            /\ crop = 2 /\ gc.extra + 1 <= gc.models + model - 1
            /\ gc.extra + 1 <= 2 * gc.models + 1
            /\ Step("crop", gc.extra + 1, crop, model, hebrew)
      <4>1. Step("crop", gc.extra + 1, 2, 1, hebrew)
        BY <1>3, <2>2 DEF PageRecord
      <4>2. gc.extra + 1 <= gc.models + 1 - 1 /\ gc.extra + 1 <= 2 * gc.models + 1
        BY <1>1, <2>1, <2>2
      <4>3. 1 \in 1..gc.models
        BY <1>1
      <4> USE <4>3
      <4> WITNESS 2 \in 0..2, 1 \in 1..gc.models
      <4>4. QED
        BY <4>1, <4>2
    <3>2. QED
      BY <1>1, <1>3, <2>1, <3>1, FallbackStepKeepsBudget
  <2>3. ASSUME NEW pc \in {"succeeded", "failed"},
               gc' = [gc EXCEPT !.extra = gc.extra + 1, !.pc = pc]
        PROVE  Goal
    <3>1. Step(pc, gc.extra + 1, gc.crop, gc.model, gc.hebrew)
      BY <2>3 DEF PageRecord
    <3>2. gc.extra + 1 <= 2 * gc.models + 1
      BY <1>1, <2>1
    <3>3. /\ pc \in {"crop", "latin", "succeeded", "failed"} /\ gc.extra + 1 \in Nat
          /\ gc.pc \in {"openai", "crop", "latin"} /\ pc # "crop" /\ pc # "latin"
          /\ gc.crop \in 0..2 /\ gc.model \in 1..gc.models /\ gc.hebrew \in BOOLEAN
      BY <1>1, <1>3, <2>1
    <3>4. QED
      BY <3>1, <3>2, <3>3, FallbackStepKeepsBudget
  <2>4. ASSUME gc.crop = 2, gc' = [gc EXCEPT !.extra = gc.extra + 1, !.pc = "latin"]
        PROVE  Goal
    <3>1. PICK pc \in {"crop", "latin", "succeeded", "failed"}, crop \in 0..2 :
            /\ pc = "latin" /\ crop = 2
            /\ Step(pc, gc.extra + 1, crop, gc.model, gc.hebrew)
      <4>1. Step("latin", gc.extra + 1, gc.crop, gc.model, gc.hebrew)
        BY <2>4 DEF PageRecord
      <4>2. QED
        BY <1>1, <2>4, <4>1
    <3>2. gc.extra + 1 <= 2 * gc.models + 1
      BY <1>1, <2>1
    <3>3. QED
      BY <1>1, <1>3, <2>1, <3>1, <3>2, FallbackStepKeepsBudget
  <2>5. ASSUME gc.model < gc.models,
               gc' = [gc EXCEPT !.extra = gc.extra + 1, !.model = gc.model + 1]
        PROVE  Goal
    <3>1. Step("crop", gc.extra + 1, gc.crop, gc.model + 1, gc.hebrew)
      BY <1>3, <2>5 DEF PageRecord
    <3>2. /\ gc.extra + 1 <= 2 * gc.models + 1 /\ gc.model + 1 \in 1..gc.models
          /\ \/ gc.crop = 1 /\ gc.extra + 1 <= (gc.model + 1) - 1
             \/ gc.crop = 2 /\ gc.extra + 1 <= gc.models + (gc.model + 1) - 1
      BY <1>1, <2>1, <2>5
    <3>3. QED
      BY <1>1, <1>3, <2>1, <3>1, <3>2, FallbackStepKeepsBudget
  <2>6. CASE CropText
    BY <2>2, <2>3, <2>6 DEF CropText
  <2>7. CASE CropNextModel
    BY <2>5, <2>7 DEF CropNextModel, HasNextModel
  <2>8. CASE CropFails
    BY <2>3, <2>4, <2>8 DEF CropFails, LatinRegionIsOpen
  <2>9. QED
    BY <1>3, <2>6, <2>7, <2>8 DEF OpenAIPage, LatinRegion
<1>4. CASE LatinRegion
  <2>1. /\ gc.pc = "latin" /\ gc.crop = 2 /\ gc.extra + 1 \in Nat
        /\ gc.extra + 1 <= 2 * gc.models + 1
    BY <1>1, <1>4 DEF LatinRegion, PageInvariant
  <2>2. PICK pc \in {"succeeded", "failed"} :
          gc' = [gc EXCEPT !.extra = gc.extra + 1, !.pc = pc]
    BY <1>4, <2>1 DEF LatinRegion
  <2>3. Step(pc, gc.extra + 1, gc.crop, gc.model, gc.hebrew)
    BY <2>2 DEF PageRecord
  <2>4. QED
    BY <1>1, <2>1, <2>3, FallbackStepKeepsBudget
<1>5. QED
  BY <1>2, <1>3, <1>4 DEF CropText, CropNextModel, CropFails

(* No page spends more calls than its budget, and every window handed to   *)
(* transcribe_pages_with_gemini is one it accepts, for any number of       *)
(* models and any caps.                                                    *)
THEOREM CallsInvariantHolds == Spec_Calls => []CallsInvariant
<1>1. CallsInvariant /\ [Next_Calls]_gc => CallsInvariant'
  <2> SUFFICES ASSUME CallsInvariant, [Next_Calls]_gc PROVE CallsInvariant'
    OBVIOUS
  <2>1. gc \in PageRecord /\ PageInvariant(gc)
    BY DEF CallsInvariant, CallsTypeOK, PageRecord
  <2>2. gc' \in PageRecord /\ PageInvariant(gc')
    BY <2>1, RetryKeepsBudget, NextModelKeepsBudget, AnswerKeepsBudget, FallbackKeepsBudget
    DEF Next_Calls
  <2>3. QED
    BY <2>2 DEF CallsInvariant, CallsTypeOK, PageRecord
<1>2. QED
  BY <1>1, InitHasBudget, PTL DEF Spec_Calls

(* A page never makes more calls than its budget, nor opens a window that  *)
(* transcribe_pages_with_gemini would refuse.                              *)
THEOREM CallsAreInBudget == Spec_Calls => []PageBudgetHolds
<1>1. CallsInvariant => PageBudgetHolds
  <2> SUFFICES ASSUME CallsInvariant PROVE PageBudgetHolds
    OBVIOUS
  <2>1. gc \in PageRecord /\ PageInvariant(gc)
    BY DEF CallsInvariant, CallsTypeOK, PageRecord
  <2>2. /\ gc.models \in Nat /\ gc.calls \in Nat /\ gc.extra \in Nat /\ gc.left \in Nat
        /\ gc.max \in Nat
    BY <2>1, GeminiCapsAssumption DEF PageRecord, PageMaxProviderCalls
  <2>3. CASE gc.pc = "call"
    <3>1. gc.calls <= BudgetOf(gc)
      BY <2>1, <2>2, <2>3, LastCallIsInBudget, GeminiCapsAssumption
      DEF BudgetOf, PageMaxProviderCalls
    <3>2. WindowIsSpent(gc)
      BY <2>1, <2>3 DEF PageInvariant
    <3>3. QED
      BY <2>2, <2>3, <3>1, <3>2 DEF PageBudgetHolds, BudgetOf, WindowIsSpent,
         PageMaxProviderCalls
  <2>4. CASE gc.pc # "call"
    BY <2>1, <2>4 DEF PageInvariant, PageBudgetHolds, BudgetOf
  <2>5. QED
    BY <2>3, <2>4
<1>2. QED
  BY <1>1, CallsInvariantHolds, PTL

(* The 3.6 fallback gets its call, whatever the first model answered and   *)
(* however its errors read, unless plain retries spent the budget.         *)
THEOREM FallbackIsAlwaysTried == Spec_Calls => []FallbackIsTried
<1>1. CallsInvariant => FallbackIsTried
  BY DEF CallsInvariant, PageInvariant, FallbackIsTried
<1>2. QED
  BY <1>1, CallsInvariantHolds, PTL
=============================================================================
