------------------------- MODULE ArabicPrintedPages -------------------------
(***************************************************************************)
(* Arabic print: the durable page and band checkpoints of one attempt, the *)
(* runs that plan a page with Cloud Vision and transcribe its bands with   *)
(* Antigravity (one primary and one assisted fallback interaction a band), *)
(* the cancellation of an interaction that outlives its deadline, and the  *)
(* operator who resolves an ambiguous reservation.                         *)
(*                                                                         *)
(* One action is one transaction or one provider call. Every transaction   *)
(* of a run asks for its fresh page claim first and raises without it,     *)
(* which ends the run like a crash (StopArabicRun).                        *)
(***************************************************************************)
EXTENDS Naturals, FiniteSets

CONSTANTS
  ArabicPageCount, \* expected_page_count of the attempt
  ArabicBandCount, \* bound: bands that Cloud Vision may plan for a page
  ArabicRunCount,  \* runs that may overlap, each for one request after another
  ArabicClaimBound \* bound: claims of one page

ASSUME ArabicPagesAssumption ==
  /\ ArabicPageCount \in Nat \ {0} /\ ArabicBandCount \in Nat \ {0}
  /\ ArabicRunCount \in Nat /\ ArabicClaimBound \in Nat

VARIABLES
  aAttempt,  \* status of the ArabicPrintedOcrAttempt row
  aPage,     \* aPage[p]: the page row, and the Vision calls made for it
  aBand,     \* aBand[p][b]: the band row; NONE before the page is planned
  aProvider, \* aProvider[p][b][k]: the interaction of create k at Antigravity
  aRun       \* aRun[i]: program counter and locals of run i

aVars == <<aAttempt, aPage, aBand, aProvider, aRun>>

ArabicPages == 1..ArabicPageCount
Bands == 1..ArabicBandCount
ArabicRuns == 1..ArabicRunCount
Creates == {1, 2} \* the primary and the fallback

(* ids are the creates whose interaction id is stored; fence says that the *)
(* failure_code of the page is VISION_AMBIGUOUS.                           *)
NoArabicPage == [status |-> "NONE", token |-> 0, live |-> FALSE, vision |-> 0,
                 calls |-> 0, fence |-> FALSE]
NoBand == [status |-> "NONE", count |-> 0, ids |-> {}, code |-> "", confirmed |-> "",
           result |-> ""]

IdleRun == [pc |-> "idle", page |-> 1, token |-> 0, late |-> FALSE, steps |-> 0,
            answer |-> "", band |-> 1, create |-> 1]

Init_Arabic ==
  /\ aAttempt = "NONE"
  /\ aPage = [p \in ArabicPages |-> NoArabicPage]
  /\ aBand = [p \in ArabicPages |-> [b \in Bands |-> NoBand]]
  /\ aProvider = [p \in ArabicPages |-> [b \in Bands |-> [k \in Creates |-> "none"]]]
  /\ aRun = [i \in ArabicRuns |-> IdleRun]

Page(i) == aRun[i].page
RowOf(i) == aPage[Page(i)]
Planned(p) == aBand[p][1].status # "NONE"
BandsOf(p) == {b \in Bands : aBand[p][b].status # "NONE"}
OpenBands(p) == {b \in BandsOf(p) : aBand[p][b].status # "SUCCEEDED"}

(* The band and the create that run i works on: between two iterations of  *)
(* _process_band, what it reads next; within one, what it read before.     *)
Between(i) == aRun[i].pc = "bands"
FirstOpen(p) == CHOOSE b \in OpenBands(p) : \A c \in OpenBands(p) : b <= c
BandIndex(i) == IF Between(i) THEN FirstOpen(Page(i)) ELSE aRun[i].band
BandOf(i) == aBand[Page(i)][BandIndex(i)]
CreateOf(i) == IF Between(i) THEN BandOf(i).count ELSE aRun[i].create
Interaction(i) == aProvider[Page(i)][BandIndex(i)][CreateOf(i)]

(* Mutant of Fresh: the expiry of the lease and its token are not asked. *)
AnyFresh(i) == RowOf(i).status = "RUNNING"

(* _require_fresh_page_claim *)
Fresh(i) ==
  RowOf(i).status = "RUNNING" /\ RowOf(i).token = aRun[i].token /\ RowOf(i).live

EndRun(i) == aRun' = [aRun EXCEPT ![i] = IdleRun]

Goto(i, pc) == aRun' = [aRun EXCEPT ![i].pc = pc]

(* The loop of _process_band counts the decisions taken between two        *)
(* iterations.                                                             *)
Turn(i, pc) ==
  aRun' = [aRun EXCEPT ![i].pc = pc, ![i].steps = IF Between(i) THEN @ + 1 ELSE @,
             ![i].band = BandIndex(i),
             ![i].create = IF pc = "create" THEN BandOf(i).count + 1 ELSE CreateOf(i)]

Restart(i, steps) ==
  aRun' = [aRun EXCEPT ![i].pc = "bands", ![i].steps = steps, ![i].band = 1, ![i].create = 1]

WriteBand(i, band) ==
  /\ Fresh(i)
  /\ aBand' = [aBand EXCEPT ![Page(i)][BandIndex(i)] = band]
  /\ UNCHANGED <<aAttempt, aPage>>

CallProvider(i, state) ==
  aProvider' = [aProvider EXCEPT ![Page(i)][BandIndex(i)][CreateOf(i)] = state]

AfterStep(i) == Restart(i, IF Between(i) THEN aRun[i].steps + 1 ELSE aRun[i].steps)

-----------------------------------------------------------------------------
(* Requests, leases, the clock, the provider. *)

StartArabicRun(i) ==
  /\ aRun[i].pc = "idle"
  /\ aAttempt' = IF aAttempt = "NONE" THEN "IN_PROGRESS" ELSE aAttempt
  /\ aPage' = [p \in ArabicPages |->
                 IF aPage[p].status = "NONE" THEN [NoArabicPage EXCEPT !.status = "PENDING"]
                 ELSE aPage[p]]
  /\ Goto(i, "claim")
  /\ UNCHANGED <<aBand, aProvider>>

ArabicLeaseExpires(p) ==
  /\ aPage[p].live
  /\ aPage' = [aPage EXCEPT ![p].live = FALSE]
  /\ UNCHANGED <<aAttempt, aBand, aProvider, aRun>>

(* ctx.remaining() reaches 0. *)
DeadlinePasses(i) ==
  /\ aRun[i].pc \notin {"idle", "claim"} /\ ~aRun[i].late
  /\ aRun' = [aRun EXCEPT ![i].late = TRUE]
  /\ UNCHANGED <<aAttempt, aPage, aBand, aProvider>>

InteractionEnds(p, b, k) ==
  /\ aProvider[p][b][k] = "live"
  /\ \E state \in {"good", "bad", "failed"} :
       aProvider' = [aProvider EXCEPT ![p][b][k] = state]
  /\ UNCHANGED <<aAttempt, aPage, aBand, aRun>>

(* A crash, a database error, a stale claim, a busy page or an identity    *)
(* that may claim no page any more: the exception leaves every row alone.  *)
StopArabicRun(i) ==
  /\ aRun[i].pc # "idle"
  /\ EndRun(i)
  /\ UNCHANGED <<aAttempt, aPage, aBand, aProvider>>

-----------------------------------------------------------------------------
(* run of the document loop: claim, plan, assemble or fail each page. *)

NextPage(i) ==
  IF Page(i) = ArabicPageCount THEN EndRun(i)
  ELSE aRun' = [aRun EXCEPT ![i] = [IdleRun EXCEPT !.pc = "claim", !.page = Page(i) + 1]]

ReuseArabicPage(i) ==
  /\ aRun[i].pc = "claim"
  /\ RowOf(i).status = "SUCCEEDED"
  /\ NextPage(i)
  /\ UNCHANGED <<aAttempt, aPage, aBand, aProvider>>

(* The page may have no start budget or no readable image: it fails.       *)
ClaimArabicPage(i) ==
  /\ aRun[i].pc = "claim"
  /\ RowOf(i).status # "SUCCEEDED" /\ ~RowOf(i).live
  /\ RowOf(i).token < ArabicClaimBound
  /\ aPage' = [aPage EXCEPT ![Page(i)].status = "RUNNING", ![Page(i)].token = @ + 1,
                            ![Page(i)].live = TRUE, ![Page(i)].fence = FALSE]
  /\ aAttempt' = "IN_PROGRESS"
  /\ \E pc \in {"plan", "fail"} :
       aRun' = [aRun EXCEPT ![i].pc = pc, ![i].token = RowOf(i).token + 1]
  /\ UNCHANGED <<aBand, aProvider>>

(* Mutant of VisionIsOpen: the reservation is not asked. *)
VisionAlwaysOpen(row) == TRUE

VisionIsOpen(row) == row.vision = 0

(* _ensure_plan; the fence of a reservation without a plan. *)
EnsurePlan(i) ==
  /\ aRun[i].pc = "plan"
  /\ \/ Planned(Page(i)) /\ Goto(i, "bands")
     \/ ~Planned(Page(i)) /\ ~VisionIsOpen(RowOf(i)) /\ Goto(i, "fence")
     \/ ~Planned(Page(i)) /\ VisionIsOpen(RowOf(i)) /\ aRun[i].late /\ Goto(i, "fail")
  /\ UNCHANGED <<aAttempt, aPage, aBand, aProvider>>

ReserveVision(i) ==
  /\ aRun[i].pc = "plan" /\ ~Planned(Page(i)) /\ VisionIsOpen(RowOf(i)) /\ ~aRun[i].late
  /\ Fresh(i)
  /\ aPage' = [aPage EXCEPT ![Page(i)].vision = 1]
  /\ Goto(i, "vision")
  /\ UNCHANGED <<aAttempt, aBand, aProvider>>

VisionCall(i) ==
  /\ aRun[i].pc = "vision"
  /\ aPage' = [aPage EXCEPT ![Page(i)].calls = @ + 1]
  /\ \E pc \in {"planned", "fail"} : Goto(i, pc)
  /\ UNCHANGED <<aAttempt, aBand, aProvider>>

PersistPlan(i) ==
  /\ aRun[i].pc = "planned"
  /\ Fresh(i)
  /\ \E n \in Bands :
       aBand' = [aBand EXCEPT ![Page(i)] =
                   [b \in Bands |-> IF b <= n THEN [NoBand EXCEPT !.status = "PENDING"]
                                    ELSE NoBand]]
  /\ Goto(i, "bands")
  /\ UNCHANGED <<aAttempt, aPage, aProvider>>

(* _rollup_attempt_locked *)
Rollup(page) ==
  IF \E p \in ArabicPages : page[p].status # "SUCCEEDED" THEN "PARTIAL" ELSE "COMPLETED"

SettlePage(i, status, fence) ==
  /\ Fresh(i)
  /\ aPage' = [aPage EXCEPT ![Page(i)].status = status, ![Page(i)].live = FALSE,
                            ![Page(i)].fence = fence]
  /\ aAttempt' = Rollup(aPage')
  /\ UNCHANGED <<aBand, aProvider>>

AssemblePage(i) ==
  /\ Between(i) /\ OpenBands(Page(i)) = {}
  /\ SettlePage(i, "SUCCEEDED", FALSE)
  /\ NextPage(i)

(* The document loop stops at the first page that fails. *)
FailPage(i) ==
  /\ aRun[i].pc \in {"fail", "fence"}
  /\ SettlePage(i, "FAILED", aRun[i].pc = "fence")
  /\ EndRun(i)

-----------------------------------------------------------------------------
(* One band: _process_band, one iteration per decision. *)

Succeeded(band) ==
  [band EXCEPT !.status = "SUCCEEDED", !.code = "",
               !.result = IF band.count = 1 THEN "UNASSISTED" ELSE "ASSISTED_FALLBACK"]
FailedBand(band, code) == [band EXCEPT !.status = "FAILED", !.code = code]

Deciding(i) == Between(i) /\ OpenBands(Page(i)) # {}

(* A success ends the loop; the next band starts with a loop of its own.   *)
SucceedBand(i) ==
  /\ WriteBand(i, Succeeded(BandOf(i)))
  /\ Restart(i, 0)

(* Mutant of MaxBandSteps: a primary, its cancellation and a fallback. *)
ThreeSteps == 3

MaxBandSteps == 8

Reserve(i, status) ==
  /\ ~aRun[i].late
  /\ WriteBand(i, [BandOf(i) EXCEPT !.status = status, !.count = @ + 1, !.code = ""])
  /\ Turn(i, "create")
  /\ UNCHANGED aProvider

ReservePrimary(i) ==
  /\ Deciding(i)
  /\ BandOf(i).status = "PENDING"
  /\ Reserve(i, "PRIMARY_RUNNING")

CancelConfirmed(band) == band.status = "CANCEL_PENDING" /\ band.confirmed = "cancelled"
OrdinaryFailure(band) == band.status = "FAILED" /\ band.code = "FAILED"

(* Mutant of FallbackIsAllowed: a cancellation need not be confirmed. *)
AnyCancel(band) ==
  band.count = 1 /\ (OrdinaryFailure(band) \/ band.status = "CANCEL_PENDING")

FallbackIsAllowed(band) ==
  band.count = 1 /\ (OrdinaryFailure(band) \/ CancelConfirmed(band))

ReserveFallback(i) ==
  /\ Deciding(i)
  /\ FallbackIsAllowed(BandOf(i))
  /\ Reserve(i, "FALLBACK_RUNNING")

(* The Vision draft stands in for a transcription. *)
SelectLowQuality(i) ==
  /\ Deciding(i)
  /\ OrdinaryFailure(BandOf(i)) \/ CancelConfirmed(BandOf(i))
  /\ BandOf(i).count = 2 \/ aRun[i].late
  /\ WriteBand(i, [Succeeded(BandOf(i)) EXCEPT !.result = "CLOUD_VISION_LOW_QUALITY"])
  /\ Restart(i, 0)
  /\ UNCHANGED aProvider

IsRunning(band) == band.status \in {"PRIMARY_RUNNING", "FALLBACK_RUNNING"}

(* A create was reserved and no id stored: it may be live, so it is fenced.*)
FenceBand(i) ==
  /\ Deciding(i)
  /\ IsRunning(BandOf(i)) /\ BandOf(i).count \notin BandOf(i).ids
  /\ WriteBand(i, FailedBand(BandOf(i), "AMBIGUOUS"))
  /\ Goto(i, "fail")
  /\ UNCHANGED aProvider

(* The band is fenced, needs a deadline that is over, or used its steps.   *)
GiveUpPage(i) ==
  /\ Deciding(i)
  /\ \/ BandOf(i).code = "AMBIGUOUS"
     \/ aRun[i].late /\ BandOf(i).status = "PENDING"
     \/ aRun[i].late /\ BandOf(i).status = "CANCEL_PENDING" /\ BandOf(i).confirmed = ""
     \/ aRun[i].steps = MaxBandSteps
  /\ Goto(i, "fail")
  /\ UNCHANGED <<aAttempt, aPage, aBand, aProvider>>

(* The create POST; its answer is lost, refused or never asked for below.  *)
CreateInteraction(i) ==
  /\ aRun[i].pc = "create" /\ ~aRun[i].late
  /\ CallProvider(i, "live")
  /\ Goto(i, "created")
  /\ UNCHANGED <<aAttempt, aPage, aBand>>

(* create_error: no id. A create that times out may be "lost": it is live  *)
(* at the provider and recorded like a refused one.                        *)
CreateFails(i) ==
  /\ aRun[i].pc = "create"
  /\ WriteBand(i, FailedBand(BandOf(i), "FAILED"))
  /\ \/ UNCHANGED aProvider
     \/ ~aRun[i].late /\ CallProvider(i, "lost")
  /\ Restart(i, aRun[i].steps)

StoreInteractionId(i) ==
  /\ aRun[i].pc = "created"
  /\ WriteBand(i, [BandOf(i) EXCEPT !.ids = @ \cup {CreateOf(i)}])
  /\ Goto(i, "poll")
  /\ UNCHANGED aProvider

(* The attempt's own poll, or the poll that resumes a stored interaction.  *)
Polls(i) ==
  \/ aRun[i].pc = "poll"
  \/ Deciding(i) /\ IsRunning(BandOf(i)) /\ BandOf(i).count \in BandOf(i).ids

PollSucceeds(i) ==
  Polls(i) /\ Interaction(i) = "good" /\ SucceedBand(i) /\ UNCHANGED aProvider

(* An end that is no transcription; or no status that the code knows, in   *)
(* an answer or before polls that broke: then nothing is cancelled, and    *)
(* the "unknown" interaction is live at the provider.                      *)
PollFails(i) ==
  /\ Polls(i)
  /\ \/ Interaction(i) \in {"bad", "failed", "cancelled"} /\ UNCHANGED aProvider
     \/ Interaction(i) = "live" /\ CallProvider(i, "unknown")
  /\ WriteBand(i, FailedBand(BandOf(i), "FAILED"))
  /\ AfterStep(i)

(* The poll timed out or broke before it saw an end, whatever happened at  *)
(* the provider since: mark_arabic_printed_band_cancel_pending.            *)
MarkCancelPending(i) ==
  /\ Polls(i)
  /\ WriteBand(i, [BandOf(i) EXCEPT !.status = "CANCEL_PENDING"])
  /\ Turn(i, "cancel")
  /\ UNCHANGED aProvider

(* At most one cancel POST; its answer may be lost or say nothing.         *)
CancelInteraction(i) ==
  /\ aRun[i].pc = "cancel" /\ ~aRun[i].late
  /\ \E answer \in {"", "cancelled", "completed"} :
       /\ answer = "completed" => Interaction(i) \in {"good", "bad"}
       /\ answer = "cancelled" => Interaction(i) \in {"live", "cancelled"}
       /\ \/ Interaction(i) = "live" /\ CallProvider(i, "cancelled")
          \/ ~(Interaction(i) = "live" /\ answer = "cancelled") /\ UNCHANGED aProvider
       /\ aRun' = [aRun EXCEPT ![i].pc = "answered", ![i].answer = answer]
  /\ UNCHANGED <<aAttempt, aPage, aBand>>

SkipCancel(i) ==
  /\ aRun[i].pc = "cancel" /\ aRun[i].late
  /\ Restart(i, aRun[i].steps)
  /\ UNCHANGED <<aAttempt, aPage, aBand, aProvider>>

StoreCancelAnswer(i) ==
  /\ aRun[i].pc = "answered"
  /\ WriteBand(i, [BandOf(i) EXCEPT !.confirmed = aRun[i].answer])
  /\ IF aRun[i].answer = "completed" /\ Interaction(i) = "good"
     THEN Goto(i, "accept") ELSE Restart(i, aRun[i].steps)
  /\ UNCHANGED aProvider

AcceptInteraction(i) == aRun[i].pc = "accept" /\ SucceedBand(i) /\ UNCHANGED aProvider

(* _recover_completed_cancel: read the interaction once more. *)
RecoverCompletedCancel(i) ==
  /\ Deciding(i)
  /\ BandOf(i).status = "CANCEL_PENDING" /\ BandOf(i).confirmed = "completed"
  /\ \/ ~aRun[i].late /\ Interaction(i) = "good" /\ SucceedBand(i)
     \/ WriteBand(i, FailedBand(BandOf(i), "FAILED")) /\ AfterStep(i)
  /\ UNCHANGED aProvider

(* _recover_unresolved_cancel_pending: an end that is read is stored and   *)
(* acted upon; otherwise the page fails.                                   *)
RecoverUnresolvedCancel(i) ==
  /\ Deciding(i)
  /\ BandOf(i).status = "CANCEL_PENDING" /\ BandOf(i).confirmed = "" /\ ~aRun[i].late
  /\ \E observed \in {"", "cancelled", "completed"} :
       /\ observed = "completed" => Interaction(i) \in {"good", "bad"}
       /\ observed = "cancelled" => Interaction(i) = "cancelled"
       /\ WriteBand(i, [BandOf(i) EXCEPT !.confirmed = observed])
       /\ CASE observed = "" -> Goto(i, "fail")
            [] observed = "completed" /\ Interaction(i) = "good" -> Turn(i, "accept")
            [] OTHER -> Restart(i, aRun[i].steps)
  /\ UNCHANGED aProvider

-----------------------------------------------------------------------------
(* The operator's resolution of an ambiguous reservation. The operator is  *)
(* taken to know the provider's side and to act when no run is about to    *)
(* call it.                                                                *)
OperatorMayResolve(p) ==
  /\ \A q \in ArabicPages : ~aPage[q].live
  /\ aPage[p].status # "SUCCEEDED"
  /\ \A i \in ArabicRuns : aRun[i].page = p => aRun[i].pc \notin {"vision", "create"}

ResolveVision(p) ==
  /\ OperatorMayResolve(p)
  /\ aPage[p].status = "FAILED" /\ aPage[p].fence /\ ~Planned(p)
  /\ aPage[p].calls = 0
  /\ aPage' = [aPage EXCEPT ![p].vision = 0, ![p].fence = FALSE]
  /\ UNCHANGED <<aAttempt, aBand, aProvider, aRun>>

(* A fallback is resolved only when the primary's id is stored. *)
IsFenced(band) ==
  /\ band.status = "FAILED" /\ band.code = "AMBIGUOUS"
  /\ band.ids = {k \in Creates : k < band.count}

ResolvedNoCall(band) ==
  IF band.count = 1 THEN [band EXCEPT !.status = "PENDING", !.count = 0, !.code = ""]
  ELSE [band EXCEPT !.count = 1, !.code = "FAILED"]

Bound(band) ==
  [band EXCEPT !.ids = @ \cup {band.count}, !.code = "",
     !.status = IF band.count = 1 THEN "PRIMARY_RUNNING" ELSE "FALLBACK_RUNNING"]

ResolveBand(p, b) ==
  LET band == aBand[p][b]
  IN /\ OperatorMayResolve(p)
     /\ IsFenced(band)
     /\ aBand' = [aBand EXCEPT ![p][b] = IF aProvider[p][b][band.count] = "none"
                                         THEN ResolvedNoCall(band) ELSE Bound(band)]
     /\ UNCHANGED <<aAttempt, aPage, aProvider, aRun>>

ArabicRunStep(i) ==
  \/ ReuseArabicPage(i) \/ ClaimArabicPage(i) \/ EnsurePlan(i) \/ ReserveVision(i)
  \/ VisionCall(i) \/ PersistPlan(i) \/ AssemblePage(i) \/ FailPage(i)
  \/ ReservePrimary(i) \/ ReserveFallback(i) \/ SelectLowQuality(i) \/ FenceBand(i)
  \/ GiveUpPage(i) \/ CreateInteraction(i) \/ CreateFails(i) \/ StoreInteractionId(i)
  \/ PollSucceeds(i) \/ PollFails(i) \/ MarkCancelPending(i)
  \/ CancelInteraction(i) \/ SkipCancel(i) \/ StoreCancelAnswer(i) \/ AcceptInteraction(i)
  \/ RecoverCompletedCancel(i) \/ RecoverUnresolvedCancel(i)

Next_Arabic ==
  \/ \E i \in ArabicRuns :
       StartArabicRun(i) \/ ArabicRunStep(i) \/ DeadlinePasses(i) \/ StopArabicRun(i)
  \/ \E p \in ArabicPages : ArabicLeaseExpires(p) \/ ResolveVision(p)
  \/ \E p \in ArabicPages, b \in Bands :
       ResolveBand(p, b) \/ \E k \in Creates : InteractionEnds(p, b, k)

Spec_Arabic == Init_Arabic /\ [][Next_Arabic]_aVars

-----------------------------------------------------------------------------
(* Properties *)

BandStatuses == {"NONE", "PENDING", "PRIMARY_RUNNING", "CANCEL_PENDING",
                 "FALLBACK_RUNNING", "SUCCEEDED", "FAILED"}

ArabicTypeOK ==
  /\ aAttempt \in {"NONE", "IN_PROGRESS", "PARTIAL", "COMPLETED"}
  /\ aPage \in [ArabicPages ->
       [status : {"NONE", "PENDING", "RUNNING", "SUCCEEDED", "FAILED"}, token : Nat,
        live : BOOLEAN, vision : {0, 1}, calls : Nat, fence : BOOLEAN]]
  /\ aBand \in [ArabicPages -> [Bands ->
       [status : BandStatuses, count : 0..2, ids : SUBSET Creates,
        code : {"", "FAILED", "AMBIGUOUS"}, confirmed : {"", "cancelled", "completed"},
        result : {"", "UNASSISTED", "ASSISTED_FALLBACK", "CLOUD_VISION_LOW_QUALITY"}]]]
  /\ aProvider \in [ArabicPages -> [Bands -> [Creates ->
       {"none", "live", "lost", "unknown", "good", "bad", "failed", "cancelled"}]]]
  /\ aRun \in [ArabicRuns ->
       [pc : {"idle", "claim", "plan", "vision", "planned", "bands", "create", "created",
              "poll", "cancel", "answered", "accept", "fail", "fence"},
        page : ArabicPages, token : Nat, late : BOOLEAN, steps : 0..MaxBandSteps,
        answer : {"", "cancelled", "completed"}, band : Bands, create : Creates]]

(* A crash between a reservation and the stored id, a cancellation without *)
(* an answer and a run that lost its claim never lead to a second          *)
(* interaction beside a live one (a create whose answer timed out apart).  *)
OneLiveInteraction ==
  \A p \in ArabicPages, b \in Bands : \E k \in Creates : aProvider[p][b][k] # "live"

(* The paid calls are made at most once, in all runs together: one Vision  *)
(* call per page, and no create of an interaction that was created before. *)
ProviderIsPaidOnce ==
  [][/\ \A p \in ArabicPages : aPage'[p].calls <= 1
     /\ \A p \in ArabicPages, b \in Bands, k \in Creates :
          aProvider[p][b][k] # "none" /\ aProvider'[p][b][k] # aProvider[p][b][k]
          => aProvider'[p][b][k] \notin {"live", "lost"}]_aVars

KeepsArabicSuccess ==
  /\ \A p \in ArabicPages : aPage[p].status = "SUCCEEDED" => aPage'[p] = aPage[p]
  /\ \A p \in ArabicPages, b \in Bands :
       aBand[p][b].status = "SUCCEEDED" => aBand'[p][b] = aBand[p][b]
  /\ aAttempt' = "COMPLETED" =>
       \A p \in ArabicPages : BandsOf(p) # {} /\ OpenBands(p) = {}

(* What succeeded is kept by every later run, page or band, and a          *)
(* COMPLETED attempt has a successful band for everything it planned.      *)
ArabicSuccessIsKept == [][KeepsArabicSuccess]_aVars

(* The eight iterations of _process_band are enough for every history of a *)
(* band: no page is given up because a band used its steps.                *)
BandStepsSuffice == \A i \in ArabicRuns : Deciding(i) => aRun[i].steps < MaxBandSteps

(* A low-quality draft replaces a transcription only when the last         *)
(* interaction of the band is known to be over.                            *)
LowQualityAfterTheEnd ==
  \A p \in ArabicPages, b \in Bands :
    aBand[p][b].result = "CLOUD_VISION_LOW_QUALITY"
    => aProvider[p][b][aBand[p][b].count] # "live"

-----------------------------------------------------------------------------
(* The attempt implements WriteOnce. *)

(* A page is written with its bands when its row succeeds; the attempt row *)
(* is the only reader, answered when it is COMPLETED.                      *)
ArabicTexts ==
  [p \in ArabicPages |-> IF aPage[p].status = "SUCCEEDED" THEN aBand[p] ELSE <<>>]

ArabicStore == INSTANCE WriteOnce WITH
  Cells <- ArabicPages, Readers <- {"attempt"}, Empty <- <<>>, Unanswered <- <<>>,
  cell <- ArabicTexts,
  answer <- [r \in {"attempt"} |-> IF aAttempt = "COMPLETED" THEN ArabicTexts ELSE <<>>]

(* Whatever runs resume, cancel or fall back to and the operator resolves, *)
(* no band of a page that succeeded changes any more, and the attempt that *)
(* says COMPLETED stands for every page from then on.                      *)
ArabicWritesOnce == ArabicStore!Spec
=============================================================================
