---------------------- MODULE ArabicPrintedPagesProofs ----------------------
(***************************************************************************)
(* Theorems about ArabicPrintedPages, for any number of pages, bands and   *)
(* overlapping runs: at most one interaction of a band is live, no paid    *)
(* call is made twice, the eight decisions of a band suffice, what         *)
(* succeeded is kept, and so the attempt implements WriteOnce.             *)
(*                                                                         *)
(* The invariant speaks of a run that holds its page (HolderOK) and of any *)
(* run (RunOK) apart: a run that lost its claim may still stand before a   *)
(* create or a cancellation that it decided while it held the page.        *)
(***************************************************************************)
EXTENDS ArabicPrintedPages, FiniteSetTheorems, TLAPS

(* The rows by name. The empty string has a name of its own in the proofs.   *)
PageRecord ==
  [status : {"NONE", "PENDING", "RUNNING", "SUCCEEDED", "FAILED"}, token : Nat,
   live : BOOLEAN, vision : {0, 1}, calls : Nat, fence : BOOLEAN]
Blank == ""
Codes == {"", "FAILED", "AMBIGUOUS"}
Answers == {"", "cancelled", "completed"}
Results == {"", "UNASSISTED", "ASSISTED_FALLBACK", "CLOUD_VISION_LOW_QUALITY"}
BandRecord ==
  [status : BandStatuses, count : 0..2, ids : SUBSET Creates,
   code : Codes, confirmed : Answers,
   result : Results]
Calls ==
  [Creates -> {"none", "live", "lost", "unknown", "good", "bad", "failed", "cancelled"}]
RunRecord ==
  [pc : {"idle", "claim", "plan", "vision", "planned", "bands", "create", "created",
         "poll", "cancel", "answered", "accept", "fail", "fence"},
   page : ArabicPages, token : Nat, late : BOOLEAN, steps : 0..MaxBandSteps,
   answer : Answers, band : Bands, create : Creates]

(* What the program counters say: within an iteration of a band, in the band *)
(* loop, after a claim.                                                      *)
Mid == {"create", "created", "poll", "cancel", "answered", "accept"}
Loop == {"bands"} \cup Mid
Claimed(i) == aRun[i].pc \notin {"idle", "claim"}

(* The decisions that a band may still need: for every create that is left   *)
(* its reservation, its poll and the decision about what the poll left       *)
(* behind.                                                                   *)
Remaining(band) ==
  3 * (2 - band.count)
    + (IF IsRunning(band) THEN 2 ELSE IF band.status = "CANCEL_PENDING" THEN 1 ELSE 0)

(* A page: its lease, its Vision call, its plan, its success.                *)
PageOK(p) ==
  /\ aPage[p].status = "NONE" => aPage[p] = NoArabicPage
  /\ aPage[p].live => aPage[p].status = "RUNNING"
  /\ aPage[p].calls <= aPage[p].vision
  /\ ~Planned(p) => \A b \in Bands : aBand[p][b].status = "NONE"
  /\ aPage[p].status = "SUCCEEDED" => Planned(p) /\ OpenBands(p) = {}
  /\ aAttempt = "COMPLETED" => aPage[p].status = "SUCCEEDED"

(* A band and its two interactions. A fallback, or a retry of an ordinary    *)
(* failure, finds a primary that is not live, because its end was read or    *)
(* its cancellation confirmed.                                               *)
BandOK(band, calls) ==
  /\ band.status \in {"NONE", "PENDING"} => band.count = 0
  /\ band.status = "PRIMARY_RUNNING" => band.count = 1
  /\ band.status = "FALLBACK_RUNNING" => band.count = 2
  /\ band.status \in {"CANCEL_PENDING", "FAILED", "SUCCEEDED"} => band.count # 0
  /\ band.status = "CANCEL_PENDING" => band.count \in band.ids
  /\ band.code = "AMBIGUOUS" => band.status = "FAILED"
  /\ \A k \in Creates : k \in band.ids \/ calls[k] # "none" => k <= band.count
  /\ band.confirmed # Blank => band.ids # {}
  /\ 2 \notin band.ids /\ band.confirmed = "completed" => calls[1] \in {"good", "bad"}
  /\ 2 \notin band.ids /\ band.confirmed = "cancelled" => calls[1] # "live"
  /\ band.count = 2 => calls[1] # "live"
  /\ band.count = 1 /\ OrdinaryFailure(band) => calls[1] # "live"

(* The create of a run that has reserved it: not made by anyone, unless the  *)
(* band was fenced meanwhile.                                                *)
MayCreate(band, calls, k) ==
  /\ calls[k] = "none" /\ k \notin band.ids /\ band.count = k
  /\ IsRunning(band) \/ band.code = "AMBIGUOUS"

(* A run, whether or not it still holds its page.                            *)
RunOK(i) ==
  LET r == aRun[i]
      p == aRun[i].page
      band == aBand[p][r.band]
      calls == aProvider[p][r.band]
  IN
  /\ Claimed(i) => r.token \in 1..aPage[p].token
  /\ r.steps <= 7
  /\ r.pc \in {"idle", "claim", "plan", "vision", "planned"} => r.steps = 0
  /\ r.pc = "vision" => aPage[p].vision = 1 /\ aPage[p].calls = 0
  /\ r.pc = "planned" => aPage[p].calls = 1
  /\ r.pc \in {"vision", "planned"} => ~Planned(p)
  /\ r.pc \in Loop => Planned(p)
  /\ r.pc = "create" => MayCreate(band, calls, r.create)
  /\ r.pc = "created" => calls[r.create] # "none"
  /\ r.pc = "answered" =>
       /\ r.answer = "completed" => calls[r.create] \in {"good", "bad"}
       /\ r.answer = "cancelled" => calls[r.create] = "cancelled"

(* A run that holds its page: the band it works on is the first open one and *)
(* has not moved, and the steps it has left are enough.                      *)
HolderOK(i) ==
  LET r == aRun[i]
      p == aRun[i].page
      band == aBand[p][r.band]
  IN
  Fresh(i) =>
  /\ r.pc \in Mid =>
       OpenBands(p) # {} /\ r.band = FirstOpen(p) /\ band.count = r.create
  /\ r.pc \in {"create", "created", "poll"} => IsRunning(band)
  /\ r.pc = "poll" => r.create \in band.ids
  /\ r.pc \in {"cancel", "answered", "accept"} => band.status = "CANCEL_PENDING"
  /\ r.pc \in Loop /\ OpenBands(p) # {} =>
       r.steps + Remaining(aBand[p][FirstOpen(p)]) <= IF r.pc = "accept" THEN 7 ELSE 6

(* Two runs never share a claim, a Vision call or a create.                  *)
Apart(i, j) ==
  aRun[i].page = aRun[j].page =>
  /\ Claimed(i) /\ Claimed(j) => aRun[i].token # aRun[j].token
  /\ ~(aRun[i].pc \in {"vision", "planned"} /\ aRun[j].pc \in {"vision", "planned"})
  /\ ~(aRun[i].pc = "create" /\ aRun[j].pc = "create" /\ aRun[i].band = aRun[j].band)

(* The inductive invariant.                                                  *)
ArabicInvariant ==
  /\ ArabicTypeOK
  /\ \A p \in ArabicPages : PageOK(p)
  /\ \A p \in ArabicPages, b \in Bands : BandOK(aBand[p][b], aProvider[p][b])
  /\ \A i \in ArabicRuns : RunOK(i)
  /\ \A i \in ArabicRuns : HolderOK(i)
  /\ \A i, j \in ArabicRuns : i # j => Apart(i, j)

------------------------------------------------------------------------------
(* A nonempty set of band numbers has a least one: without a strictly        *)
(* smaller map of its lower bounds into themselves there would be a          *)
(* pigeonhole.                                                               *)
LEMMA LeastElement ==
  ASSUME NEW N \in Nat, NEW T \in SUBSET (1..N), T # {}
  PROVE  \E t \in T : \A u \in T : t <= u
<1> SUFFICES ASSUME \A t \in T : \E u \in T : u < t
             PROVE  FALSE
  OBVIOUS
<1> DEFINE D == {n \in 0..N : \A t \in T : n < t}
           s == [n \in D |-> n + 1]
<1>1. IsFiniteSet(D) /\ IsFiniteSet(D \ {0})
  <2>1. IsFiniteSet(0..N)
    BY FS_Interval
  <2>2. D \in SUBSET (0..N) /\ D \ {0} \in SUBSET (0..N)
    OBVIOUS
  <2> HIDE DEF D
  <2> QED  BY <2>1, <2>2, FS_Subset
<1>2. 0 \in D
  OBVIOUS
<1>3. Cardinality(D \ {0}) < Cardinality(D)
  <2>1. Cardinality(D \ {0}) = Cardinality(D) - 1
    BY <1>1, <1>2, FS_RemoveElement
  <2>2. Cardinality(D) \in Nat
    BY <1>1, FS_CardinalityType
  <2> QED  BY <2>1, <2>2
<1>4. ASSUME NEW n \in D
      PROVE  n + 1 \in D \ {0}
  <2>1. \A t \in T : n + 1 < t
    <3> SUFFICES ASSUME NEW t \in T, ~(n + 1 < t)
                 PROVE  FALSE
      OBVIOUS
    <3>1. t = n + 1
      OBVIOUS
    <3>2. PICK u \in T : u < t
      OBVIOUS
    <3>3. n < u
      OBVIOUS
    <3> QED  BY <3>1, <3>2, <3>3
  <2>2. PICK t \in T : TRUE
    OBVIOUS
  <2>3. n + 1 <= N
    BY <2>1, <2>2
  <2> QED  BY <2>1, <2>3
<1>5. s \in [D -> D \ {0}]
  BY <1>4
<1>6. PICK m, n \in D : m # n /\ s[m] = s[n]
  <2> HIDE DEF s, D
  <2> QED  BY <1>1, <1>3, <1>5, FS_PigeonHole
<1>7. m + 1 = n + 1
  BY <1>6
<1> QED  BY <1>6, <1>7

LEMMA LeastBand ==
  ASSUME NEW S \in SUBSET Bands, S # {}
  PROVE  (CHOOSE b \in S : \A c \in S : b <= c) \in S
<1>1. \E b \in S : \A c \in S : b <= c
  BY LeastElement, ArabicPagesAssumption DEF Bands
<1> QED  BY <1>1

LEMMA FirstOpenIsOpen ==
  ASSUME NEW p \in ArabicPages, OpenBands(p) # {}
  PROVE  FirstOpen(p) \in OpenBands(p) /\ FirstOpen(p) \in Bands
<1>1. OpenBands(p) \in SUBSET Bands
  BY DEF OpenBands, BandsOf
<1> QED  BY <1>1, LeastBand DEF FirstOpen

(* The type invariant by the names above, and what it says of one run.       *)
LEMMA ArabicTyped ==
  ArabicTypeOK <=>
    /\ aAttempt \in {"NONE", "IN_PROGRESS", "PARTIAL", "COMPLETED"}
    /\ aPage \in [ArabicPages -> PageRecord]
    /\ aBand \in [ArabicPages -> [Bands -> BandRecord]]
    /\ aProvider \in [ArabicPages -> [Bands -> Calls]]
    /\ aRun \in [ArabicRuns -> RunRecord]
BY DEF ArabicTypeOK, PageRecord, BandRecord, Calls, RunRecord, Codes, Answers, Results

LEMMA RunTyped ==
  ASSUME ArabicTypeOK, NEW i \in ArabicRuns
  PROVE  /\ aRun[i] \in RunRecord
         /\ aRun[i].page \in ArabicPages /\ aRun[i].band \in Bands
         /\ aRun[i].create \in Creates /\ aRun[i].token \in Nat
         /\ aRun[i].steps \in 0..8
         /\ aPage[aRun[i].page] \in PageRecord
         /\ \A b \in Bands : /\ aBand[aRun[i].page][b] \in BandRecord
                             /\ aProvider[aRun[i].page][b] \in Calls
<1>1. aRun[i] \in RunRecord
  BY ArabicTyped
<1>2. /\ aRun[i].page \in ArabicPages /\ aRun[i].band \in Bands
      /\ aRun[i].create \in Creates /\ aRun[i].token \in Nat
      /\ aRun[i].steps \in 0..8
  BY <1>1 DEF RunRecord, MaxBandSteps
<1> QED  BY <1>1, <1>2, ArabicTyped

(* Provider calls only move forward. *)
MovesOn(old, new) ==
  \A k \in Creates : /\ old[k] # "none" => new[k] # "none"
                     /\ old[k] \in {"good", "bad", "cancelled"} => new[k] = old[k]

------------------------------------------------------------------------------
(* The frame of a step of run i that writes one band, one row of calls and   *)
(* its own locals: what must be shown of the new values for the invariant to *)
(* hold again.                                                               *)
LEMMA RunStep ==
  ASSUME ArabicInvariant, NEW i \in ArabicRuns, Claimed(i),
         NEW b \in Bands, NEW nb \in BandRecord, NEW np \in Calls, NEW nr \in RunRecord,
         UNCHANGED <<aAttempt, aPage>>,
         aBand' = [aBand EXCEPT ![Page(i)] = [@ EXCEPT ![b] = nb]],
         aProvider' = [aProvider EXCEPT ![Page(i)] = [@ EXCEPT ![b] = np]],
         aRun' = [aRun EXCEPT ![i] = nr],
         nr.page = Page(i), nr.token = aRun[i].token,
         Fresh(i) \/ nb = aBand[Page(i)][b],
         nb.status = "NONE" <=> aBand[Page(i)][b].status = "NONE",
         aBand[Page(i)][b].status = "SUCCEEDED" => nb = aBand[Page(i)][b],
         BandOK(nb, np),
         MovesOn(aProvider[Page(i)][b], np),
         \A j \in ArabicRuns \ {i} :
           aRun[j].pc = "create" /\ Page(j) = Page(i) /\ aRun[j].band = b
           => MayCreate(nb, np, aRun[j].create),
         nr.pc \in {"vision", "planned"} => aRun[i].pc \in {"vision", "planned"},
         nr.pc = "create" =>
           \A j \in ArabicRuns \ {i} :
             ~(aRun[j].pc = "create" /\ Page(j) = Page(i) /\ aRun[j].band = nr.band),
         RunOK(i)', HolderOK(i)'
  PROVE  ArabicInvariant'
<1> DEFINE p == Page(i)
<1>a. ArabicTypeOK
  BY DEF ArabicInvariant
<1>b. 1 \in Bands
  BY ArabicPagesAssumption DEF Bands
<1>1. /\ p \in ArabicPages /\ aRun[i] \in RunRecord
      /\ aBand \in [ArabicPages -> [Bands -> BandRecord]]
      /\ aProvider \in [ArabicPages -> [Bands -> Calls]]
      /\ aPage \in [ArabicPages -> PageRecord]
      /\ aRun \in [ArabicRuns -> RunRecord]
  BY <1>a, RunTyped, ArabicTyped DEF Page
<1>2. ArabicTypeOK'
  <2>1. aBand' \in [ArabicPages -> [Bands -> BandRecord]]
    BY <1>1
  <2>2. aProvider' \in [ArabicPages -> [Bands -> Calls]]
    BY <1>1
  <2>3. aRun' \in [ArabicRuns -> RunRecord]
    BY <1>1
  <2> QED  BY <2>1, <2>2, <2>3, <1>a
           DEF ArabicTypeOK, PageRecord, BandRecord, Calls, RunRecord, Codes, Answers,
               Results
<1>3. /\ \A q \in ArabicPages : q # p => aBand'[q] = aBand[q] /\ aProvider'[q] = aProvider[q]
      /\ \A c \in Bands : c # b => aBand'[p][c] = aBand[p][c] /\ aProvider'[p][c] = aProvider[p][c]
      /\ aBand'[p][b] = nb /\ aProvider'[p][b] = np
  BY <1>1
<1>4. \A j \in ArabicRuns : j # i => aRun'[j] = aRun[j]
  BY <1>1
<1>5. aRun'[i] = nr
  BY <1>1
<1>6. \A q \in ArabicPages : Planned(q)' <=> Planned(q)
  BY <1>1, <1>3, <1>b DEF Planned
<1>7. \A q \in ArabicPages : OpenBands(q) = {} => OpenBands(q)' = {}
  BY <1>1, <1>3 DEF OpenBands, BandsOf
<1>8. \A q \in ArabicPages : PageOK(q)'
  <2> TAKE q \in ArabicPages
  <2>1. PageOK(q)
    BY DEF ArabicInvariant
  <2>2. ~Planned(q)' => \A c \in Bands : aBand'[q][c].status = "NONE"
    BY <1>1, <1>3, <1>6, <2>1 DEF PageOK
  <2> QED  BY <2>1, <2>2, <1>6, <1>7 DEF PageOK
<1>9. \A q \in ArabicPages, c \in Bands : BandOK(aBand[q][c], aProvider[q][c])'
  BY <1>3 DEF ArabicInvariant
<1>10. \A j \in ArabicRuns : RunOK(j)'
  <2>1. SUFFICES ASSUME NEW j \in ArabicRuns, j # i
                 PROVE  RunOK(j)'
    OBVIOUS
  <2>2. RunOK(j) /\ Page(j) \in ArabicPages /\ aRun[j].band \in Bands
         /\ aRun[j].create \in Creates
    BY <1>a, RunTyped DEF ArabicInvariant, Page
  <2>3. /\ aRun'[j] = aRun[j] /\ (Planned(Page(j))' <=> Planned(Page(j)))
        /\ aPage' = aPage
    BY <1>3, <1>4, <1>6, <2>1, <2>2, ZenonT(60) DEF Page, Planned
  <2>4. CASE Page(j) = p /\ aRun[j].band = b
    <3>1. /\ aBand'[Page(j)][aRun[j].band] = nb /\ aProvider'[Page(j)][aRun[j].band] = np
      BY <1>3, <2>4
    <3>2. aRun[j].pc = "create" => MayCreate(nb, np, aRun[j].create)
      BY <2>1, <2>4
    <3>3. aRun[j].pc = "created" => np[aRun[j].create] # "none"
      BY <2>2, <2>4 DEF RunOK, Page, MovesOn
    <3>4. aRun[j].pc = "answered" =>
            /\ aRun[j].answer = "completed" => np[aRun[j].create] \in {"good", "bad"}
            /\ aRun[j].answer = "cancelled" => np[aRun[j].create] = "cancelled"
      BY <2>2, <2>4, ZenonT(60) DEF RunOK, Page, MovesOn
    <3> QED  BY <2>2, <2>3, <3>1, <3>2, <3>3, <3>4, ZenonT(60) DEF RunOK, Page, Claimed, Planned
  <2>5. CASE Page(j) # p \/ aRun[j].band # b
    <3>1. /\ aBand'[Page(j)][aRun[j].band] = aBand[Page(j)][aRun[j].band]
          /\ aProvider'[Page(j)][aRun[j].band] = aProvider[Page(j)][aRun[j].band]
      BY <1>3, <2>2, <2>5
    <3> QED  BY <2>2, <2>3, <3>1, ZenonT(60) DEF RunOK, Page, Claimed, Planned
  <2> QED  BY <2>4, <2>5
<1>11. \A j \in ArabicRuns : HolderOK(j)'
  <2>1. SUFFICES ASSUME NEW j \in ArabicRuns, j # i
                 PROVE  HolderOK(j)'
    OBVIOUS
  <2>2. /\ HolderOK(j) /\ Page(j) \in ArabicPages /\ aRun[j].band \in Bands
        /\ aRun[j].create \in Creates
    BY <1>a, RunTyped DEF ArabicInvariant, Page
  <2>3. aRun'[j] = aRun[j] /\ (Fresh(j)' <=> Fresh(j))
    BY <1>4, <2>1 DEF Fresh, RowOf, Page
  <2>4. CASE Page(j) # p \/ nb = aBand[p][b]
    <3>1. aBand'[Page(j)] = aBand[Page(j)]
      BY <1>1, <1>3, <2>2, <2>4
    <3>p. Page(j)' = Page(j)
      BY <2>3 DEF Page
    <3>b. BandsOf(Page(j))' = BandsOf(Page(j))
      BY <3>p, <3>1 DEF BandsOf
    <3>o. OpenBands(Page(j))' = OpenBands(Page(j))
      BY <3>p, <3>1, <3>b DEF OpenBands
    <3>2. /\ OpenBands(Page(j))' = OpenBands(Page(j))
          /\ FirstOpen(Page(j))' = FirstOpen(Page(j))
      BY <3>o DEF FirstOpen
    <3> QED  BY <2>2, <2>3, <3>1, <3>2 DEF HolderOK, Page
  <2>5. CASE Page(j) = p /\ nb # aBand[p][b]
    <3>1. Fresh(i) /\ Apart(i, j) /\ RunOK(i)
      BY <2>1, <2>5 DEF ArabicInvariant
    <3>2. ~(Claimed(j) /\ Fresh(j))
      BY <3>1, <2>5 DEF Apart, Fresh, RowOf, Page
    <3>3. aRun[j].pc \in {"idle", "claim"} \/ ~Fresh(j)
      BY <3>2 DEF Claimed
    <3> QED  BY <2>3, <3>3 DEF HolderOK, Mid, Loop
  <2> QED  BY <2>4, <2>5
<1>12. \A j, k \in ArabicRuns : j # k => Apart(j, k)'
  <2> SUFFICES ASSUME NEW j \in ArabicRuns, NEW k \in ArabicRuns, j # k
               PROVE  Apart(j, k)'
    OBVIOUS
  <2>1. Apart(j, k)
    BY DEF ArabicInvariant
  <2>2. CASE j # i /\ k # i
    BY <2>1, <2>2, <1>4 DEF Apart, Claimed
  <2>3. CASE j = i
    BY <2>1, <2>3, <1>4, <1>5 DEF Apart, Claimed, Page
  <2>4. CASE k = i
    BY <2>1, <2>4, <1>4, <1>5 DEF Apart, Claimed, Page
  <2> QED  BY <2>2, <2>3, <2>4
<1> QED  BY <1>2, <1>8, <1>9, <1>10, <1>11, <1>12 DEF ArabicInvariant

(* What a run that holds its page finds: the band it works on. *)
AtBand(i) == Deciding(i) \/ aRun[i].pc \in Mid
CallsOf(i) == aProvider[Page(i)][BandIndex(i)]

------------------------------------------------------------------------------
(* What the invariant gives to a run that works on a band of its page.       *)
LEMMA HolderView ==
  ASSUME ArabicInvariant, NEW i \in ArabicRuns, Fresh(i), AtBand(i)
  PROVE  /\ Page(i) \in ArabicPages /\ BandIndex(i) \in Bands /\ aRun[i].steps \in 0..7
         /\ aRun[i] \in RunRecord /\ Claimed(i) /\ Planned(Page(i))
         /\ OpenBands(Page(i)) # {} /\ BandIndex(i) = FirstOpen(Page(i))
         /\ BandOf(i) = aBand[Page(i)][FirstOpen(Page(i))]
         /\ BandOf(i).status \notin {"NONE", "SUCCEEDED"}
         /\ BandOf(i) \in BandRecord /\ CallsOf(i) \in Calls
         /\ BandOK(BandOf(i), CallsOf(i))
         /\ CreateOf(i) = BandOf(i).count
         /\ aRun[i].steps + Remaining(BandOf(i)) <= IF aRun[i].pc = "accept" THEN 7 ELSE 6
<1>a. /\ ArabicTypeOK /\ RunOK(i) /\ HolderOK(i)
      /\ aBand \in [ArabicPages -> [Bands -> BandRecord]]
      /\ aProvider \in [ArabicPages -> [Bands -> Calls]]
  BY ArabicTyped DEF ArabicInvariant
<1>1. /\ Page(i) \in ArabicPages /\ aRun[i].band \in Bands /\ aRun[i].steps \in 0..7
      /\ aRun[i] \in RunRecord
  BY <1>a, RunTyped DEF Page, RunOK
<1>2. aRun[i].pc \in Loop /\ Claimed(i) /\ Planned(Page(i))
  BY <1>a DEF AtBand, Deciding, Between, Loop, Mid, Claimed, RunOK, Page
<1>3. OpenBands(Page(i)) # {}
  BY <1>a DEF AtBand, Deciding, HolderOK, Page
<1>4. FirstOpen(Page(i)) \in OpenBands(Page(i)) /\ FirstOpen(Page(i)) \in Bands
  BY <1>1, <1>3, FirstOpenIsOpen
<1>5. BandIndex(i) = FirstOpen(Page(i))
  <2>1. CASE Between(i)
    BY <2>1 DEF BandIndex
  <2>2. CASE ~Between(i)
    BY <2>2, <1>a DEF AtBand, Deciding, HolderOK, Page, BandIndex
  <2> QED  BY <2>1, <2>2
<1>6. CreateOf(i) = BandOf(i).count
  <2>1. CASE Between(i)
    BY <2>1 DEF CreateOf
  <2>2. CASE ~Between(i)
    BY <2>2, <1>a DEF AtBand, Deciding, HolderOK, Page, BandIndex, CreateOf, BandOf
  <2> QED  BY <2>1, <2>2
<1>7. BandOf(i) = aBand[Page(i)][FirstOpen(Page(i))]
  BY <1>5 DEF BandOf
<1>8. BandOf(i).status \notin {"NONE", "SUCCEEDED"}
  BY <1>4, <1>7 DEF OpenBands, BandsOf
<1>9. BandOK(BandOf(i), CallsOf(i)) /\ BandOf(i) \in BandRecord /\ CallsOf(i) \in Calls
  BY <1>a, <1>1, <1>4, <1>5, <1>7 DEF ArabicInvariant, CallsOf
<1>10. aRun[i].steps + Remaining(BandOf(i)) <= IF aRun[i].pc = "accept" THEN 7 ELSE 6
  BY <1>a, <1>2, <1>3, <1>7 DEF HolderOK, Page
<1> QED  BY <1>1, <1>2, <1>3, <1>4, <1>5, <1>6, <1>7, <1>8, <1>9, <1>10

LEMMA RemainingIsBounded ==
  ASSUME NEW band \in BandRecord, NEW calls, BandOK(band, calls)
  PROVE  Remaining(band) \in 0..6
<1>1. band.count \in 0..2
  BY DEF BandRecord
<1>2. /\ band.status = "PRIMARY_RUNNING" => band.count = 1
      /\ band.status = "FALLBACK_RUNNING" => band.count = 2
      /\ band.status = "CANCEL_PENDING" => band.count # 0
  BY DEF BandOK
<1> QED  BY <1>1, <1>2 DEF Remaining, IsRunning

(* A run without its page may still stand before a create of that band.      *)
LEMMA OthersAtCreate ==
  ASSUME ArabicInvariant, NEW i \in ArabicRuns, NEW j \in ArabicRuns, aRun[j].pc = "create",
         Page(j) = Page(i), aRun[j].band = BandIndex(i)
  PROVE  MayCreate(BandOf(i), CallsOf(i), aRun[j].create) /\ aRun[j].create = BandOf(i).count
BY DEF ArabicInvariant, RunOK, Page, BandOf, CallsOf, MayCreate

(* The same frame for a run that holds its page.                             *)
LEMMA HolderWrites ==
  ASSUME ArabicInvariant, NEW i \in ArabicRuns, Fresh(i), AtBand(i),
         NEW nb \in BandRecord, NEW np \in Calls, NEW nr \in RunRecord,
         UNCHANGED <<aAttempt, aPage>>,
         aBand' = [aBand EXCEPT ![Page(i)][BandIndex(i)] = nb],
         aProvider' = [aProvider EXCEPT ![Page(i)][BandIndex(i)] = np],
         aRun' = [aRun EXCEPT ![i] = nr],
         nr.page = Page(i), nr.token = aRun[i].token, nr.steps <= 7,
         nb.status # "NONE", BandOK(nb, np), MovesOn(CallsOf(i), np),
         aRun[i].pc # "create" /\ MayCreate(BandOf(i), CallsOf(i), BandOf(i).count) =>
           MayCreate(nb, np, BandOf(i).count) /\ nr.pc # "create",
         aRun[i].pc = "create" => nr.pc # "create",
         nr.pc \in Loop \cup {"fail"},
         nr.pc \in Mid =>
           nr.band = BandIndex(i) /\ nr.create = nb.count /\ nb.status # "SUCCEEDED",
         nr.pc = "create" => MayCreate(nb, np, nr.create) /\ IsRunning(nb),
         nr.pc \notin {"created", "answered"},
         nr.pc = "poll" => IsRunning(nb) /\ nb.count \in nb.ids,
         nr.pc \in {"cancel", "accept"} => nb.status = "CANCEL_PENDING",
         nb.status # "SUCCEEDED" /\ nr.pc \in Loop =>
           nr.steps + Remaining(nb) <= IF nr.pc = "accept" THEN 7 ELSE 6,
         nb.status = "SUCCEEDED" => nr.pc = "bands" /\ nr.steps = 0
  PROVE  ArabicInvariant'
<1>p. PICK p \in ArabicPages, b \in Bands : p = Page(i) /\ b = BandIndex(i)
  BY HolderView
<1>a. /\ p \in ArabicPages /\ b \in Bands
      /\ aRun[i] \in RunRecord /\ Claimed(i) /\ Planned(p)
      /\ OpenBands(p) # {} /\ b = FirstOpen(p)
      /\ BandOf(i).status \notin {"NONE", "SUCCEEDED"}
      /\ BandOf(i) \in BandRecord /\ CallsOf(i) \in Calls
      /\ BandOK(BandOf(i), CallsOf(i))
  BY <1>p, HolderView
<1>t. /\ aBand \in [ArabicPages -> [Bands -> BandRecord]]
      /\ aProvider \in [ArabicPages -> [Bands -> Calls]]
      /\ aPage \in [ArabicPages -> PageRecord]
      /\ aRun \in [ArabicRuns -> RunRecord]
      /\ 1 \in Bands
  BY ArabicTyped, ArabicPagesAssumption DEF ArabicInvariant, Bands
<1>1. /\ aBand' = [aBand EXCEPT ![p] = [@ EXCEPT ![b] = nb]]
      /\ aProvider' = [aProvider EXCEPT ![p] = [@ EXCEPT ![b] = np]]
  BY <1>p
<1>2. /\ aBand[p][b] = BandOf(i) /\ aProvider[p][b] = CallsOf(i)
  BY <1>p DEF BandOf, CallsOf
<1>3. /\ aBand'[p][b] = nb /\ aProvider'[p][b] = np /\ aRun'[i] = nr
      /\ \A c \in Bands : c # b => aBand'[p][c] = aBand[p][c]
  BY <1>1, <1>a, <1>t
<1>4. Page(i)' = p /\ aRun'[i].page = p /\ aRun[i].page = p
  BY <1>p, <1>3 DEF Page
<1>5. Planned(p)'
  BY <1>a, <1>3, <1>t DEF Planned
<1>6. nr.token \in 1..aPage'[p].token
  BY <1>a, <1>4 DEF ArabicInvariant, RunOK, Page
<1>7. RunOK(i)'
  <2>1. nr.pc \notin {"idle", "claim", "plan", "vision", "planned", "created", "answered"}
    BY DEF Loop, Mid
  <2>2. nr.pc = "create" => MayCreate(aBand'[p][nr.band], aProvider'[p][nr.band], nr.create)
    BY <1>p, <1>3 DEF Mid
  <2> QED  BY <1>3, <1>4, <1>5, <1>6, <2>1, <2>2 DEF RunOK, Planned
<1>8. HolderOK(i)'
  <2>1. CASE nb.status # "SUCCEEDED"
    <3>1. BandsOf(p)' = BandsOf(p)
      BY <1>a, <1>3, <1>2, <1>4 DEF BandsOf
    <3>2. OpenBands(p)' = OpenBands(p)
      BY <1>a, <1>2, <1>3, <3>1, <2>1 DEF OpenBands, BandsOf
    <3>3. FirstOpen(p)' = FirstOpen(p)
      BY <3>2 DEF FirstOpen
    <3>4. nr.pc \in Mid => aBand'[p][nr.band] = nb
      BY <1>p, <1>3
    <3>5. /\ nr.pc \in Mid => OpenBands(p)' # {} /\ nr.band = FirstOpen(p)'
                              /\ nb.count = nr.create
          /\ aBand'[p][FirstOpen(p)'] = nb
      BY <1>p, <1>a, <1>3, <3>2, <3>3
    <3> QED  BY <2>1, <1>3, <1>4, <3>2, <3>4, <3>5 DEF HolderOK, Mid
  <2>2. CASE nb.status = "SUCCEEDED"
    <3>1. CASE OpenBands(p)' = {}
      BY <2>2, <1>3, <1>4, <3>1 DEF HolderOK, Mid
    <3>2. CASE OpenBands(p)' # {}
      <4>1. FirstOpen(p)' \in Bands
        <5>1. OpenBands(p)' \in SUBSET Bands
          BY DEF OpenBands, BandsOf
        <5> QED  BY <5>1, <3>2, LeastBand DEF FirstOpen
      <4>2. /\ BandOK(aBand'[p][FirstOpen(p)'], aProvider'[p][FirstOpen(p)'])
            /\ aBand'[p][FirstOpen(p)'] \in BandRecord
        <5>1. CASE FirstOpen(p)' = b
          BY <5>1, <1>3
        <5>2. CASE FirstOpen(p)' # b
          BY <4>1, <5>2, <1>1, <1>3, <1>a, <1>t DEF ArabicInvariant
        <5> QED  BY <5>1, <5>2
      <4>3. Remaining(aBand'[p][FirstOpen(p)']) \in 0..6
        BY <4>2, RemainingIsBounded
      <4>4. Remaining(aBand[p][FirstOpen(p)])' \in 0..6
        BY <4>3
      <4> QED  BY <2>2, <1>3, <1>4, <4>4 DEF HolderOK, Mid
    <3> QED  BY <3>1, <3>2
  <2> QED  BY <2>1, <2>2
<1>9. nb.status = "NONE" <=> aBand[p][b].status = "NONE"
  BY <1>a, <1>2
<1>10. ASSUME NEW j \in ArabicRuns \ {i}, aRun[j].pc = "create", Page(j) = p,
              aRun[j].band = b
       PROVE  MayCreate(nb, np, aRun[j].create) /\ nr.pc # "create" /\ aRun[i].pc # "create"
  <2>1. MayCreate(BandOf(i), CallsOf(i), aRun[j].create) /\ aRun[j].create = BandOf(i).count
    BY <1>p, <1>10, OthersAtCreate
  <2>2. aRun[i].pc # "create"
    <3> SUFFICES ASSUME aRun[i].pc = "create" PROVE FALSE
      OBVIOUS
    <3>1. aRun[i].band = b /\ Apart(i, j)
      BY <1>p, <1>10 DEF BandIndex, Between, ArabicInvariant
    <3> QED  BY <1>4, <1>10, <3>1 DEF Apart, Page
  <2> QED  BY <2>1, <2>2
<1> QED
  <2>1. nr.pc \notin {"vision", "planned"}
    BY DEF Loop, Mid
  <2>2. nr.pc = "create" =>
          \A j \in ArabicRuns \ {i} :
             ~(aRun[j].pc = "create" /\ Page(j) = p /\ aRun[j].band = nr.band)
    BY <1>p, <1>10 DEF Mid
  <2>3. /\ aBand' = [aBand EXCEPT ![Page(i)] = [@ EXCEPT ![b] = nb]]
        /\ aProvider' = [aProvider EXCEPT ![Page(i)] = [@ EXCEPT ![b] = np]]
        /\ nb.status = "NONE" <=> aBand[Page(i)][b].status = "NONE"
        /\ aBand[Page(i)][b].status = "SUCCEEDED" => nb = aBand[Page(i)][b]
        /\ MovesOn(aProvider[Page(i)][b], np)
        /\ \A j \in ArabicRuns \ {i} :
             aRun[j].pc = "create" /\ Page(j) = Page(i) /\ aRun[j].band = b
             => MayCreate(nb, np, aRun[j].create)
        /\ nr.pc = "create" =>
             \A j \in ArabicRuns \ {i} :
               ~(aRun[j].pc = "create" /\ Page(j) = Page(i) /\ aRun[j].band = nr.band)
    BY <1>p, <1>1, <1>2, <1>9, <1>10, <1>a, <2>2
  <2> QED  BY <1>a, <1>7, <1>8, <2>1, <2>3, RunStep

(* The run after a turn: page and token are those it claimed. *)
Moved(r, pc, steps, band, create) ==
  [r EXCEPT !.pc = pc, !.steps = steps, !.band = band, !.create = create]

LEMMA MovedRun ==
  ASSUME NEW r \in RunRecord, NEW pc \in Loop \cup {"fail"}, NEW steps \in 0..8,
         NEW band \in Bands, NEW create \in Creates
  PROVE  /\ Moved(r, pc, steps, band, create) \in RunRecord
         /\ Moved(r, pc, steps, band, create).pc = pc
         /\ Moved(r, pc, steps, band, create).steps = steps
         /\ Moved(r, pc, steps, band, create).band = band
         /\ Moved(r, pc, steps, band, create).create = create
         /\ Moved(r, pc, steps, band, create).page = r.page
         /\ Moved(r, pc, steps, band, create).token = r.token
BY DEF Moved, RunRecord, Loop, Mid, MaxBandSteps

LEMMA Moves ==
  ASSUME NEW i \in ArabicRuns, aRun \in [ArabicRuns -> RunRecord]
  PROVE  /\ \A pc : Goto(i, pc) =>
              aRun' = [aRun EXCEPT ![i] =
                Moved(aRun[i], pc, aRun[i].steps, aRun[i].band, aRun[i].create)]
         /\ \A pc : Turn(i, pc) =>
              aRun' = [aRun EXCEPT ![i] =
                Moved(aRun[i], pc, IF Between(i) THEN aRun[i].steps + 1 ELSE aRun[i].steps,
                      BandIndex(i),
                      IF pc = "create" THEN BandOf(i).count + 1 ELSE CreateOf(i))]
         /\ \A steps : Restart(i, steps) =>
              aRun' = [aRun EXCEPT ![i] = Moved(aRun[i], "bands", steps, 1, 1)]
<1>1. ASSUME NEW pc, Goto(i, pc)
      PROVE  aRun' = [aRun EXCEPT ![i] =
                Moved(aRun[i], pc, aRun[i].steps, aRun[i].band, aRun[i].create)]
  BY <1>1 DEF Goto, Moved, RunRecord
<1>2. ASSUME NEW pc, Turn(i, pc)
      PROVE  aRun' = [aRun EXCEPT ![i] =
                Moved(aRun[i], pc, IF Between(i) THEN aRun[i].steps + 1 ELSE aRun[i].steps,
                      BandIndex(i),
                      IF pc = "create" THEN BandOf(i).count + 1 ELSE CreateOf(i))]
  BY <1>2 DEF Turn, Moved, RunRecord
<1>3. ASSUME NEW steps, Restart(i, steps)
      PROVE  aRun' = [aRun EXCEPT ![i] = Moved(aRun[i], "bands", steps, 1, 1)]
  BY <1>3 DEF Restart, Moved, RunRecord
<1> QED  BY <1>1, <1>2, <1>3

(* Another run may be about to make the create of this band.                 *)
Contested(i) ==
  aRun[i].pc # "create" /\ MayCreate(BandOf(i), CallsOf(i), BandOf(i).count)

(* A step that ends an iteration, and one that goes on within it.            *)
LEMMA HolderRestarts ==
  ASSUME ArabicInvariant, NEW i \in ArabicRuns, AtBand(i),
         NEW nb \in BandRecord, NEW np \in Calls, NEW steps \in 0..7,
         WriteBand(i, nb), Restart(i, steps),
         aProvider' = [aProvider EXCEPT ![Page(i)][BandIndex(i)] = np],
         nb.status # "NONE", BandOK(nb, np), MovesOn(CallsOf(i), np),
         ~Contested(i),
         nb.status # "SUCCEEDED" => steps + Remaining(nb) <= 6,
         nb.status = "SUCCEEDED" => steps = 0
  PROVE  ArabicInvariant'
<1> DEFINE nr == Moved(aRun[i], "bands", steps, 1, 1)
<1>1. aRun \in [ArabicRuns -> RunRecord] /\ aRun[i] \in RunRecord /\ 1 \in Bands
  BY ArabicTyped, ArabicPagesAssumption DEF ArabicInvariant, Bands
<1>2. /\ nr \in RunRecord /\ nr.pc = "bands" /\ nr.steps = steps
      /\ nr.page = Page(i) /\ nr.token = aRun[i].token
  BY <1>1, MovedRun DEF Loop, Creates, Page
<1>3. aRun' = [aRun EXCEPT ![i] = nr]
  BY <1>1, Moves
<1>4. /\ Fresh(i) /\ UNCHANGED <<aAttempt, aPage>>
      /\ aBand' = [aBand EXCEPT ![Page(i)][BandIndex(i)] = nb]
  BY DEF WriteBand
<1> HIDE DEF nr
<1>5. nr.pc \notin Mid /\ nr.pc \in Loop
  BY <1>2 DEF Loop, Mid
<1>6. aRun[i].pc # "create" /\ MayCreate(BandOf(i), CallsOf(i), BandOf(i).count) => FALSE
  BY DEF Contested
<1>7. nr.pc \notin {"create", "created", "poll", "cancel", "answered", "accept"}
  BY <1>2
<1>8. /\ nr.steps <= 7
      /\ nb.status # "SUCCEEDED" /\ nr.pc \in Loop =>
            nr.steps + Remaining(nb) <= IF nr.pc = "accept" THEN 7 ELSE 6
      /\ nb.status = "SUCCEEDED" => nr.pc = "bands" /\ nr.steps = 0
  <2>1. nr.pc = "bands" /\ nr.steps = steps
    BY <1>2
  <2> QED  BY <2>1
<1> HIDE DEF WriteBand, Restart
<1> QED  BY <1>2, <1>3, <1>4, <1>5, <1>6, <1>7, <1>8, HolderWrites

LEMMA HolderTurns ==
  ASSUME ArabicInvariant, NEW i \in ArabicRuns, AtBand(i), aRun[i].pc # "create",
         NEW nb \in BandRecord, NEW pc \in {"create", "cancel", "accept"},
         WriteBand(i, nb), Turn(i, pc), UNCHANGED aProvider,
         nb.status \notin {"NONE", "SUCCEEDED"}, BandOK(nb, CallsOf(i)),
         ~Contested(i), aRun[i].steps <= 6,
         nb.count = IF pc = "create" THEN BandOf(i).count + 1 ELSE BandOf(i).count,
         pc = "create" => MayCreate(nb, CallsOf(i), nb.count) /\ IsRunning(nb),
         pc \in {"cancel", "accept"} => nb.status = "CANCEL_PENDING",
         (IF Between(i) THEN aRun[i].steps + 1 ELSE aRun[i].steps) + Remaining(nb)
           <= IF pc = "accept" THEN 7 ELSE 6
  PROVE  ArabicInvariant'
<1> DEFINE steps == IF Between(i) THEN aRun[i].steps + 1 ELSE aRun[i].steps
           create == IF pc = "create" THEN BandOf(i).count + 1 ELSE CreateOf(i)
           nr == Moved(aRun[i], pc, steps, BandIndex(i), create)
<1>0. /\ Fresh(i) /\ UNCHANGED <<aAttempt, aPage>>
      /\ aBand' = [aBand EXCEPT ![Page(i)][BandIndex(i)] = nb]
  BY DEF WriteBand
<1>1. aRun \in [ArabicRuns -> RunRecord] /\ aRun[i] \in RunRecord
      /\ aProvider \in [ArabicPages -> [Bands -> Calls]]
  BY ArabicTyped DEF ArabicInvariant
<1>2. /\ BandIndex(i) \in Bands /\ aRun[i].steps \in 0..7 /\ CreateOf(i) = BandOf(i).count
      /\ Page(i) \in ArabicPages /\ CallsOf(i) \in Calls
  BY <1>0, HolderView
<1>3. create = nb.count /\ create \in Creates
  <2>1. nb.count \in 0..2
    BY DEF BandRecord
  <2>2. nb.status \in {"PRIMARY_RUNNING", "FALLBACK_RUNNING", "CANCEL_PENDING"}
    BY DEF IsRunning
  <2>a. /\ nb.status = "PRIMARY_RUNNING" => nb.count = 1
        /\ nb.status = "FALLBACK_RUNNING" => nb.count = 2
        /\ nb.status = "CANCEL_PENDING" => nb.count # 0
    BY DEF BandOK
  <2>3. nb.count # 0
    BY <2>a, <2>2
  <2> QED  BY <1>2, <2>1, <2>3 DEF Creates
<1>4. steps \in 0..7
  BY <1>2
<1>5. /\ nr \in RunRecord /\ nr.pc = pc /\ nr.steps = steps /\ nr.band = BandIndex(i)
      /\ nr.create = nb.count /\ nr.page = Page(i) /\ nr.token = aRun[i].token
  <2>1. pc \in Loop \cup {"fail"} /\ steps \in 0..8
    BY <1>4 DEF Loop, Mid
  <2> HIDE DEF steps, create
  <2> QED  BY <1>1, <1>2, <1>3, <2>1, MovedRun, SMTT(60) DEF Page
<1>6. aRun' = [aRun EXCEPT ![i] = nr]
  BY <1>1, Moves
<1>7. aProvider' = [aProvider EXCEPT ![Page(i)][BandIndex(i)] = CallsOf(i)]
  BY <1>1, <1>2 DEF CallsOf
<1>8. MovesOn(CallsOf(i), CallsOf(i))
  BY DEF MovesOn
<1>9. nr.steps + Remaining(nb) <= IF nr.pc = "accept" THEN 7 ELSE 6
  BY <1>5
<1> HIDE DEF nr, steps, create
<1>10. aRun[i].pc # "create" /\ MayCreate(BandOf(i), CallsOf(i), BandOf(i).count) => FALSE
  BY DEF Contested
<1>11. nr.pc \in Loop \cup {"fail"} /\ nr.pc \notin {"created", "answered", "poll"}
  BY <1>5 DEF Loop, Mid
<1>12. nr.steps <= 7
  BY <1>4, <1>5 DEF steps
<1>13. /\ nr.pc = "create" => MayCreate(nb, CallsOf(i), nr.create) /\ IsRunning(nb)
       /\ nr.pc \in {"cancel", "accept"} => nb.status = "CANCEL_PENDING"
       /\ nr.pc \in Mid =>
             nr.band = BandIndex(i) /\ nr.create = nb.count /\ nb.status # "SUCCEEDED"
       /\ nr.pc = "poll" => IsRunning(nb) /\ nb.count \in nb.ids
  BY <1>5
<1>14. /\ nb.status # "SUCCEEDED" /\ nr.pc \in Loop =>
             nr.steps + Remaining(nb) <= IF nr.pc = "accept" THEN 7 ELSE 6
       /\ nb.status = "SUCCEEDED" => nr.pc = "bands" /\ nr.steps = 0
       /\ aRun[i].pc = "create" => nr.pc # "create"
       /\ nr.page = Page(i) /\ nr.token = aRun[i].token
  BY <1>5, <1>9
<1> QED  BY <1>0, <1>2, <1>5, <1>6, <1>7, <1>8, <1>10, <1>11, <1>12, <1>13, <1>14, HolderWrites

------------------------------------------------------------------------------
(* The band after a success and after a failure, and the steps that each     *)
(* status leaves.                                                            *)
LEMMA SameCalls ==
  ASSUME ArabicInvariant, NEW i \in ArabicRuns, Fresh(i), AtBand(i), UNCHANGED aProvider
  PROVE  /\ aProvider' = [aProvider EXCEPT ![Page(i)][BandIndex(i)] = CallsOf(i)]
         /\ MovesOn(CallsOf(i), CallsOf(i))
<1>1. aProvider \in [ArabicPages -> [Bands -> Calls]]
  BY ArabicTyped DEF ArabicInvariant
<1>2. Page(i) \in ArabicPages /\ BandIndex(i) \in Bands
  BY HolderView
<1> QED  BY <1>1, <1>2 DEF CallsOf, MovesOn

LEMMA SuccessIsBandOK ==
  ASSUME NEW band \in BandRecord, NEW calls \in Calls, BandOK(band, calls),
         band.count # 0,
         NEW result \in {"UNASSISTED", "ASSISTED_FALLBACK", "CLOUD_VISION_LOW_QUALITY"}
  PROVE  LET nb == [band EXCEPT !.status = "SUCCEEDED", !.code = "", !.result = result]
         IN  nb \in BandRecord /\ BandOK(nb, calls) /\ nb.status = "SUCCEEDED"
<1> DEFINE nb == [band EXCEPT !.status = "SUCCEEDED", !.code = "", !.result = result]
<1>1. nb \in BandRecord
  BY DEF BandRecord, BandStatuses, Codes, Results
<1>2. /\ nb.status = "SUCCEEDED" /\ nb.code = Blank /\ nb.count = band.count
      /\ nb.ids = band.ids /\ nb.confirmed = band.confirmed
  BY DEF BandRecord, Blank
<1> HIDE DEF nb
<1>4. nb.code # "AMBIGUOUS"
  BY <1>2 DEF Blank
<1>3. BandOK(nb, calls)
  BY <1>2, <1>4 DEF BandOK, OrdinaryFailure
<1> QED  BY <1>1, <1>2, <1>3 DEF nb

LEMMA FailureIsBandOK ==
  ASSUME NEW band \in BandRecord, NEW old \in Calls, NEW calls \in Calls,
         BandOK(band, old), band.count # 0, NEW code \in {"FAILED", "AMBIGUOUS"},
         \A k \in Creates : calls[k] # old[k] =>
           /\ calls[k] \in {"lost", "unknown"} /\ old[k] \in {"none", "live"}
           /\ k <= band.count,
         code = "FAILED" /\ band.count = 1 => calls[1] # "live"
  PROVE  /\ FailedBand(band, code) \in BandRecord
         /\ BandOK(FailedBand(band, code), calls)
         /\ FailedBand(band, code).status = "FAILED"
         /\ FailedBand(band, code).count = band.count
         /\ Remaining(FailedBand(band, code)) = 3 * (2 - band.count)
<1> DEFINE nb == FailedBand(band, code)
<1>1. nb \in BandRecord
  BY DEF BandRecord, BandStatuses, FailedBand, Codes
<1>2. /\ nb.status = "FAILED" /\ nb.code = code /\ nb.count = band.count
      /\ nb.ids = band.ids /\ nb.confirmed = band.confirmed
  BY DEF BandRecord, FailedBand
<1>3. 1 \in Creates /\ 2 \in Creates
  BY DEF Creates
<1> HIDE DEF nb
<1>4. BandOK(nb, calls)
  <2>1. /\ \A k \in Creates : k \in nb.ids \/ calls[k] # "none" => k <= nb.count
        /\ nb.confirmed # Blank => nb.ids # {}
    BY <1>2 DEF BandOK
  <2>2. /\ 2 \notin nb.ids /\ nb.confirmed = "completed" => calls[1] \in {"good", "bad"}
        /\ 2 \notin nb.ids /\ nb.confirmed = "cancelled" => calls[1] # "live"
        /\ nb.count = 2 => calls[1] # "live"
    BY <1>2, <1>3 DEF BandOK
  <2>3. nb.count = 1 /\ OrdinaryFailure(nb) => calls[1] # "live"
    BY <1>2 DEF OrdinaryFailure
  <2> QED  BY <1>2, <2>1, <2>2, <2>3 DEF BandOK
<1>5. Remaining(nb) = 3 * (2 - band.count)
  <2>1. band.count \in 0..2
    BY DEF BandRecord
  <2> QED  BY <1>2, <2>1 DEF Remaining, IsRunning
<1> QED  BY <1>1, <1>2, <1>4, <1>5 DEF nb

LEMMA CountOfStatus ==
  ASSUME NEW band \in BandRecord, NEW calls, BandOK(band, calls)
  PROVE  /\ band.count \in 0..2
         /\ band.status = "PRIMARY_RUNNING" => band.count = 1
         /\ band.status = "FALLBACK_RUNNING" => band.count = 2
         /\ band.status \in {"CANCEL_PENDING", "FAILED", "SUCCEEDED"} => band.count # 0
         /\ IsRunning(band) => band.count # 0 /\ Remaining(band) = 3 * (2 - band.count) + 2
         /\ band.status = "CANCEL_PENDING" => Remaining(band) = 3 * (2 - band.count) + 1
         /\ band.status \in {"FAILED", "SUCCEEDED", "PENDING"}
              => Remaining(band) = 3 * (2 - band.count)
<1>1. band.count \in 0..2
  BY DEF BandRecord
<1>2. /\ band.status = "PRIMARY_RUNNING" => band.count = 1
      /\ band.status = "FALLBACK_RUNNING" => band.count = 2
      /\ band.status \in {"CANCEL_PENDING", "FAILED", "SUCCEEDED"} => band.count # 0
  BY DEF BandOK
<1> QED  BY <1>1, <1>2 DEF Remaining, IsRunning

(* Successes.                                                                *)
LEMMA SucceedBandKeepsInvariant ==
  ASSUME ArabicInvariant, NEW i \in ArabicRuns, AtBand(i), UNCHANGED aProvider,
         NEW result \in {"UNASSISTED", "ASSISTED_FALLBACK", "CLOUD_VISION_LOW_QUALITY"},
         NEW nb, nb = [BandOf(i) EXCEPT !.status = "SUCCEEDED", !.code = "", !.result = result],
         WriteBand(i, nb), Restart(i, 0), BandOf(i).count # 0, ~Contested(i)
  PROVE  ArabicInvariant'
<1>1. Fresh(i)
  BY DEF WriteBand
<1>2. BandOf(i) \in BandRecord /\ CallsOf(i) \in Calls /\ BandOK(BandOf(i), CallsOf(i))
  BY <1>1, HolderView
<1>3. nb \in BandRecord /\ BandOK(nb, CallsOf(i)) /\ nb.status = "SUCCEEDED"
  BY <1>2, SuccessIsBandOK
<1> HIDE DEF WriteBand, Restart
<1>4. /\ 0 \in 0..7 /\ nb.status # "NONE"
      /\ nb.status # "SUCCEEDED" => 0 + Remaining(nb) <= 6
      /\ aProvider' = [aProvider EXCEPT ![Page(i)][BandIndex(i)] = CallsOf(i)]
      /\ MovesOn(CallsOf(i), CallsOf(i))
  BY <1>1, <1>3, SameCalls
<1> QED  BY <1>2, <1>3, <1>4, HolderRestarts

LEMMA SucceededIs ==
  ASSUME NEW i \in ArabicRuns, BandOf(i) \in BandRecord
  PROVE  /\ \E result \in {"UNASSISTED", "ASSISTED_FALLBACK"} :
              Succeeded(BandOf(i)) =
                [BandOf(i) EXCEPT !.status = "SUCCEEDED", !.code = "", !.result = result]
         /\ [Succeeded(BandOf(i)) EXCEPT !.result = "CLOUD_VISION_LOW_QUALITY"] =
              [BandOf(i) EXCEPT !.status = "SUCCEEDED", !.code = "",
                                !.result = "CLOUD_VISION_LOW_QUALITY"]
<1>1. CASE BandOf(i).count = 1
  BY <1>1 DEF Succeeded, BandRecord
<1>2. CASE BandOf(i).count # 1
  BY <1>2 DEF Succeeded, BandRecord
<1> QED  BY <1>1, <1>2

LEMMA BandSucceeds ==
  ASSUME ArabicInvariant, NEW i \in ArabicRuns, AtBand(i), UNCHANGED aProvider, SucceedBand(i),
         BandOf(i).count # 0, ~Contested(i)
  PROVE  ArabicInvariant'
<1>1. Fresh(i) /\ WriteBand(i, Succeeded(BandOf(i))) /\ Restart(i, 0)
  BY DEF SucceedBand, WriteBand
<1>2. BandOf(i) \in BandRecord
  BY <1>1, HolderView
<1>3. PICK result \in {"UNASSISTED", "ASSISTED_FALLBACK"} :
        Succeeded(BandOf(i)) =
          [BandOf(i) EXCEPT !.status = "SUCCEEDED", !.code = "", !.result = result]
  BY <1>2, SucceededIs
<1> QED  BY <1>1, <1>3, SucceedBandKeepsInvariant

(* What a poll finds.                                                        *)
LEMMA PollView ==
  ASSUME ArabicInvariant, NEW i \in ArabicRuns, Polls(i), Fresh(i)
  PROVE  /\ AtBand(i) /\ ~Contested(i) /\ IsRunning(BandOf(i)) /\ BandOf(i).count # 0
         /\ BandOf(i).count \in BandOf(i).ids
         /\ Interaction(i) = CallsOf(i)[BandOf(i).count]
         /\ (IF Between(i) THEN aRun[i].steps + 1 ELSE aRun[i].steps)
           + 3 * (2 - BandOf(i).count) + 1 <= 6
         /\ aRun[i].steps \in 0..6 /\ aRun[i].pc # "create"
         /\ CreateOf(i) = BandOf(i).count
<1>1. AtBand(i) /\ aRun[i].pc \notin {"create", "accept"}
  BY DEF Polls, AtBand, Mid, Deciding, Between
<1>2. /\ BandOf(i) \in BandRecord /\ CallsOf(i) \in Calls /\ BandOK(BandOf(i), CallsOf(i))
      /\ CreateOf(i) = BandOf(i).count /\ aRun[i].steps \in 0..7
      /\ aRun[i].steps + Remaining(BandOf(i)) <= IF aRun[i].pc = "accept" THEN 7 ELSE 6
  BY <1>1, HolderView
<1>3. IsRunning(BandOf(i)) /\ BandOf(i).count \in BandOf(i).ids
  <2>1. CASE aRun[i].pc = "poll"
    <3>1. HolderOK(i)
      BY DEF ArabicInvariant
    <3>2. ~Between(i)
      BY <2>1 DEF Between
    <3>3. /\ IsRunning(aBand[aRun[i].page][aRun[i].band])
          /\ aRun[i].create \in aBand[aRun[i].page][aRun[i].band].ids
          /\ aBand[aRun[i].page][aRun[i].band].count = aRun[i].create
      BY <2>1, <3>1 DEF HolderOK, Mid
    <3>4. BandOf(i) = aBand[aRun[i].page][aRun[i].band]
      BY <3>2 DEF BandOf, BandIndex, Page
    <3> QED  BY <3>3, <3>4
  <2>2. CASE aRun[i].pc # "poll"
    BY <2>2 DEF Polls
  <2> QED  BY <2>1, <2>2
<1>4. BandOf(i).count \in 0..2 /\ BandOf(i).count # 0
      /\ Remaining(BandOf(i)) = 3 * (2 - BandOf(i).count) + 2
  BY <1>2, <1>3, CountOfStatus
<1>5. ~Contested(i)
  BY <1>3 DEF Contested, MayCreate
<1>6. Interaction(i) = CallsOf(i)[BandOf(i).count]
  BY <1>2 DEF Interaction, CallsOf
<1>7. aRun[i].steps + 3 * (2 - BandOf(i).count) + 2 <= 6
  BY <1>1, <1>2, <1>4
<1>8. /\ (IF Between(i) THEN aRun[i].steps + 1 ELSE aRun[i].steps)
           + 3 * (2 - BandOf(i).count) + 1 <= 6
      /\ aRun[i].steps \in 0..6
  BY <1>2, <1>4, <1>7
<1> QED  BY <1>1, <1>2, <1>3, <1>4, <1>5, <1>6, <1>8

LEMMA PollSucceedsKeepsInvariant ==
  ASSUME ArabicInvariant, NEW i \in ArabicRuns, PollSucceeds(i)
  PROVE  ArabicInvariant'
<1>1. Polls(i) /\ Fresh(i) /\ SucceedBand(i) /\ UNCHANGED aProvider
  BY DEF PollSucceeds, SucceedBand, WriteBand
<1> QED  BY <1>1, PollView, BandSucceeds

(* Failures and unanswered cancellations.                                    *)
LEMMA FailedRestart ==
  ASSUME ArabicInvariant, NEW i \in ArabicRuns, AtBand(i), NEW np \in Calls, NEW steps \in 0..7,
         WriteBand(i, FailedBand(BandOf(i), "FAILED")), Restart(i, steps),
         aProvider' = [aProvider EXCEPT ![Page(i)][BandIndex(i)] = np],
         \A k \in Creates : np[k] # CallsOf(i)[k] =>
            /\ np[k] \in {"lost", "unknown"} /\ CallsOf(i)[k] \in {"none", "live"}
            /\ k <= BandOf(i).count,
         BandOf(i).count = 1 => np[1] # "live",
         BandOf(i).count # 0, ~Contested(i),
         steps + 3 * (2 - BandOf(i).count) <= 6
  PROVE  ArabicInvariant'
<1> DEFINE nb == FailedBand(BandOf(i), "FAILED")
<1>1. BandOf(i) \in BandRecord /\ CallsOf(i) \in Calls /\ BandOK(BandOf(i), CallsOf(i))
  BY HolderView DEF WriteBand
<1>2. /\ nb \in BandRecord /\ BandOK(nb, np) /\ nb.status = "FAILED"
      /\ Remaining(nb) = 3 * (2 - BandOf(i).count)
  BY <1>1, FailureIsBandOK
<1>3. MovesOn(CallsOf(i), np)
  BY DEF MovesOn
<1>4. nb.status # "NONE" /\ nb.status # "SUCCEEDED" /\ steps + Remaining(nb) <= 6
  BY <1>2
<1> HIDE DEF WriteBand, Restart, nb
<1>5. WriteBand(i, nb)
  BY DEF nb
<1> QED  BY <1>2, <1>3, <1>4, <1>5, HolderRestarts

(* An interaction recorded as failed although it may be live.                *)
LEMMA MarkedCalls ==
  ASSUME ArabicInvariant, NEW i \in ArabicRuns, Fresh(i), AtBand(i),
         BandOf(i).count \in Creates, CreateOf(i) = BandOf(i).count,
         CallsOf(i)[BandOf(i).count] \in {"none", "live"},
         NEW state \in {"lost", "unknown"}, CallProvider(i, state)
  PROVE  \E np \in Calls :
           /\ aProvider' = [aProvider EXCEPT ![Page(i)][BandIndex(i)] = np]
           /\ \A k \in Creates : np[k] # CallsOf(i)[k] =>
                /\ np[k] \in {"lost", "unknown"} /\ CallsOf(i)[k] \in {"none", "live"}
                /\ k <= BandOf(i).count
           /\ BandOf(i).count = 1 => np[1] # "live"
<1> DEFINE np == [CallsOf(i) EXCEPT ![BandOf(i).count] = state]
<1>1. aProvider \in [ArabicPages -> [Bands -> Calls]] /\ CallsOf(i) \in Calls
  BY ArabicTyped, HolderView DEF ArabicInvariant
<1>2. Page(i) \in ArabicPages /\ BandIndex(i) \in Bands
  BY HolderView
<1>3. aProvider' = [aProvider EXCEPT ![Page(i)][BandIndex(i)] = np]
  BY <1>1, <1>2 DEF CallProvider, CallsOf
<1>4. /\ np \in Calls
      /\ \A k \in Creates : np[k] = IF k = BandOf(i).count THEN state ELSE CallsOf(i)[k]
  BY <1>1 DEF Calls
<1> HIDE DEF np
<1>5. \A k \in Creates : np[k] # CallsOf(i)[k] => k = BandOf(i).count /\ np[k] = state
  BY <1>4
<1>6. \A k \in Creates : np[k] # CallsOf(i)[k] =>
        /\ np[k] \in {"lost", "unknown"} /\ CallsOf(i)[k] \in {"none", "live"}
        /\ k <= BandOf(i).count
  BY <1>5 DEF Creates
<1>7. BandOf(i).count = 1 => np[1] # "live"
  BY <1>4 DEF Creates
<1> QED  BY <1>3, <1>4, <1>6, <1>7

LEMMA PollFailsKeepsInvariant ==
  ASSUME ArabicInvariant, NEW i \in ArabicRuns, PollFails(i)
  PROVE  ArabicInvariant'
<1> DEFINE steps == IF Between(i) THEN aRun[i].steps + 1 ELSE aRun[i].steps
<1>1. /\ Polls(i) /\ Fresh(i) /\ Restart(i, steps)
      /\ WriteBand(i, FailedBand(BandOf(i), "FAILED"))
      /\ \/ Interaction(i) \in {"bad", "failed", "cancelled"} /\ UNCHANGED aProvider
         \/ Interaction(i) = "live" /\ CallProvider(i, "unknown")
  BY DEF PollFails, WriteBand, AfterStep
<1>2. /\ AtBand(i) /\ ~Contested(i) /\ BandOf(i).count # 0
      /\ Interaction(i) = CallsOf(i)[BandOf(i).count]
      /\ steps + 3 * (2 - BandOf(i).count) + 1 <= 6 /\ aRun[i].steps \in 0..6
      /\ CreateOf(i) = BandOf(i).count
  BY <1>1, PollView
<1>3. /\ BandOf(i) \in BandRecord /\ CallsOf(i) \in Calls
      /\ BandOf(i).count \in 0..2 /\ BandOf(i).count \in Creates
  BY <1>1, <1>2, HolderView DEF BandRecord, Creates
<1>4. steps \in 0..7 /\ steps + 3 * (2 - BandOf(i).count) <= 6
  BY <1>2, <1>3
<1>5. \E np \in Calls :
        /\ aProvider' = [aProvider EXCEPT ![Page(i)][BandIndex(i)] = np]
        /\ \A k \in Creates : np[k] # CallsOf(i)[k] =>
             /\ np[k] \in {"lost", "unknown"} /\ CallsOf(i)[k] \in {"none", "live"}
             /\ k <= BandOf(i).count
        /\ BandOf(i).count = 1 => np[1] # "live"
  <2>1. CASE Interaction(i) \in {"bad", "failed", "cancelled"} /\ UNCHANGED aProvider
    <3>1. BandOf(i).count = 1 => CallsOf(i)[1] # "live"
      BY <1>2, <2>1
    <3>2. aProvider' = [aProvider EXCEPT ![Page(i)][BandIndex(i)] = CallsOf(i)]
      BY <1>1, <1>2, <2>1, SameCalls
    <3> QED  BY <1>3, <3>1, <3>2
  <2>2. CASE Interaction(i) = "live" /\ CallProvider(i, "unknown")
    <3> HIDE DEF steps
    <3> QED  BY <1>1, <1>2, <1>3, <2>2, MarkedCalls
  <2> QED  BY <1>1, <2>1, <2>2
<1> HIDE DEF steps
<1> QED  BY <1>1, <1>2, <1>3, <1>4, <1>5, FailedRestart

LEMMA MarkCancelPendingKeepsInvariant ==
  ASSUME ArabicInvariant, NEW i \in ArabicRuns, MarkCancelPending(i)
  PROVE  ArabicInvariant'
<1> DEFINE steps == IF Between(i) THEN aRun[i].steps + 1 ELSE aRun[i].steps
           nb == [BandOf(i) EXCEPT !.status = "CANCEL_PENDING"]
<1>1. /\ Polls(i) /\ Fresh(i) /\ UNCHANGED aProvider /\ Turn(i, "cancel")
      /\ WriteBand(i, nb)
  BY DEF MarkCancelPending, WriteBand
<1>2. /\ AtBand(i) /\ ~Contested(i) /\ BandOf(i).count # 0
      /\ BandOf(i).count \in BandOf(i).ids /\ IsRunning(BandOf(i))
      /\ steps + 3 * (2 - BandOf(i).count) + 1 <= 6 /\ aRun[i].steps \in 0..6
      /\ aRun[i].pc # "create"
  BY <1>1, PollView
<1>3. BandOf(i) \in BandRecord /\ CallsOf(i) \in Calls /\ BandOK(BandOf(i), CallsOf(i))
  BY <1>1, <1>2, HolderView
<1>4. /\ nb \in BandRecord /\ nb.status = "CANCEL_PENDING" /\ nb.count = BandOf(i).count
      /\ nb.ids = BandOf(i).ids /\ nb.code = BandOf(i).code
      /\ nb.confirmed = BandOf(i).confirmed
  BY <1>3 DEF BandRecord, BandStatuses
<1> HIDE DEF nb
<1>5. BandOK(nb, CallsOf(i))
  BY <1>2, <1>3, <1>4 DEF BandOK, IsRunning, OrdinaryFailure
<1>6. steps + Remaining(nb) <= 6 /\ steps \in 0..7
  BY <1>2, <1>4, <1>5, CountOfStatus
<1>7. steps + Remaining(nb) <= IF "cancel" = "accept" THEN 7 ELSE 6
  BY <1>6
<1>8. /\ nb.count = IF "cancel" = "create" THEN BandOf(i).count + 1 ELSE BandOf(i).count
      /\ "cancel" = "create" => MayCreate(nb, CallsOf(i), nb.count) /\ IsRunning(nb)
      /\ nb.status \notin {"NONE", "SUCCEEDED"} /\ aRun[i].steps <= 6
      /\ "cancel" \in {"create", "cancel", "accept"}
  BY <1>2, <1>4
<1> HIDE DEF WriteBand, Turn
<1> QED  BY <1>1, <1>2, <1>4, <1>5, <1>7, <1>8, HolderTurns

LEMMA SelectLowQualityKeepsInvariant ==
  ASSUME ArabicInvariant, NEW i \in ArabicRuns, SelectLowQuality(i)
  PROVE  ArabicInvariant'
<1> DEFINE nb == [Succeeded(BandOf(i)) EXCEPT !.result = "CLOUD_VISION_LOW_QUALITY"]
<1>1. /\ Deciding(i) /\ Fresh(i) /\ UNCHANGED aProvider /\ Restart(i, 0) /\ WriteBand(i, nb)
      /\ OrdinaryFailure(BandOf(i)) \/ CancelConfirmed(BandOf(i))
  BY DEF SelectLowQuality, WriteBand
<1> HIDE DEF nb, WriteBand, Restart
<1>2. AtBand(i)
  BY <1>1 DEF AtBand
<1>3. BandOf(i) \in BandRecord /\ CallsOf(i) \in Calls /\ BandOK(BandOf(i), CallsOf(i))
  BY <1>1, <1>2, HolderView
<1>4. \/ BandOf(i).status = "CANCEL_PENDING"
      \/ BandOf(i).status = "FAILED" /\ BandOf(i).code = "FAILED"
  BY <1>1 DEF OrdinaryFailure, CancelConfirmed
<1>5. BandOf(i).count # 0
  BY <1>3, <1>4, CountOfStatus
<1>6. ~Contested(i)
  BY <1>3, <1>4 DEF Contested, MayCreate, IsRunning, BandOK
<1>7. nb = [BandOf(i) EXCEPT !.status = "SUCCEEDED", !.code = "",
                             !.result = "CLOUD_VISION_LOW_QUALITY"]
  BY <1>3, SucceededIs DEF nb
<1> QED  BY <1>1, <1>2, <1>5, <1>6, <1>7, SucceedBandKeepsInvariant

(* What a run finds whose band waits for a cancellation. *)
LEMMA CancelView ==
  ASSUME ArabicInvariant, NEW i \in ArabicRuns, Fresh(i), AtBand(i),
         BandOf(i).status = "CANCEL_PENDING"
  PROVE  /\ ~Contested(i) /\ BandOf(i).count # 0 /\ aRun[i].pc # "create"
         /\ BandOf(i).count \in BandOf(i).ids
         /\ BandOf(i) \in BandRecord /\ CallsOf(i) \in Calls
         /\ BandOK(BandOf(i), CallsOf(i))
         /\ Interaction(i) = CallsOf(i)[BandOf(i).count]
         /\ aRun[i].steps \in 0..7
         /\ aRun[i].steps + 3 * (2 - BandOf(i).count) + 1 <= IF aRun[i].pc = "accept" THEN 7 ELSE 6
<1>1. /\ BandOf(i) \in BandRecord /\ CallsOf(i) \in Calls /\ BandOK(BandOf(i), CallsOf(i))
      /\ CreateOf(i) = BandOf(i).count /\ aRun[i].steps \in 0..7
      /\ aRun[i].steps + Remaining(BandOf(i)) <= IF aRun[i].pc = "accept" THEN 7 ELSE 6
  BY HolderView
<1>2. BandOf(i).count # 0 /\ Remaining(BandOf(i)) = 3 * (2 - BandOf(i).count) + 1
      /\ BandOf(i).count \in 0..2
  BY <1>1, CountOfStatus
<1>3. BandOf(i).count \in BandOf(i).ids
  BY <1>1 DEF BandOK
<1>4. ~Contested(i)
  BY <1>3 DEF Contested, MayCreate
<1>5. Interaction(i) = CallsOf(i)[BandOf(i).count]
  BY <1>1 DEF Interaction, CallsOf
<1>6. aRun[i].pc # "create"
  <2>1. aRun[i].pc = "create" => IsRunning(BandOf(i))
    BY DEF ArabicInvariant, HolderOK, BandOf, BandIndex, Between, Page
  <2> QED  BY <2>1 DEF IsRunning
<1>7. aRun[i].steps + 3 * (2 - BandOf(i).count) + 1 <= IF aRun[i].pc = "accept" THEN 7 ELSE 6
  BY <1>1, <1>2
<1> QED  BY <1>1, <1>2, <1>3, <1>4, <1>5, <1>6, <1>7

LEMMA CancelPcView ==
  ASSUME ArabicInvariant, NEW i \in ArabicRuns,
         Fresh(i), aRun[i].pc \in {"cancel", "answered", "accept"}
  PROVE  /\ AtBand(i) /\ BandOf(i).status = "CANCEL_PENDING" /\ ~Between(i)
<1>1. AtBand(i) /\ ~Between(i)
  BY DEF AtBand, Mid, Between
<1>2. BandOf(i).status = "CANCEL_PENDING"
  BY <1>1 DEF ArabicInvariant, HolderOK, BandOf, BandIndex, Page
<1> QED  BY <1>1, <1>2

LEMMA AcceptInteractionKeepsInvariant ==
  ASSUME ArabicInvariant, NEW i \in ArabicRuns, AcceptInteraction(i)
  PROVE  ArabicInvariant'
<1>1. aRun[i].pc = "accept" /\ SucceedBand(i) /\ UNCHANGED aProvider /\ Fresh(i)
  BY DEF AcceptInteraction, SucceedBand, WriteBand
<1> QED  BY <1>1, CancelPcView, CancelView, BandSucceeds

LEMMA RecoverCompletedCancelKeepsInvariant ==
  ASSUME ArabicInvariant, NEW i \in ArabicRuns, RecoverCompletedCancel(i)
  PROVE  ArabicInvariant'
<1>1. /\ Deciding(i) /\ BandOf(i).status = "CANCEL_PENDING" /\ UNCHANGED aProvider
      /\ BandOf(i).confirmed = "completed" /\ Fresh(i) /\ AtBand(i)
  BY DEF RecoverCompletedCancel, SucceedBand, WriteBand, AtBand
<1>2. CASE SucceedBand(i)
  BY <1>1, <1>2, CancelView, BandSucceeds
<1>3. CASE WriteBand(i, FailedBand(BandOf(i), "FAILED")) /\ AfterStep(i)
  <2>1. Restart(i, aRun[i].steps + 1) /\ aRun[i].pc = "bands"
    BY <1>1, <1>3 DEF AfterStep, Deciding, Between
  <2>2. /\ ~Contested(i) /\ BandOf(i).count # 0 /\ BandOf(i) \in BandRecord
        /\ CallsOf(i) \in Calls /\ BandOK(BandOf(i), CallsOf(i))
        /\ aRun[i].steps \in 0..7
        /\ aRun[i].steps + 3 * (2 - BandOf(i).count) + 1 <= 6
        /\ BandOf(i).count \in BandOf(i).ids
    BY <1>1, <2>1, CancelView
  <2>3. /\ aRun[i].steps + 1 \in 0..7
        /\ aRun[i].steps + 1 + 3 * (2 - BandOf(i).count) <= 6
    <3>1. BandOf(i).count \in 0..2
      BY <2>2 DEF BandRecord
    <3> QED  BY <2>2, <3>1
  <2>4. BandOf(i).count = 1 => CallsOf(i)[1] # "live"
    <3>1. BandOf(i).count = 1 => 2 \notin BandOf(i).ids
      <4>1. \A k \in Creates : k \in BandOf(i).ids => k <= BandOf(i).count
        BY <2>2 DEF BandOK
      <4> QED  BY <4>1 DEF Creates
    <3>2. BandOf(i).count = 1 => CallsOf(i)[1] \in {"good", "bad"}
      BY <1>1, <2>2, <3>1 DEF BandOK
    <3> QED  BY <3>2
  <2>5. aProvider' = [aProvider EXCEPT ![Page(i)][BandIndex(i)] = CallsOf(i)]
    BY <1>1, SameCalls
  <2> HIDE DEF WriteBand, Restart
  <2> QED  BY <1>1, <1>3, <2>1, <2>2, <2>3, <2>4, <2>5, FailedRestart
<1> QED  BY <1>2, <1>3 DEF RecoverCompletedCancel

(* The stored answer of a cancellation.                                      *)
ConfirmedBand(band, answer) == [band EXCEPT !.confirmed = answer]

LEMMA ConfirmedIsBandOK ==
  ASSUME NEW band \in BandRecord, NEW calls \in Calls, BandOK(band, calls),
         band.status = "CANCEL_PENDING", NEW answer \in Answers,
         answer = "completed" => calls[band.count] \in {"good", "bad"},
         answer = "cancelled" => calls[band.count] = "cancelled"
  PROVE  /\ ConfirmedBand(band, answer) \in BandRecord
         /\ BandOK(ConfirmedBand(band, answer), calls)
         /\ ConfirmedBand(band, answer).status = "CANCEL_PENDING"
         /\ ConfirmedBand(band, answer).count = band.count
         /\ Remaining(ConfirmedBand(band, answer)) = Remaining(band)
<1> DEFINE nb == ConfirmedBand(band, answer)
<1>1. nb \in BandRecord
  BY DEF BandRecord, ConfirmedBand
<1>2. /\ nb.status = "CANCEL_PENDING" /\ nb.code = band.code /\ nb.count = band.count
      /\ nb.ids = band.ids /\ nb.confirmed = answer
  BY DEF BandRecord, ConfirmedBand
<1> HIDE DEF nb
<1>c. band.count = 1 \/ band.count = 2
  <2>1. band.count \in 0..2 /\ band.count # 0
    BY CountOfStatus
  <2> QED  BY <2>1
<1>3. band.count \in band.ids /\ band.code # "AMBIGUOUS"
  BY DEF BandOK
<1>4. /\ 2 \notin nb.ids /\ nb.confirmed = "completed" => calls[1] \in {"good", "bad"}
      /\ 2 \notin nb.ids /\ nb.confirmed = "cancelled" => calls[1] # "live"
  <2>1. 2 \notin nb.ids => band.count = 1
    BY <1>c, <1>2, <1>3
  <2> QED  BY <1>2, <2>1
<1>5. /\ \A k \in Creates : k \in nb.ids \/ calls[k] # "none" => k <= nb.count
      /\ nb.confirmed # Blank => nb.ids # {}
      /\ nb.count = 2 => calls[1] # "live"
  BY <1>2, <1>3 DEF BandOK
<1>6. BandOK(nb, calls)
  BY <1>c, <1>2, <1>3, <1>4, <1>5 DEF BandOK, OrdinaryFailure
<1>7. Remaining(nb) = Remaining(band)
  BY <1>2 DEF Remaining, IsRunning
<1> QED  BY <1>1, <1>2, <1>6, <1>7 DEF nb

(* A step that stays within the iteration without a decision.                *)
LEMMA GoneOn ==
  ASSUME NEW r \in RunRecord, NEW pc \in Loop \cup {"fail"}
  PROVE  LET m == Moved(r, pc, r.steps, r.band, r.create)
         IN  /\ m \in RunRecord /\ m.pc = pc /\ m.steps = r.steps /\ m.band = r.band
             /\ m.create = r.create /\ m.page = r.page /\ m.token = r.token
BY DEF Moved, RunRecord, Loop, Mid, MaxBandSteps

LEMMA HolderGoesOn ==
  ASSUME ArabicInvariant, NEW i \in ArabicRuns, AtBand(i), aRun[i].pc # "create",
         NEW nb \in BandRecord, NEW pc \in {"poll", "accept", "fail"},
         WriteBand(i, nb), Goto(i, pc), UNCHANGED aProvider,
         nb.status \notin {"NONE", "SUCCEEDED"}, BandOK(nb, CallsOf(i)),
         pc # "fail" => ~Between(i),
         Contested(i) => MayCreate(nb, CallsOf(i), BandOf(i).count),
         nb.count = BandOf(i).count,
         pc = "poll" => IsRunning(nb) /\ nb.count \in nb.ids,
         pc = "accept" => nb.status = "CANCEL_PENDING",
         pc # "fail" => aRun[i].steps + Remaining(nb) <= IF pc = "accept" THEN 7 ELSE 6
  PROVE  ArabicInvariant'
<1> DEFINE nr == Moved(aRun[i], pc, aRun[i].steps, aRun[i].band, aRun[i].create)
<1>0. /\ Fresh(i) /\ UNCHANGED <<aAttempt, aPage>>
      /\ aBand' = [aBand EXCEPT ![Page(i)][BandIndex(i)] = nb]
  BY DEF WriteBand
<1>1. aRun \in [ArabicRuns -> RunRecord] /\ aRun[i] \in RunRecord
      /\ aRun[i].band \in Bands /\ aRun[i].create \in Creates
  BY ArabicTyped, RunTyped DEF ArabicInvariant
<1>2. /\ aRun[i].steps \in 0..7 /\ CreateOf(i) = BandOf(i).count /\ CallsOf(i) \in Calls
  BY <1>0, HolderView
<1>3. pc # "fail" => aRun[i].band = BandIndex(i) /\ aRun[i].create = nb.count
  BY <1>2 DEF BandIndex, CreateOf
<1>5. /\ nr \in RunRecord /\ nr.pc = pc /\ nr.steps = aRun[i].steps
      /\ nr.band = aRun[i].band /\ nr.create = aRun[i].create
      /\ nr.page = Page(i) /\ nr.token = aRun[i].token
  <2>1. pc \in Loop \cup {"fail"} /\ aRun[i].steps \in 0..8
    BY <1>2 DEF Loop, Mid
  <2> QED  BY <1>1, <2>1, GoneOn DEF Page
<1>6. aRun' = [aRun EXCEPT ![i] = nr]
  BY <1>1, Moves
<1>7. /\ aProvider' = [aProvider EXCEPT ![Page(i)][BandIndex(i)] = CallsOf(i)]
      /\ MovesOn(CallsOf(i), CallsOf(i))
  BY <1>0, SameCalls
<1> HIDE DEF nr
<1>8. /\ aRun[i].pc # "create" /\ MayCreate(BandOf(i), CallsOf(i), BandOf(i).count) =>
           MayCreate(nb, CallsOf(i), BandOf(i).count) /\ nr.pc # "create"
      /\ aRun[i].pc = "create" => nr.pc # "create"
  BY <1>5 DEF Contested
<1>9. /\ nr.pc \in Loop \cup {"fail"} /\ nr.pc \notin {"created", "answered"}
      /\ nr.pc \in Mid =>
           nr.band = BandIndex(i) /\ nr.create = nb.count /\ nb.status # "SUCCEEDED"
      /\ nr.pc = "create" => MayCreate(nb, CallsOf(i), nr.create) /\ IsRunning(nb)
      /\ nr.pc = "poll" => IsRunning(nb) /\ nb.count \in nb.ids
      /\ nr.pc \in {"cancel", "accept"} => nb.status = "CANCEL_PENDING"
  BY <1>3, <1>5 DEF Loop, Mid
<1>10. /\ nr.steps <= 7
       /\ nb.status # "SUCCEEDED" /\ nr.pc \in Loop =>
            nr.steps + Remaining(nb) <= IF nr.pc = "accept" THEN 7 ELSE 6
       /\ nb.status = "SUCCEEDED" => nr.pc = "bands" /\ nr.steps = 0
  <2>1. nr.pc = pc /\ nr.steps = aRun[i].steps /\ nr.steps <= 7
    BY <1>2, <1>5
  <2>2. nr.pc \in Loop => pc # "fail"
    BY <2>1 DEF Loop, Mid
  <2> QED  BY <2>1, <2>2
<1> HIDE DEF WriteBand, Goto
<1> QED  BY <1>0, <1>2, <1>5, <1>6, <1>7, <1>8, <1>9, <1>10, HolderWrites

LEMMA StoreCancelAnswerKeepsInvariant ==
  ASSUME ArabicInvariant, NEW i \in ArabicRuns, StoreCancelAnswer(i)
  PROVE  ArabicInvariant'
<1> DEFINE nb == ConfirmedBand(BandOf(i), aRun[i].answer)
<1>1. /\ aRun[i].pc = "answered" /\ Fresh(i) /\ UNCHANGED aProvider /\ WriteBand(i, nb)
      /\ Goto(i, "accept") \/ Restart(i, aRun[i].steps)
  BY DEF StoreCancelAnswer, WriteBand, ConfirmedBand
<1>2. AtBand(i) /\ BandOf(i).status = "CANCEL_PENDING" /\ ~Between(i)
  BY <1>1, CancelPcView
<1>3. /\ ~Contested(i) /\ BandOf(i) \in BandRecord /\ CallsOf(i) \in Calls
      /\ BandOK(BandOf(i), CallsOf(i)) /\ aRun[i].steps \in 0..7
      /\ aRun[i].steps + 3 * (2 - BandOf(i).count) + 1 <= 6 /\ aRun[i].pc # "create"
  BY <1>1, <1>2, CancelView
<1>4. /\ aRun[i].answer = "completed" => CallsOf(i)[BandOf(i).count] \in {"good", "bad"}
      /\ aRun[i].answer = "cancelled" => CallsOf(i)[BandOf(i).count] = "cancelled"
      /\ aRun[i].answer \in Answers
  <2>1. RunOK(i) /\ aRun[i] \in RunRecord
    BY RunTyped DEF ArabicInvariant
  <2>2. BandOf(i).count = aRun[i].create /\ BandIndex(i) = aRun[i].band
    BY <1>1, <1>2, HolderView DEF CreateOf, BandIndex
  <2> QED  BY <1>1, <2>1, <2>2 DEF RunOK, CallsOf, Page, RunRecord
<1>5. /\ nb \in BandRecord /\ BandOK(nb, CallsOf(i)) /\ nb.status = "CANCEL_PENDING"
      /\ nb.count = BandOf(i).count /\ Remaining(nb) = Remaining(BandOf(i))
  BY <1>2, <1>3, <1>4, ConfirmedIsBandOK
<1>6. aRun[i].steps + Remaining(nb) <= 6
  BY <1>1, <1>2, <1>5, HolderView
<1> HIDE DEF nb, WriteBand, Goto, Restart
<1>7. CASE Goto(i, "accept")
  <2>1. aRun[i].steps + Remaining(nb) <= IF "accept" = "accept" THEN 7 ELSE 6
    <3>1. Remaining(nb) \in 0..6
      BY <1>5, RemainingIsBounded
    <3> QED  BY <1>3, <1>6, <3>1
  <2> QED  BY <1>1, <1>2, <1>3, <1>5, <1>7, <2>1, HolderGoesOn
<1>8. CASE Restart(i, aRun[i].steps)
  BY <1>1, <1>2, <1>3, <1>5, <1>6, <1>8, SameCalls, HolderRestarts
<1> QED  BY <1>1, <1>7, <1>8

LEMMA RecoverUnresolvedCancelKeepsInvariant ==
  ASSUME ArabicInvariant, NEW i \in ArabicRuns, RecoverUnresolvedCancel(i)
  PROVE  ArabicInvariant'
<1>1. PICK observed \in Answers :
        /\ observed = "completed" => Interaction(i) \in {"good", "bad"}
        /\ observed = "cancelled" => Interaction(i) = "cancelled"
        /\ WriteBand(i, ConfirmedBand(BandOf(i), observed))
        /\ Goto(i, "fail") \/ Turn(i, "accept") \/ Restart(i, aRun[i].steps)
  BY DEF RecoverUnresolvedCancel, ConfirmedBand, Answers
<1> DEFINE nb == ConfirmedBand(BandOf(i), observed)
<1>2. /\ Fresh(i) /\ AtBand(i) /\ BandOf(i).status = "CANCEL_PENDING" /\ Between(i)
      /\ aRun[i].pc = "bands" /\ UNCHANGED aProvider /\ WriteBand(i, nb)
  BY <1>1 DEF RecoverUnresolvedCancel, WriteBand, AtBand, Deciding, Between
<1>3. /\ ~Contested(i) /\ BandOf(i) \in BandRecord /\ CallsOf(i) \in Calls
      /\ BandOK(BandOf(i), CallsOf(i)) /\ aRun[i].steps \in 0..7
      /\ Interaction(i) = CallsOf(i)[BandOf(i).count]
      /\ aRun[i].steps + 3 * (2 - BandOf(i).count) + 1 <= 6 /\ aRun[i].pc # "create"
  BY <1>2, CancelView
<1>a. /\ observed = "completed" => CallsOf(i)[BandOf(i).count] \in {"good", "bad"}
      /\ observed = "cancelled" => CallsOf(i)[BandOf(i).count] = "cancelled"
  BY <1>1, <1>3
<1>4. /\ nb \in BandRecord /\ BandOK(nb, CallsOf(i)) /\ nb.status = "CANCEL_PENDING"
      /\ nb.count = BandOf(i).count /\ Remaining(nb) = Remaining(BandOf(i))
  <2> HIDE DEF WriteBand
  <2> QED  BY <1>a, <1>2, <1>3, ConfirmedIsBandOK
<1> HIDE DEF nb, WriteBand, Goto, Restart, Turn
<1>5. aRun[i].steps + Remaining(nb) <= 6
  BY <1>2, <1>4, HolderView
<1>6. Remaining(nb) = 3 * (2 - BandOf(i).count) + 1 /\ Remaining(nb) \in 1..4
  <2>1. BandOf(i).count \in 0..2 /\ BandOf(i).count # 0
    BY <1>2, <1>3, CountOfStatus
  <2>2. Remaining(nb) = 3 * (2 - BandOf(i).count) + 1
    <3>1. Remaining(nb) = 3 * (2 - nb.count) + 1
      BY <1>4, CountOfStatus
    <3> QED  BY <1>4, <3>1
  <2> QED  BY <2>1, <2>2
<1>7. aRun[i].steps <= 6 /\ aRun[i].steps + 1 + Remaining(nb) <= 7
  <2>1. aRun[i].steps \in 0..7
    BY <1>3
  <2> QED  BY <2>1, <1>5, <1>6
<1>8. CASE Goto(i, "fail")
  BY <1>2, <1>3, <1>4, <1>8, HolderGoesOn
<1>9. CASE Turn(i, "accept")
  <2>1. (IF Between(i) THEN aRun[i].steps + 1 ELSE aRun[i].steps) + Remaining(nb)
           <= IF "accept" = "accept" THEN 7 ELSE 6
    BY <1>2, <1>7
  <2>2. /\ nb.count = IF "accept" = "create" THEN BandOf(i).count + 1 ELSE BandOf(i).count
        /\ "accept" = "create" => MayCreate(nb, CallsOf(i), nb.count) /\ IsRunning(nb)
    BY <1>4
  <2> QED  BY <1>2, <1>3, <1>4, <1>7, <1>9, <2>1, <2>2, HolderTurns
<1>10. CASE Restart(i, aRun[i].steps)
  BY <1>2, <1>3, <1>4, <1>5, <1>10, SameCalls, HolderRestarts
<1> QED  BY <1>1, <1>8, <1>9, <1>10 DEF nb

(* Around the create call.                                                   *)
LEMMA CreatedPcView ==
  ASSUME ArabicInvariant, NEW i \in ArabicRuns, Fresh(i), aRun[i].pc \in {"create", "created"}
  PROVE  /\ AtBand(i) /\ ~Between(i) /\ ~Contested(i) /\ IsRunning(BandOf(i))
         /\ BandOf(i) \in BandRecord /\ CallsOf(i) \in Calls
         /\ BandOK(BandOf(i), CallsOf(i)) /\ BandOf(i).count \in {1, 2}
         /\ CreateOf(i) = BandOf(i).count /\ aRun[i].create = BandOf(i).count
         /\ aRun[i].steps \in 0..7
         /\ aRun[i].steps + 3 * (2 - BandOf(i).count) + 2 <= 6
         /\ aRun[i].pc = "create" => MayCreate(BandOf(i), CallsOf(i), BandOf(i).count)
         /\ aRun[i].pc = "created" => CallsOf(i)[BandOf(i).count] # "none"
<1>1. AtBand(i) /\ ~Between(i) /\ aRun[i].pc # "accept"
  BY DEF AtBand, Mid, Between
<1>2. /\ BandOf(i) \in BandRecord /\ CallsOf(i) \in Calls /\ BandOK(BandOf(i), CallsOf(i))
      /\ CreateOf(i) = BandOf(i).count /\ aRun[i].steps \in 0..7
      /\ aRun[i].steps + Remaining(BandOf(i)) <= 6
  BY <1>1, HolderView
<1>3. aRun[i].create = BandOf(i).count
  BY <1>1, <1>2 DEF CreateOf
<1>4. IsRunning(BandOf(i))
  BY <1>1 DEF ArabicInvariant, HolderOK, BandOf, BandIndex, Page
<1>5. /\ aRun[i].pc = "create" => MayCreate(BandOf(i), CallsOf(i), BandOf(i).count)
      /\ aRun[i].pc = "created" => CallsOf(i)[BandOf(i).count] # "none"
  <2>1. RunOK(i) /\ BandIndex(i) = aRun[i].band
    BY <1>1 DEF ArabicInvariant, BandIndex
  <2> QED  BY <1>3, <2>1 DEF RunOK, BandOf, CallsOf, Page
<1>6. ~Contested(i)
  BY <1>5 DEF Contested, MayCreate
<1>7. /\ BandOf(i).count # 0 /\ Remaining(BandOf(i)) = 3 * (2 - BandOf(i).count) + 2
      /\ BandOf(i).count \in 0..2
  BY <1>2, <1>4, CountOfStatus
<1>8. BandOf(i).count \in {1, 2}
  BY <1>7
<1>9. aRun[i].steps + 3 * (2 - BandOf(i).count) + 2 <= 6
  BY <1>2, <1>7
<1> QED  BY <1>1, <1>2, <1>3, <1>4, <1>5, <1>6, <1>8, <1>9

LEMMA CreateFailsKeepsInvariant ==
  ASSUME ArabicInvariant, NEW i \in ArabicRuns, CreateFails(i)
  PROVE  ArabicInvariant'
<1>1. /\ aRun[i].pc = "create" /\ Fresh(i) /\ Restart(i, aRun[i].steps)
      /\ WriteBand(i, FailedBand(BandOf(i), "FAILED"))
      /\ UNCHANGED aProvider \/ CallProvider(i, "lost")
  BY DEF CreateFails, WriteBand
<1>2. /\ AtBand(i) /\ ~Contested(i) /\ CallsOf(i) \in Calls /\ BandOf(i).count \in {1, 2}
      /\ CreateOf(i) = BandOf(i).count /\ aRun[i].steps \in 0..7
      /\ aRun[i].steps + 3 * (2 - BandOf(i).count) + 2 <= 6
      /\ MayCreate(BandOf(i), CallsOf(i), BandOf(i).count)
  BY <1>1, CreatedPcView
<1>3. CallsOf(i)[BandOf(i).count] = "none" /\ BandOf(i).count \in Creates
  BY <1>2 DEF MayCreate, Creates
<1>4. \E np \in Calls :
        /\ aProvider' = [aProvider EXCEPT ![Page(i)][BandIndex(i)] = np]
        /\ \A k \in Creates : np[k] # CallsOf(i)[k] =>
             /\ np[k] \in {"lost", "unknown"} /\ CallsOf(i)[k] \in {"none", "live"}
             /\ k <= BandOf(i).count
        /\ BandOf(i).count = 1 => np[1] # "live"
  <2>1. CASE UNCHANGED aProvider
    <3>1. aProvider' = [aProvider EXCEPT ![Page(i)][BandIndex(i)] = CallsOf(i)]
      BY <1>1, <1>2, <2>1, SameCalls
    <3> QED  BY <1>2, <1>3, <3>1
  <2>2. CASE CallProvider(i, "lost")
    BY <1>1, <1>2, <1>3, <2>2, MarkedCalls
  <2> QED  BY <1>1, <2>1, <2>2
<1>5. /\ aRun[i].steps + 3 * (2 - BandOf(i).count) <= 6 /\ BandOf(i).count # 0
  BY <1>2
<1> HIDE DEF WriteBand, Restart
<1> QED  BY <1>1, <1>2, <1>4, <1>5, FailedRestart

LEMMA StoreInteractionIdKeepsInvariant ==
  ASSUME ArabicInvariant, NEW i \in ArabicRuns, StoreInteractionId(i)
  PROVE  ArabicInvariant'
<1> DEFINE nb == [BandOf(i) EXCEPT !.ids = @ \cup {CreateOf(i)}]
<1>1. /\ aRun[i].pc = "created" /\ Fresh(i) /\ UNCHANGED aProvider /\ WriteBand(i, nb)
      /\ Goto(i, "poll")
  BY DEF StoreInteractionId, WriteBand
<1>2. /\ AtBand(i) /\ ~Between(i) /\ ~Contested(i) /\ IsRunning(BandOf(i))
      /\ BandOf(i) \in BandRecord /\ CallsOf(i) \in Calls
      /\ BandOK(BandOf(i), CallsOf(i)) /\ BandOf(i).count \in {1, 2}
      /\ CreateOf(i) = BandOf(i).count /\ aRun[i].steps \in 0..7
      /\ aRun[i].steps + 3 * (2 - BandOf(i).count) + 2 <= 6
  BY <1>1, CreatedPcView
<1>3. nb \in BandRecord
  BY <1>2 DEF BandRecord, Creates
<1>4. /\ nb.status = BandOf(i).status /\ nb.count = BandOf(i).count
      /\ nb.ids = BandOf(i).ids \cup {BandOf(i).count} /\ nb.code = BandOf(i).code
      /\ nb.confirmed = BandOf(i).confirmed
  BY <1>2 DEF BandRecord
<1> HIDE DEF nb, WriteBand, Goto
<1>5. BandOK(nb, CallsOf(i))
  <2>1. /\ \A k \in Creates : k \in nb.ids \/ CallsOf(i)[k] # "none" => k <= nb.count
        /\ nb.confirmed # Blank => nb.ids # {}
    <3>1. \A k \in Creates :
            k \in BandOf(i).ids \/ CallsOf(i)[k] # "none" => k <= BandOf(i).count
      BY <1>2 DEF BandOK
    <3> QED  BY <1>2, <1>4, <3>1 DEF Creates
  <2>2. 2 \notin nb.ids => 2 \notin BandOf(i).ids
    BY <1>4
  <2>3. /\ 2 \notin nb.ids /\ nb.confirmed = "completed" => CallsOf(i)[1] \in {"good", "bad"}
        /\ 2 \notin nb.ids /\ nb.confirmed = "cancelled" => CallsOf(i)[1] # "live"
    BY <1>2, <1>4, <2>2 DEF BandOK
  <2>4. nb.status \notin {"CANCEL_PENDING", "NONE", "PENDING"}
    BY <1>2, <1>4 DEF IsRunning
  <2> QED  BY <1>2, <1>4, <2>1, <2>3, <2>4 DEF BandOK, OrdinaryFailure
<1>6. aRun[i].steps + Remaining(nb) <= IF "poll" = "accept" THEN 7 ELSE 6
  <2>1. IsRunning(nb)
    BY <1>2, <1>4 DEF IsRunning
  <2>2. Remaining(nb) = 3 * (2 - nb.count) + 2
    BY <1>3, <1>5, <2>1, CountOfStatus
  <2>3. Remaining(nb) = 3 * (2 - BandOf(i).count) + 2
    BY <1>4, <2>2
  <2>4. "poll" # "accept"
    OBVIOUS
  <2> QED  BY <1>2, <2>3, <2>4
<1>7. IsRunning(nb) /\ nb.count \in nb.ids /\ nb.status \notin {"NONE", "SUCCEEDED"}
  BY <1>2, <1>4 DEF IsRunning
<1> QED  BY <1>1, <1>2, <1>3, <1>4, <1>5, <1>6, <1>7, HolderGoesOn

LEMMA FenceBandKeepsInvariant ==
  ASSUME ArabicInvariant, NEW i \in ArabicRuns, FenceBand(i)
  PROVE  ArabicInvariant'
<1> DEFINE nb == FailedBand(BandOf(i), "AMBIGUOUS")
<1>1. /\ Deciding(i) /\ Fresh(i) /\ UNCHANGED aProvider /\ WriteBand(i, nb) /\ Goto(i, "fail")
      /\ IsRunning(BandOf(i)) /\ BandOf(i).count \notin BandOf(i).ids
  BY DEF FenceBand, WriteBand
<1>2. AtBand(i) /\ aRun[i].pc # "create"
  BY <1>1 DEF AtBand, Deciding, Between
<1>3. /\ BandOf(i) \in BandRecord /\ CallsOf(i) \in Calls /\ BandOK(BandOf(i), CallsOf(i))
  BY <1>1, <1>2, HolderView
<1>4. BandOf(i).count # 0
  BY <1>1, <1>3, CountOfStatus
<1>5. /\ nb \in BandRecord /\ BandOK(nb, CallsOf(i)) /\ nb.status = "FAILED"
      /\ nb.count = BandOf(i).count
  BY <1>3, <1>4, FailureIsBandOK
<1>6. nb.code = "AMBIGUOUS" /\ nb.ids = BandOf(i).ids
  BY <1>3 DEF FailedBand, BandRecord
<1> HIDE DEF nb, WriteBand, Goto
<1>7. Contested(i) => MayCreate(nb, CallsOf(i), BandOf(i).count)
  BY <1>5, <1>6 DEF Contested, MayCreate
<1> QED  BY <1>1, <1>2, <1>5, <1>7, HolderGoesOn

LEMMA ReserveKeepsInvariant ==
  ASSUME ArabicInvariant, NEW i \in ArabicRuns, Deciding(i),
         NEW status \in {"PRIMARY_RUNNING", "FALLBACK_RUNNING"}, Reserve(i, status),
         status = "PRIMARY_RUNNING" => BandOf(i).status = "PENDING",
         status = "FALLBACK_RUNNING" => FallbackIsAllowed(BandOf(i))
  PROVE  ArabicInvariant'
<1> DEFINE nb == [BandOf(i) EXCEPT !.status = status, !.count = @ + 1, !.code = ""]
<1>1. /\ Fresh(i) /\ UNCHANGED aProvider /\ WriteBand(i, nb) /\ Turn(i, "create")
  BY DEF Reserve, WriteBand
<1>2. AtBand(i) /\ aRun[i].pc = "bands" /\ Between(i)
  BY DEF AtBand, Deciding, Between
<1>3. /\ BandOf(i) \in BandRecord /\ CallsOf(i) \in Calls /\ BandOK(BandOf(i), CallsOf(i))
      /\ aRun[i].steps \in 0..7 /\ aRun[i].steps + Remaining(BandOf(i)) <= 6
  BY <1>1, <1>2, HolderView
<1>s. /\ BandOf(i).status \notin {"PRIMARY_RUNNING", "FALLBACK_RUNNING"}
      /\ BandOf(i).code # "AMBIGUOUS"
      /\ BandOf(i).count = IF status = "PRIMARY_RUNNING" THEN 0 ELSE 1
  <2>1. CASE status = "PRIMARY_RUNNING"
    BY <1>3, <2>1 DEF BandOK
  <2>2. CASE status = "FALLBACK_RUNNING"
    BY <1>3, <2>2 DEF FallbackIsAllowed, OrdinaryFailure, CancelConfirmed, BandOK
  <2> QED  BY <2>1, <2>2
<1>4. /\ nb.status = status /\ nb.count = BandOf(i).count + 1 /\ nb.code = Blank
      /\ nb.ids = BandOf(i).ids /\ nb.confirmed = BandOf(i).confirmed
  BY <1>3 DEF BandRecord, Blank
<1>5. nb \in BandRecord
  <2>1. BandOf(i).count + 1 \in 0..2
    BY <1>s
  <2>2. status \in BandStatuses /\ Blank \in Codes
    BY DEF BandStatuses, Blank, Codes
  <2>3. nb = [BandOf(i) EXCEPT !.status = status, !.count = @ + 1, !.code = Blank]
    BY DEF Blank
  <2> HIDE DEF nb
  <2> QED  BY <1>3, <2>1, <2>2, <2>3 DEF BandRecord
<1> HIDE DEF nb, WriteBand, Turn
<1>6. ~Contested(i)
  BY <1>s DEF Contested, MayCreate, IsRunning
<1>7. \A k \in Creates :
        k \in BandOf(i).ids \/ CallsOf(i)[k] # "none" => k <= BandOf(i).count
  BY <1>3 DEF BandOK
<1>c. /\ BandOf(i).count \in {0, 1} /\ nb.count \in Creates /\ nb.count = BandOf(i).count + 1
      /\ status = "PRIMARY_RUNNING" => nb.count = 1
      /\ status = "FALLBACK_RUNNING" => nb.count = 2
  BY <1>4, <1>s DEF Creates
<1>8. CallsOf(i)[nb.count] = "none" /\ nb.count \notin nb.ids
  <2>1. ~(nb.count <= BandOf(i).count)
    BY <1>c
  <2> QED  BY <1>4, <1>7, <1>c, <2>1
<1>9. nb.code # "AMBIGUOUS" /\ nb.status # "CANCEL_PENDING" /\ IsRunning(nb)
      /\ nb.status \notin {"NONE", "SUCCEEDED", "PENDING", "FAILED"}
  BY <1>4 DEF Blank, IsRunning
<1>10. nb.count = 2 => CallsOf(i)[1] # "live"
  <2> SUFFICES ASSUME nb.count = 2
               PROVE  CallsOf(i)[1] # "live"
    OBVIOUS
  <2>1. FallbackIsAllowed(BandOf(i)) /\ BandOf(i).count = 1
    BY <1>c, <1>s
  <2>2. 2 \notin BandOf(i).ids
    BY <1>7, <2>1 DEF Creates
  <2>3. CASE OrdinaryFailure(BandOf(i))
    BY <1>3, <2>1, <2>3 DEF BandOK
  <2>4. CASE CancelConfirmed(BandOf(i))
    BY <1>3, <2>2, <2>4 DEF BandOK, CancelConfirmed
  <2> QED  BY <2>1, <2>3, <2>4 DEF FallbackIsAllowed
<1>11. BandOK(nb, CallsOf(i))
  <2>1. /\ \A k \in Creates : k \in nb.ids \/ CallsOf(i)[k] # "none" => k <= nb.count
    BY <1>4, <1>7, <1>c DEF Creates
  <2>2. /\ nb.confirmed # Blank => nb.ids # {}
        /\ 2 \notin nb.ids /\ nb.confirmed = "completed" => CallsOf(i)[1] \in {"good", "bad"}
        /\ 2 \notin nb.ids /\ nb.confirmed = "cancelled" => CallsOf(i)[1] # "live"
    BY <1>3, <1>4 DEF BandOK
  <2>3. /\ nb.status = "PRIMARY_RUNNING" => nb.count = 1
        /\ nb.status = "FALLBACK_RUNNING" => nb.count = 2
    BY <1>4, <1>c
  <2> QED  BY <1>9, <1>10, <2>1, <2>2, <2>3 DEF BandOK, OrdinaryFailure
<1>12. /\ aRun[i].steps <= 6 /\ aRun[i].steps + 1 + Remaining(nb) <= 6
  <2>1. Remaining(nb) = 3 * (2 - nb.count) + 2
    BY <1>5, <1>9, <1>11, CountOfStatus
  <2>2. Remaining(nb) = 3 * (2 - BandOf(i).count) - 1
    BY <1>c, <2>1
  <2>3. BandOf(i).status \in {"PENDING", "FAILED", "CANCEL_PENDING"}
    BY <1>s DEF FallbackIsAllowed, OrdinaryFailure, CancelConfirmed
  <2>4. Remaining(BandOf(i)) >= 3 * (2 - BandOf(i).count)
    <3>1. \/ Remaining(BandOf(i)) = 3 * (2 - BandOf(i).count)
          \/ Remaining(BandOf(i)) = 3 * (2 - BandOf(i).count) + 1
      BY <1>3, <2>3, CountOfStatus
    <3> QED  BY <1>c, <3>1
  <2>5. Remaining(BandOf(i)) \in 0..6
    BY <1>3, RemainingIsBounded
  <2>6. aRun[i].steps + 3 * (2 - BandOf(i).count) <= 6
    BY <1>3, <1>c, <2>4, <2>5
  <2> QED  BY <1>3, <1>c, <2>2, <2>6
<1>13. (IF Between(i) THEN aRun[i].steps + 1 ELSE aRun[i].steps) + Remaining(nb)
          <= IF "create" = "accept" THEN 7 ELSE 6
  BY <1>2, <1>12
<1>14. /\ nb.count = IF "create" = "create" THEN BandOf(i).count + 1 ELSE BandOf(i).count
       /\ MayCreate(nb, CallsOf(i), nb.count) /\ IsRunning(nb)
  BY <1>8, <1>9, <1>c DEF MayCreate
<1>15. aRun[i].pc # "create" /\ "create" \in {"create", "cancel", "accept"}
       /\ ("create" \in {"cancel", "accept"} => nb.status = "CANCEL_PENDING")
       /\ aRun[i].steps <= 6
  BY <1>2, <1>12
<1> QED  BY <1>1, <1>2, <1>5, <1>6, <1>9, <1>11, <1>13, <1>14, <1>15, HolderTurns

------------------------------------------------------------------------------
(* Steps that leave all bands alone.                                         *)
LEMMA BandsFrame ==
  ASSUME UNCHANGED aBand
  PROVE  \A p \in ArabicPages :
           /\ Planned(p)' <=> Planned(p)
           /\ OpenBands(p)' = OpenBands(p) /\ FirstOpen(p)' = FirstOpen(p)
<1> SUFFICES ASSUME NEW p \in ArabicPages
             PROVE  /\ Planned(p)' <=> Planned(p)
                    /\ OpenBands(p)' = OpenBands(p) /\ FirstOpen(p)' = FirstOpen(p)
  OBVIOUS
<1>1. OpenBands(p)' = OpenBands(p)
  BY DEF OpenBands, BandsOf
<1> QED  BY <1>1 DEF Planned, FirstOpen

LEMMA OthersStay ==
  ASSUME ArabicInvariant, UNCHANGED <<aBand, aProvider>>, NEW j \in ArabicRuns, aRun'[j] = aRun[j],
         NEW p \in ArabicPages, p = aRun[j].page,
         aPage' \in [ArabicPages -> PageRecord],
         aPage'[p].token >= aPage[p].token,
         aRun[j].pc = "vision" => aPage'[p].vision = 1 /\ aPage'[p].calls = 0,
         aRun[j].pc = "planned" => aPage'[p].calls = 1,
         Claimed(j) /\ Fresh(j)' => Fresh(j)
  PROVE  RunOK(j)' /\ HolderOK(j)'
<1>1. RunOK(j) /\ HolderOK(j) /\ aPage[p] \in PageRecord
  BY ArabicTyped DEF ArabicInvariant
<1>2. /\ Planned(p)' <=> Planned(p)
      /\ OpenBands(p)' = OpenBands(p) /\ FirstOpen(p)' = FirstOpen(p)
  BY BandsFrame
<1>3. aRun'[j].page = p /\ (Claimed(j)' <=> Claimed(j))
  BY DEF Claimed
<1>4. Claimed(j) => aRun[j].token \in 1..aPage'[p].token
  <2>1. Claimed(j) => aRun[j].token \in 1..aPage[p].token
    BY <1>1 DEF RunOK
  <2>2. aPage[p].token \in Nat /\ aPage'[p].token \in Nat
    BY <1>1 DEF PageRecord
  <2> QED  BY <2>1, <2>2
<1>5. RunOK(j)'
  BY <1>1, <1>2, <1>3, <1>4 DEF RunOK
<1>6. HolderOK(j)'
  <2>1. CASE ~Fresh(j)'
    BY <2>1 DEF HolderOK
  <2>2. CASE ~Claimed(j)
    BY <2>2, <1>3 DEF HolderOK, Claimed, Mid, Loop
  <2>3. CASE Fresh(j)' /\ Claimed(j)
    <3>1. Fresh(j)
      BY <2>3
    <3> HIDE DEF Fresh
    <3> QED  BY <3>1, <1>1, <1>2, <1>3 DEF HolderOK
  <2> QED  BY <2>1, <2>2, <2>3
<1> QED  BY <1>5, <1>6

(* Only the run itself moves. *)
LEMMA OnlyRunMoves ==
  ASSUME ArabicInvariant, NEW i \in ArabicRuns, NEW nr \in RunRecord,
         UNCHANGED <<aAttempt, aPage, aBand, aProvider>>,
         aRun' = [aRun EXCEPT ![i] = nr],
         \/ nr.pc \in {"idle", "claim"}
         \/ Claimed(i) /\ nr.page = Page(i) /\ nr.token = aRun[i].token,
         nr.pc \in {"vision", "planned", "create"} => nr.pc = aRun[i].pc /\ nr.band = aRun[i].band,
         RunOK(i)', HolderOK(i)'
  PROVE  ArabicInvariant'
<1>1. /\ ArabicTypeOK
      /\ aRun \in [ArabicRuns -> RunRecord] /\ aPage \in [ArabicPages -> PageRecord]
  BY ArabicTyped DEF ArabicInvariant
<1>2. ArabicTypeOK'
  <2>1. aRun' \in [ArabicRuns -> RunRecord]
    BY <1>1
  <2> QED  BY <1>1, <2>1 DEF ArabicTypeOK, RunRecord, Answers
<1>3. aRun'[i] = nr /\ \A j \in ArabicRuns : j # i => aRun'[j] = aRun[j]
  BY <1>1
<1>4. \A p \in ArabicPages : PageOK(p)'
  <2> TAKE p \in ArabicPages
  <2>1. PageOK(p) /\ (Planned(p)' <=> Planned(p)) /\ OpenBands(p)' = OpenBands(p)
    BY BandsFrame DEF ArabicInvariant
  <2> QED  BY <2>1 DEF PageOK
<1>5. \A p \in ArabicPages, b \in Bands : BandOK(aBand[p][b], aProvider[p][b])'
  BY DEF ArabicInvariant
<1>6. \A j \in ArabicRuns : RunOK(j)' /\ HolderOK(j)'
  <2> SUFFICES ASSUME NEW j \in ArabicRuns, j # i
               PROVE  RunOK(j)' /\ HolderOK(j)'
    OBVIOUS
  <2>1. PICK p \in ArabicPages : p = aRun[j].page
    BY <1>1 DEF RunRecord
  <2>2. RunOK(j) /\ aRun'[j] = aRun[j] /\ aPage[p].token \in Nat
    BY <1>1, <1>3 DEF ArabicInvariant, PageRecord
  <2>3. Fresh(j)' => Fresh(j)
    BY <2>2 DEF Fresh, RowOf, Page
  <2>4. /\ aRun[j].pc = "vision" => aPage'[p].vision = 1 /\ aPage'[p].calls = 0
        /\ aRun[j].pc = "planned" => aPage'[p].calls = 1
        /\ aPage'[p].token >= aPage[p].token /\ aPage' \in [ArabicPages -> PageRecord]
    BY <1>1, <2>1, <2>2 DEF RunOK
  <2> QED  BY <2>1, <2>2, <2>3, <2>4, OthersStay
<1>7. \A j, k \in ArabicRuns : j # k => Apart(j, k)'
  <2> SUFFICES ASSUME NEW j \in ArabicRuns, NEW k \in ArabicRuns, j # k
               PROVE  Apart(j, k)'
    OBVIOUS
  <2>1. Apart(j, k)
    BY DEF ArabicInvariant
  <2>2. CASE j # i /\ k # i
    BY <2>1, <2>2, <1>3 DEF Apart, Claimed
  <2>3. CASE j = i
    BY <2>1, <2>3, <1>3 DEF Apart, Claimed, Page
  <2>4. CASE k = i
    BY <2>1, <2>4, <1>3 DEF Apart, Claimed, Page
  <2> QED  BY <2>2, <2>3, <2>4
<1> QED  BY <1>2, <1>4, <1>5, <1>6, <1>7 DEF ArabicInvariant

(* A run without a claim asserts nothing. *)
LEMMA UnclaimedRun ==
  ASSUME NEW i \in ArabicRuns, aRun'[i].pc \in {"idle", "claim"}, aRun'[i].steps = 0
  PROVE  RunOK(i)' /\ HolderOK(i)'
BY DEF RunOK, HolderOK, Claimed, Loop, Mid

LEMMA IdleRunTyped == IdleRun \in RunRecord
<1>1. "" \in Answers /\ "idle" # "claim"
  BY DEF Answers
<1>2. 1 \in ArabicPages /\ 1 \in Bands /\ 1 \in Creates /\ 0 \in 0..MaxBandSteps
  BY ArabicPagesAssumption DEF ArabicPages, Bands, Creates, MaxBandSteps
<1> QED  BY <1>1, <1>2 DEF IdleRun, RunRecord

LEMMA StopArabicRunKeepsInvariant ==
  ASSUME ArabicInvariant, NEW i \in ArabicRuns, StopArabicRun(i)
  PROVE  ArabicInvariant'
<1>1. aRun \in [ArabicRuns -> RunRecord]
  BY ArabicTyped DEF ArabicInvariant
<1>2. aRun' = [aRun EXCEPT ![i] = IdleRun] /\ UNCHANGED <<aAttempt, aPage, aBand, aProvider>>
  BY DEF StopArabicRun, EndRun
<1>3. IdleRun.pc = "idle" /\ IdleRun.steps = 0
  BY DEF IdleRun
<1>4. aRun'[i] = IdleRun
  BY <1>1, <1>2
<1>5. RunOK(i)' /\ HolderOK(i)'
  BY <1>3, <1>4, UnclaimedRun
<1> QED  BY <1>2, <1>3, <1>5, IdleRunTyped, OnlyRunMoves

LEMMA NextPageIs ==
  ASSUME ArabicTypeOK, NEW i \in ArabicRuns, NextPage(i)
  PROVE  \E nr \in RunRecord :
           aRun' = [aRun EXCEPT ![i] = nr] /\ nr.pc \in {"idle", "claim"} /\ nr.steps = 0
<1>1. CASE Page(i) = ArabicPageCount
  <2>1. IdleRun.pc = "idle" /\ IdleRun.steps = 0
    BY DEF IdleRun
  <2> QED  BY <1>1, <2>1, IdleRunTyped DEF NextPage, EndRun
<1>2. CASE Page(i) # ArabicPageCount
  <2> DEFINE nr == [IdleRun EXCEPT !.pc = "claim", !.page = Page(i) + 1]
  <2>1. Page(i) + 1 \in ArabicPages
    BY <1>2, RunTyped, ArabicPagesAssumption DEF Page, ArabicPages
  <2>2. nr \in RunRecord
    BY <2>1, IdleRunTyped DEF RunRecord
  <2>3. nr.pc = "claim" /\ nr.steps = 0
    BY DEF IdleRun
  <2> QED  BY <1>2, <2>2, <2>3 DEF NextPage
<1> QED  BY <1>1, <1>2

LEMMA ReuseArabicPageKeepsInvariant ==
  ASSUME ArabicInvariant, NEW i \in ArabicRuns, ReuseArabicPage(i)
  PROVE  ArabicInvariant'
<1>1. ArabicTypeOK /\ aRun \in [ArabicRuns -> RunRecord] /\ NextPage(i)
      /\ UNCHANGED <<aAttempt, aPage, aBand, aProvider>>
  BY ArabicTyped DEF ArabicInvariant, ReuseArabicPage
<1>2. PICK nr \in RunRecord :
        aRun' = [aRun EXCEPT ![i] = nr] /\ nr.pc \in {"idle", "claim"} /\ nr.steps = 0
  BY <1>1, NextPageIs
<1>3. aRun'[i] = nr
  BY <1>1, <1>2
<1>4. RunOK(i)' /\ HolderOK(i)'
  BY <1>2, <1>3, UnclaimedRun
<1> QED  BY <1>1, <1>2, <1>4, OnlyRunMoves

LEMMA DeadlinePassesKeepsInvariant ==
  ASSUME ArabicInvariant, NEW i \in ArabicRuns, DeadlinePasses(i)
  PROVE  ArabicInvariant'
<1> DEFINE nr == [aRun[i] EXCEPT !.late = TRUE]
<1>1. /\ aRun \in [ArabicRuns -> RunRecord] /\ aRun[i] \in RunRecord
      /\ aRun' = [aRun EXCEPT ![i] = nr] /\ UNCHANGED <<aAttempt, aPage, aBand, aProvider>>
      /\ Claimed(i)
  BY ArabicTyped DEF ArabicInvariant, DeadlinePasses, Claimed
<1>2. /\ nr \in RunRecord /\ nr.pc = aRun[i].pc /\ nr.page = aRun[i].page
      /\ nr.token = aRun[i].token /\ nr.steps = aRun[i].steps
      /\ nr.band = aRun[i].band /\ nr.create = aRun[i].create /\ nr.answer = aRun[i].answer
  BY <1>1 DEF RunRecord
<1> HIDE DEF nr
<1>3. aRun'[i] = nr
  BY <1>1
<1>p. PICK p \in ArabicPages : p = aRun[i].page
  BY <1>1 DEF RunRecord
<1>4. /\ Planned(p)' <=> Planned(p)
      /\ OpenBands(p)' = OpenBands(p) /\ FirstOpen(p)' = FirstOpen(p)
  BY <1>1, BandsFrame
<1>5. RunOK(i)'
  <2>1. RunOK(i)
    BY DEF ArabicInvariant
  <2> QED  BY <1>1, <1>2, <1>3, <1>p, <1>4, <2>1 DEF RunOK, Claimed
<1>6. HolderOK(i)'
  <2>1. HolderOK(i) /\ (Fresh(i)' <=> Fresh(i))
    BY <1>1, <1>2, <1>3 DEF ArabicInvariant, Fresh, RowOf, Page
  <2> HIDE DEF Fresh
  <2> QED  BY <1>1, <1>2, <1>3, <1>p, <1>4, <2>1 DEF HolderOK
<1> QED  BY <1>1, <1>2, <1>5, <1>6, OnlyRunMoves DEF Page

(* The first open band, of whatever page, needs at most six decisions. *)
LEMMA FirstOpenRemains ==
  ASSUME ArabicInvariant, NEW p \in ArabicPages, OpenBands(p) # {}
  PROVE  Remaining(aBand[p][FirstOpen(p)]) \in 0..6
<1>1. FirstOpen(p) \in Bands
  BY FirstOpenIsOpen
<1>2. aBand \in [ArabicPages -> [Bands -> BandRecord]]
  BY ArabicTyped DEF ArabicInvariant
<1>3. aBand[p][FirstOpen(p)] \in BandRecord
  BY <1>1, <1>2
<1>4. BandOK(aBand[p][FirstOpen(p)], aProvider[p][FirstOpen(p)])
  BY <1>1 DEF ArabicInvariant
<1> QED  BY <1>3, <1>4, RemainingIsBounded

LEMMA RunLeaves ==
  ASSUME ArabicInvariant, NEW i \in ArabicRuns, Claimed(i), NEW pc \in {"fail", "fence"}, Goto(i, pc),
         UNCHANGED <<aAttempt, aPage, aBand, aProvider>>
  PROVE  ArabicInvariant'
<1> DEFINE nr == [aRun[i] EXCEPT !.pc = pc]
<1>1. /\ aRun \in [ArabicRuns -> RunRecord] /\ aRun[i] \in RunRecord
      /\ aRun' = [aRun EXCEPT ![i] = nr] /\ RunOK(i)
  BY ArabicTyped DEF ArabicInvariant, Goto
<1>2. /\ nr \in RunRecord /\ nr.pc = pc /\ nr.page = aRun[i].page
      /\ nr.token = aRun[i].token /\ nr.steps = aRun[i].steps
  BY <1>1 DEF RunRecord
<1> HIDE DEF nr
<1>3. aRun'[i] = nr
  BY <1>1
<1>4. RunOK(i)'
  <2>1. aRun[i].steps <= 7 /\ aRun[i].token \in 1..aPage[aRun[i].page].token
    BY <1>1 DEF RunOK
  <2> QED  BY <1>2, <1>3, <2>1 DEF RunOK, Loop, Mid
<1>5. HolderOK(i)'
  BY <1>2, <1>3 DEF HolderOK, Loop, Mid
<1>6. nr.pc \notin {"vision", "planned", "create"}
  BY <1>2
<1> QED  BY <1>1, <1>2, <1>4, <1>5, <1>6, OnlyRunMoves DEF Page

LEMMA GiveUpPageKeepsInvariant ==
  ASSUME ArabicInvariant, NEW i \in ArabicRuns, GiveUpPage(i)
  PROVE  ArabicInvariant'
<1>1. /\ Claimed(i) /\ Goto(i, "fail") /\ UNCHANGED <<aAttempt, aPage, aBand, aProvider>>
  BY DEF GiveUpPage, Deciding, Between, Claimed
<1> QED  BY <1>1, RunLeaves

LEMMA EnsurePlanKeepsInvariant ==
  ASSUME ArabicInvariant, NEW i \in ArabicRuns, EnsurePlan(i)
  PROVE  ArabicInvariant'
<1>1. /\ Claimed(i) /\ aRun[i].pc = "plan" /\ UNCHANGED <<aAttempt, aPage, aBand, aProvider>>
      /\ (Planned(Page(i)) /\ Goto(i, "bands")) \/ Goto(i, "fence") \/ Goto(i, "fail")
  BY DEF EnsurePlan, Claimed
<1>2. CASE Planned(Page(i)) /\ Goto(i, "bands")
  <2> DEFINE nr == [aRun[i] EXCEPT !.pc = "bands"]
  <2>1. /\ aRun \in [ArabicRuns -> RunRecord] /\ aRun[i] \in RunRecord
        /\ aRun' = [aRun EXCEPT ![i] = nr] /\ RunOK(i)
    BY <1>2, ArabicTyped DEF ArabicInvariant, Goto
  <2>2. /\ nr \in RunRecord /\ nr.pc = "bands" /\ nr.page = aRun[i].page
        /\ nr.token = aRun[i].token /\ nr.steps = aRun[i].steps
    BY <2>1 DEF RunRecord
  <2> HIDE DEF nr
  <2>3. aRun'[i] = nr
    BY <2>1
  <2>p. PICK p \in ArabicPages : p = aRun[i].page
    BY <2>1 DEF RunRecord
  <2>4. /\ Planned(p)' <=> Planned(p)
        /\ OpenBands(p)' = OpenBands(p) /\ FirstOpen(p)' = FirstOpen(p)
    BY <1>1, BandsFrame
  <2>5. aRun[i].steps = 0 /\ aRun[i].token \in 1..aPage[p].token
    BY <1>1, <2>1, <2>p DEF RunOK
  <2>6. RunOK(i)'
    BY <1>1, <1>2, <2>2, <2>3, <2>p, <2>4, <2>5 DEF RunOK, Page
  <2>7. OpenBands(p) # {} => Remaining(aBand[p][FirstOpen(p)]) \in 0..6
    BY FirstOpenRemains
  <2>8. HolderOK(i)'
    BY <1>1, <2>2, <2>3, <2>p, <2>4, <2>5, <2>7 DEF HolderOK, Mid
  <2> QED  BY <1>1, <2>1, <2>2, <2>6, <2>8, OnlyRunMoves DEF Page
<1> QED  BY <1>1, <1>2, RunLeaves

LEMMA RestartedRun ==
  ASSUME NEW r \in RunRecord, 1 \in Bands
  PROVE  LET m == Moved(r, "bands", r.steps, 1, 1)
         IN  /\ m \in RunRecord /\ m.pc = "bands" /\ m.page = r.page
             /\ m.token = r.token /\ m.steps = r.steps
BY DEF Moved, RunRecord, Creates

LEMMA SkipCancelKeepsInvariant ==
  ASSUME ArabicInvariant, NEW i \in ArabicRuns, SkipCancel(i)
  PROVE  ArabicInvariant'
<1> DEFINE nr == Moved(aRun[i], "bands", aRun[i].steps, 1, 1)
<1>1. /\ aRun \in [ArabicRuns -> RunRecord] /\ aRun[i] \in RunRecord /\ aRun[i].steps \in 0..8
      /\ Claimed(i) /\ aRun[i].pc = "cancel" /\ Restart(i, aRun[i].steps)
      /\ UNCHANGED <<aAttempt, aPage, aBand, aProvider>> /\ 1 \in Bands /\ RunOK(i)
  BY ArabicTyped, RunTyped, ArabicPagesAssumption DEF ArabicInvariant, SkipCancel, Claimed, Bands
<1>2. /\ nr \in RunRecord /\ nr.pc = "bands" /\ nr.page = aRun[i].page
      /\ nr.token = aRun[i].token /\ nr.steps = aRun[i].steps
  BY <1>1, RestartedRun
<1>3. aRun' = [aRun EXCEPT ![i] = nr]
  BY <1>1, Moves
<1> HIDE DEF nr, Restart
<1>4. aRun'[i] = nr
  BY <1>1, <1>3
<1>p. PICK p \in ArabicPages : p = aRun[i].page
  BY <1>1 DEF RunRecord
<1>5. /\ Planned(p)' <=> Planned(p)
      /\ OpenBands(p)' = OpenBands(p) /\ FirstOpen(p)' = FirstOpen(p)
  BY <1>1, BandsFrame
<1>6. /\ aRun[i].steps <= 7 /\ aRun[i].token \in 1..aPage[p].token /\ Planned(p)
  BY <1>1, <1>p DEF RunOK, Claimed, Loop, Mid
<1>7. RunOK(i)'
  BY <1>1, <1>2, <1>4, <1>p, <1>5, <1>6 DEF RunOK
<1>8. HolderOK(i)'
  <2>1. HolderOK(i) /\ (Fresh(i)' <=> Fresh(i))
    BY <1>1, <1>2, <1>4 DEF ArabicInvariant, Fresh, RowOf, Page
  <2>2. Fresh(i) /\ OpenBands(p) # {} =>
          aRun[i].steps + Remaining(aBand[p][FirstOpen(p)]) <= 6
    BY <1>1, <1>p, <2>1 DEF HolderOK, Loop, Mid
  <2> HIDE DEF Fresh
  <2> QED  BY <1>1, <1>2, <1>4, <1>p, <1>5, <2>1, <2>2 DEF HolderOK, Mid
<1> QED  BY <1>1, <1>2, <1>3, <1>7, <1>8, OnlyRunMoves DEF Page

(* A provider call by run i for the create it holds in its locals. *)
LEMMA ProviderStep ==
  ASSUME ArabicInvariant, NEW i \in ArabicRuns, aRun[i].pc \in {"create", "cancel"},
         NEW np \in Calls, NEW nr \in RunRecord,
         UNCHANGED <<aAttempt, aPage, aBand>>,
         aProvider' = [aProvider EXCEPT ![Page(i)] = [@ EXCEPT ![aRun[i].band] = np]],
         aRun' = [aRun EXCEPT ![i] = nr],
         nr.page = Page(i), nr.token = aRun[i].token, nr.steps = aRun[i].steps,
         nr.band = aRun[i].band, nr.create = aRun[i].create,
         nr.pc = IF aRun[i].pc = "create" THEN "created" ELSE "answered",
         BandOK(aBand[Page(i)][aRun[i].band], np),
         MovesOn(aProvider[Page(i)][aRun[i].band], np),
         \A j \in ArabicRuns \ {i} :
           aRun[j].pc = "create" /\ Page(j) = Page(i) /\ aRun[j].band = aRun[i].band
           => np[aRun[j].create] = aProvider[Page(i)][aRun[i].band][aRun[j].create],
         nr.pc = "created" => np[nr.create] # "none",
         nr.pc = "answered" =>
           /\ nr.answer = "completed" => np[nr.create] \in {"good", "bad"}
           /\ nr.answer = "cancelled" => np[nr.create] = "cancelled"
  PROVE  ArabicInvariant'
<1>1. /\ aRun \in [ArabicRuns -> RunRecord] /\ aRun[i] \in RunRecord
      /\ aProvider \in [ArabicPages -> [Bands -> Calls]]
      /\ aBand \in [ArabicPages -> [Bands -> BandRecord]]
      /\ Claimed(i) /\ RunOK(i) /\ HolderOK(i)
  BY ArabicTyped DEF ArabicInvariant, Claimed
<1>p. PICK p \in ArabicPages, b \in Bands : p = aRun[i].page /\ b = aRun[i].band /\ p = Page(i)
  BY <1>1 DEF RunRecord, Page
<1>2. /\ aRun'[i] = nr /\ aProvider'[p][b] = np
  BY <1>1, <1>p
<1>3. /\ Planned(p)' <=> Planned(p)
      /\ OpenBands(p)' = OpenBands(p) /\ FirstOpen(p)' = FirstOpen(p)
  BY BandsFrame
<1>4. /\ aRun[i].steps <= 7 /\ aRun[i].token \in 1..aPage[p].token /\ Planned(p)
  BY <1>1, <1>p DEF RunOK, Claimed, Loop, Mid
<1>5. RunOK(i)'
  BY <1>2, <1>3, <1>4, <1>p DEF RunOK
<1>6. HolderOK(i)'
  <2>1. Fresh(i)' <=> Fresh(i)
    BY <1>2, <1>p, ZenonT(60) DEF Fresh, RowOf, Page
  <2>2. aRun[i].pc \in Mid /\ aRun[i].pc # "accept" /\ nr.pc \in {"created", "answered"}
    BY DEF Mid
  <2>3. ASSUME Fresh(i)
        PROVE  /\ OpenBands(p) # {} /\ b = FirstOpen(p) /\ aBand[p][b].count = aRun[i].create
               /\ aRun[i].pc = "create" => IsRunning(aBand[p][b])
               /\ aRun[i].pc = "cancel" => aBand[p][b].status = "CANCEL_PENDING"
               /\ aRun[i].steps + Remaining(aBand[p][FirstOpen(p)]) <= 6
    BY <1>1, <1>p, <2>2, <2>3 DEF HolderOK, Loop
  <2> HIDE DEF Fresh
  <2> QED  BY <1>2, <1>3, <1>p, <2>1, <2>2, <2>3, ZenonT(60) DEF HolderOK
<1>7. aBand' = [aBand EXCEPT ![Page(i)] = [@ EXCEPT ![b] = aBand[p][b]]]
  BY <1>1, <1>p
<1>8. \A j \in ArabicRuns \ {i} :
        aRun[j].pc = "create" /\ Page(j) = Page(i) /\ aRun[j].band = b
        => MayCreate(aBand[p][b], np, aRun[j].create)
  <2> SUFFICES ASSUME NEW j \in ArabicRuns \ {i}, aRun[j].pc = "create", Page(j) = p,
                      aRun[j].band = b
               PROVE  MayCreate(aBand[p][b], np, aRun[j].create)
    BY <1>p
  <2>1. MayCreate(aBand[p][b], aProvider[p][b], aRun[j].create)
    BY DEF ArabicInvariant, RunOK, Page
  <2>2. np[aRun[j].create] = aProvider[p][b][aRun[j].create]
    BY <1>p
  <2> QED  BY <2>1, <2>2 DEF MayCreate
<1> DEFINE nb == aBand[Page(i)][b]
<1>9. /\ BandOK(nb, np) /\ MovesOn(aProvider[Page(i)][b], np) /\ nb \in BandRecord
      /\ aProvider' = [aProvider EXCEPT ![Page(i)] = [@ EXCEPT ![b] = np]]
      /\ aBand' = [aBand EXCEPT ![Page(i)] = [@ EXCEPT ![b] = nb]]
      /\ nb = aBand[Page(i)][b]
      /\ \A j \in ArabicRuns \ {i} :
           aRun[j].pc = "create" /\ Page(j) = Page(i) /\ aRun[j].band = b
           => MayCreate(nb, np, aRun[j].create)
  <2>1. p = Page(i) /\ b = aRun[i].band /\ nb = aBand[p][b]
    BY <1>p
  <2>2. nb \in BandRecord
    BY <1>1, <2>1
  <2>3. BandOK(nb, np) /\ MovesOn(aProvider[Page(i)][b], np)
    BY <2>1
  <2>4. aProvider' = [aProvider EXCEPT ![Page(i)] = [@ EXCEPT ![b] = np]]
    BY <2>1
  <2>5. aBand' = [aBand EXCEPT ![Page(i)] = [@ EXCEPT ![b] = nb]]
    BY <1>7, <2>1
  <2> HIDE DEF nb
  <2>6. \A j \in ArabicRuns \ {i} :
           aRun[j].pc = "create" /\ Page(j) = Page(i) /\ aRun[j].band = b
           => MayCreate(nb, np, aRun[j].create)
    BY <1>8, <2>1
  <2> QED  BY <2>2, <2>3, <2>4, <2>5, <2>6 DEF nb
<1>10. nr.pc \notin {"vision", "planned", "create"}
  OBVIOUS
<1> HIDE DEF nb
<1> QED  BY <1>1, <1>5, <1>6, <1>9, <1>10, RunStep

LEMMA CallsEffect ==
  ASSUME ArabicInvariant, NEW i \in ArabicRuns, ~Between(i), NEW state, CallProvider(i, state),
         state \in {"live", "cancelled"}
  PROVE  LET np == [aProvider[Page(i)][aRun[i].band] EXCEPT ![aRun[i].create] = state]
         IN  /\ aProvider' = [aProvider EXCEPT ![Page(i)] = [@ EXCEPT ![aRun[i].band] = np]]
             /\ np \in Calls
             /\ \A k \in Creates :
                  np[k] = IF k = aRun[i].create THEN state
                          ELSE aProvider[Page(i)][aRun[i].band][k]
<1>1. aProvider \in [ArabicPages -> [Bands -> Calls]]
  BY ArabicTyped DEF ArabicInvariant
<1>2. Page(i) \in ArabicPages /\ aRun[i].band \in Bands /\ aRun[i].create \in Creates
  BY RunTyped DEF ArabicInvariant, Page
<1>3. BandIndex(i) = aRun[i].band /\ CreateOf(i) = aRun[i].create
  BY DEF BandIndex, CreateOf
<1>4. aProvider[Page(i)][aRun[i].band] \in Calls
  BY <1>1, <1>2
<1>5. aProvider' = [aProvider EXCEPT ![Page(i)] = [@ EXCEPT ![aRun[i].band] =
        [aProvider[Page(i)][aRun[i].band] EXCEPT ![aRun[i].create] = state]]]
  BY <1>1, <1>2, <1>3 DEF CallProvider
<1> QED  BY <1>2, <1>4, <1>5 DEF Calls

------------------------------------------------------------------------------
(* An interaction ends, is cancelled, or is created.                         *)
LEMMA CallEnds ==
  ASSUME NEW band, NEW old \in Calls, BandOK(band, old), NEW k \in Creates, old[k] = "live",
         NEW np \in Calls, np[k] \in {"good", "bad", "failed", "cancelled"},
         \A c \in Creates : c # k => np[c] = old[c]
  PROVE  /\ BandOK(band, np) /\ MovesOn(old, np)
         /\ \A c \in Creates : (np[c] = "none" <=> old[c] = "none")
<1>1. 1 \in Creates /\ 2 \in Creates
  BY DEF Creates
<1>2. /\ \A c \in Creates : (np[c] = "none" <=> old[c] = "none")
      /\ \A c \in Creates : old[c] # "live" => np[c] = old[c]
      /\ \A c \in Creates : np[c] # "live" \/ old[c] = "live"
  OBVIOUS
<1>3. BandOK(band, np)
  <2>1. \A c \in Creates : c \in band.ids \/ np[c] # "none" => c <= band.count
    BY <1>2 DEF BandOK
  <2>2. 2 \notin band.ids /\ band.confirmed = "completed" => np[1] \in {"good", "bad"}
    BY <1>1, <1>2 DEF BandOK
  <2>3. /\ 2 \notin band.ids /\ band.confirmed = "cancelled" => np[1] # "live"
        /\ band.count = 2 => np[1] # "live"
        /\ band.count = 1 /\ OrdinaryFailure(band) => np[1] # "live"
    BY <1>1, <1>2 DEF BandOK
  <2> QED  BY <2>1, <2>2, <2>3 DEF BandOK
<1>4. MovesOn(old, np)
  BY <1>2 DEF MovesOn
<1> QED  BY <1>2, <1>3, <1>4

LEMMA CallStarts ==
  ASSUME NEW band \in BandRecord, NEW old \in Calls, BandOK(band, old), NEW k \in Creates,
         MayCreate(band, old, k), NEW np \in Calls, np[k] = "live",
         \A c \in Creates : c # k => np[c] = old[c]
  PROVE  BandOK(band, np) /\ MovesOn(old, np)
<1>1. /\ old[k] = "none" /\ k \notin band.ids /\ band.count = k
      /\ IsRunning(band) \/ band.code = "AMBIGUOUS"
  BY DEF MayCreate
<1>2. \A c \in Creates : c \in band.ids \/ old[c] # "none" => c <= band.count
  BY DEF BandOK
<1>3. MovesOn(old, np)
  BY <1>1 DEF MovesOn
<1>4. band.ids \subseteq Creates
  BY DEF BandRecord
<1>5. CASE k = 1
  <2>1. band.ids = {}
    BY <1>1, <1>2, <1>4, <1>5 DEF Creates
  <2>2. band.confirmed = Blank
    BY <2>1 DEF BandOK
  <2>3. band.confirmed # "completed" /\ band.confirmed # "cancelled"
    BY <2>2 DEF Blank
  <2>4. \A c \in Creates : c \in band.ids \/ np[c] # "none" => c <= band.count
    BY <1>1, <1>2, <1>5 DEF Creates
  <2>5. ~OrdinaryFailure(band)
    BY <1>1 DEF OrdinaryFailure, IsRunning
  <2>6. band.count = 1
    BY <1>1, <1>5
  <2> QED  BY <1>3, <2>2, <2>3, <2>4, <2>5, <2>6 DEF BandOK
<1>6. CASE k = 2
  <2>1. np[1] = old[1]
    BY <1>6 DEF Creates
  <2>2. \A c \in Creates : c \in band.ids \/ np[c] # "none" => c <= band.count
    BY <1>1, <1>2, <1>6 DEF Creates
  <2> QED  BY <1>3, <2>1, <2>2 DEF BandOK
<1> QED  BY <1>5, <1>6 DEF Creates

LEMMA CreateInteractionKeepsInvariant ==
  ASSUME ArabicInvariant, NEW i \in ArabicRuns, CreateInteraction(i)
  PROVE  ArabicInvariant'
<1> DEFINE old == aProvider[Page(i)][aRun[i].band]
           np == [old EXCEPT ![aRun[i].create] = "live"]
           nr == [aRun[i] EXCEPT !.pc = "created"]
           band == aBand[Page(i)][aRun[i].band]
<1>1. /\ aRun[i].pc = "create" /\ ~Between(i) /\ CallProvider(i, "live")
      /\ aRun' = [aRun EXCEPT ![i] = nr] /\ UNCHANGED <<aAttempt, aPage, aBand>>
      /\ aRun[i] \in RunRecord /\ aRun[i].create \in Creates
      /\ Page(i) \in ArabicPages /\ aRun[i].band \in Bands
  BY RunTyped, ArabicTyped DEF CreateInteraction, Between, Goto, ArabicInvariant, Page
<1>2. /\ aProvider' = [aProvider EXCEPT ![Page(i)] = [@ EXCEPT ![aRun[i].band] = np]]
      /\ np \in Calls
      /\ \A k \in Creates : np[k] = IF k = aRun[i].create THEN "live" ELSE old[k]
  BY <1>1, CallsEffect
<1>3. /\ nr \in RunRecord /\ nr.pc = "created" /\ nr.page = Page(i)
      /\ nr.token = aRun[i].token /\ nr.steps = aRun[i].steps /\ nr.band = aRun[i].band
      /\ nr.create = aRun[i].create
  BY <1>1 DEF RunRecord, Page
<1>4. /\ MayCreate(band, old, aRun[i].create) /\ BandOK(band, old)
      /\ band \in BandRecord /\ old \in Calls
  BY <1>1, ArabicTyped DEF ArabicInvariant, RunOK, Page
<1> HIDE DEF np, nr, band, old
<1>5. BandOK(band, np) /\ MovesOn(old, np)
  <2>1. np[aRun[i].create] = "live" /\ \A c \in Creates : c # aRun[i].create => np[c] = old[c]
    BY <1>1, <1>2
  <2> QED  BY <1>1, <1>2, <1>4, <2>1, CallStarts
<1>6. \A j \in ArabicRuns \ {i} :
        ~(aRun[j].pc = "create" /\ Page(j) = Page(i) /\ aRun[j].band = aRun[i].band)
  BY <1>1 DEF ArabicInvariant, Apart, Page
<1>7. BandOK(aBand[Page(i)][aRun[i].band], np)
      /\ MovesOn(aProvider[Page(i)][aRun[i].band], np)
  BY <1>5 DEF band, old
<1>8. np[nr.create] # "none"
  BY <1>1, <1>2, <1>3
<1> QED  BY <1>1, <1>2, <1>3, <1>6, <1>7, <1>8, ProviderStep

LEMMA CancelInteractionKeepsInvariant ==
  ASSUME ArabicInvariant, NEW i \in ArabicRuns, CancelInteraction(i)
  PROVE  ArabicInvariant'
<1> DEFINE old == aProvider[Page(i)][aRun[i].band]
           state == old[aRun[i].create]
           band == aBand[Page(i)][aRun[i].band]
<1>1. PICK answer \in Answers :
        /\ answer = "completed" => Interaction(i) \in {"good", "bad"}
        /\ answer = "cancelled" => Interaction(i) \in {"live", "cancelled"}
        /\ \/ Interaction(i) = "live" /\ CallProvider(i, "cancelled")
           \/ ~(Interaction(i) = "live" /\ answer = "cancelled") /\ UNCHANGED aProvider
        /\ aRun' = [aRun EXCEPT ![i].pc = "answered", ![i].answer = answer]
  BY DEF CancelInteraction, Answers
<1> DEFINE nr == [aRun[i] EXCEPT !.pc = "answered", !.answer = answer]
<1>2. /\ aRun[i].pc = "cancel" /\ ~Between(i)
      /\ aRun' = [aRun EXCEPT ![i] = nr] /\ UNCHANGED <<aAttempt, aPage, aBand>>
      /\ aRun[i] \in RunRecord /\ aRun[i].create \in Creates
      /\ Page(i) \in ArabicPages /\ aRun[i].band \in Bands
      /\ Interaction(i) = state
  <2>1. aRun[i].pc = "cancel" /\ ~Between(i) /\ UNCHANGED <<aAttempt, aPage, aBand>>
    BY DEF CancelInteraction, Between
  <2>2. /\ aRun[i] \in RunRecord /\ aRun[i].create \in Creates /\ aRun \in [ArabicRuns -> RunRecord]
        /\ Page(i) \in ArabicPages /\ aRun[i].band \in Bands
    BY RunTyped, ArabicTyped DEF ArabicInvariant, Page
  <2>3. aRun' = [aRun EXCEPT ![i] = nr]
    BY <1>1, <2>2
  <2>4. Interaction(i) = state
    BY <2>1 DEF Interaction, BandIndex, CreateOf
  <2> QED  BY <2>1, <2>2, <2>3, <2>4
<1>3. /\ nr \in RunRecord /\ nr.pc = "answered" /\ nr.page = Page(i)
      /\ nr.token = aRun[i].token /\ nr.steps = aRun[i].steps /\ nr.band = aRun[i].band
      /\ nr.create = aRun[i].create /\ nr.answer = answer
  BY <1>2 DEF RunRecord, Page
<1>4. BandOK(band, old) /\ old \in Calls /\ band \in BandRecord
  BY <1>2, ArabicTyped DEF ArabicInvariant
<1>p. /\ aProvider \in [ArabicPages -> [Bands -> Calls]]
  BY ArabicTyped DEF ArabicInvariant
<1> HIDE DEF nr
<1>5. CASE state = "live" /\ CallProvider(i, "cancelled")
  <2> DEFINE np == [old EXCEPT ![aRun[i].create] = "cancelled"]
  <2>1. /\ aProvider' = [aProvider EXCEPT ![Page(i)] = [@ EXCEPT ![aRun[i].band] = np]]
        /\ np \in Calls
        /\ \A k \in Creates : np[k] = IF k = aRun[i].create THEN "cancelled" ELSE old[k]
    BY <1>2, <1>5, CallsEffect
  <2> HIDE DEF np, band, old
  <2>2. np[aRun[i].create] = "cancelled" /\ \A c \in Creates : c # aRun[i].create => np[c] = old[c]
    BY <1>2, <2>1
  <2>3. /\ BandOK(band, np) /\ MovesOn(old, np)
        /\ \A c \in Creates : (np[c] = "none" <=> old[c] = "none")
    BY <1>2, <1>4, <1>5, <2>1, <2>2, CallEnds
  <2>4. BandOK(aBand[Page(i)][aRun[i].band], np)
        /\ MovesOn(aProvider[Page(i)][aRun[i].band], np)
    BY <2>3 DEF band, old
  <2>5. \A j \in ArabicRuns \ {i} :
           aRun[j].pc = "create" /\ Page(j) = Page(i) /\ aRun[j].band = aRun[i].band
           => np[aRun[j].create] = aProvider[Page(i)][aRun[i].band][aRun[j].create]
    <3> SUFFICES ASSUME NEW j \in ArabicRuns \ {i},
                        aRun[j].pc = "create" , Page(j) = Page(i), aRun[j].band = aRun[i].band
                 PROVE  np[aRun[j].create] = old[aRun[j].create]
      BY DEF old
    <3>1. old[aRun[j].create] = "none" /\ aRun[j].create \in Creates
      BY RunTyped DEF ArabicInvariant, RunOK, MayCreate, Page, old
    <3> QED  BY <2>3, <3>1
  <2>6. nr.answer # "completed"
    BY <1>1, <1>2, <1>3, <1>5
  <2>7. /\ nr.answer = "completed" => np[nr.create] \in {"good", "bad"}
        /\ nr.answer = "cancelled" => np[nr.create] = "cancelled"
    BY <1>3, <2>2, <2>6
  <2> QED  BY <1>2, <1>3, <2>1, <2>4, <2>5, <2>7, ProviderStep
<1>6. CASE ~(state = "live" /\ answer = "cancelled") /\ UNCHANGED aProvider
  <2>1. aProvider' = [aProvider EXCEPT ![Page(i)] = [@ EXCEPT ![aRun[i].band] = old]]
    BY <1>2, <1>6, <1>p
  <2>2. MovesOn(old, old)
    BY DEF MovesOn
  <2>3. /\ nr.answer = "completed" => old[nr.create] \in {"good", "bad"}
        /\ nr.answer = "cancelled" => old[nr.create] = "cancelled"
    BY <1>1, <1>2, <1>3, <1>6
  <2>4. /\ BandOK(aBand[Page(i)][aRun[i].band], old)
        /\ MovesOn(aProvider[Page(i)][aRun[i].band], old)
        /\ \A j \in ArabicRuns \ {i} :
             aRun[j].pc = "create" /\ Page(j) = Page(i) /\ aRun[j].band = aRun[i].band
             => old[aRun[j].create] = aProvider[Page(i)][aRun[i].band][aRun[j].create]
    BY <1>4, <2>2
  <2> HIDE DEF old
  <2> QED  BY <1>2, <1>3, <1>4, <2>1, <2>3, <2>4, ProviderStep
<1> QED  BY <1>1, <1>2, <1>5, <1>6

LEMMA InteractionEndsKeepsInvariant ==
  ASSUME ArabicInvariant, NEW p \in ArabicPages, NEW b \in Bands, NEW k \in Creates,
         InteractionEnds(p, b, k)
  PROVE  ArabicInvariant'
<1>1. PICK state \in {"good", "bad", "failed"} :
        aProvider' = [aProvider EXCEPT ![p][b][k] = state]
  BY DEF InteractionEnds
<1>2. /\ aProvider[p][b][k] = "live" /\ UNCHANGED <<aAttempt, aPage, aBand, aRun>>
      /\ aProvider \in [ArabicPages -> [Bands -> Calls]] /\ ArabicTypeOK
      /\ aBand \in [ArabicPages -> [Bands -> BandRecord]]
  BY ArabicTyped DEF InteractionEnds, ArabicInvariant
<1> DEFINE old == aProvider[p][b]
           np == [old EXCEPT ![k] = state]
<1>3. /\ old \in Calls /\ np \in Calls /\ np[k] = state
      /\ \A c \in Creates : c # k => np[c] = old[c]
  BY <1>2 DEF Calls
<1>4. /\ aProvider' \in [ArabicPages -> [Bands -> Calls]]
      /\ \A q \in ArabicPages, c \in Bands :
           aProvider'[q][c] = IF q = p /\ c = b THEN np ELSE aProvider[q][c]
  BY <1>1, <1>2, <1>3
<1>5. ArabicTypeOK'
  BY <1>2, <1>4 DEF ArabicTypeOK, Calls
<1>6. BandOK(aBand[p][b], old)
  BY DEF ArabicInvariant
<1> HIDE DEF np
<1>7. /\ BandOK(aBand[p][b], np) /\ MovesOn(old, np)
      /\ \A c \in Creates : (np[c] = "none" <=> old[c] = "none")
  BY <1>2, <1>3, <1>6, CallEnds
<1>8. /\ \A q \in ArabicPages, c \in Bands : BandOK(aBand[q][c], aProvider[q][c])'
      /\ \A q \in ArabicPages, c \in Bands :
           /\ MovesOn(aProvider[q][c], aProvider'[q][c])
           /\ \A e \in Creates : (aProvider'[q][c][e] = "none" <=> aProvider[q][c][e] = "none")
  <2> SUFFICES ASSUME NEW q \in ArabicPages, NEW c \in Bands
               PROVE  /\ BandOK(aBand[q][c], aProvider[q][c])'
                      /\ MovesOn(aProvider[q][c], aProvider'[q][c])
                      /\ \A e \in Creates :
                           (aProvider'[q][c][e] = "none" <=> aProvider[q][c][e] = "none")
    OBVIOUS
  <2>1. CASE q = p /\ c = b
    <3>1. aProvider'[q][c] = np /\ aBand'[q][c] = aBand[p][b]
      BY <1>2, <1>4, <2>1
    <3> QED  BY <1>7, <2>1, <3>1
  <2>2. CASE ~(q = p /\ c = b)
    <3>1. aProvider'[q][c] = aProvider[q][c] /\ aBand'[q][c] = aBand[q][c]
      BY <1>2, <1>4, <2>2
    <3>2. BandOK(aBand[q][c], aProvider[q][c])
      BY DEF ArabicInvariant
    <3> QED  BY <3>1, <3>2 DEF MovesOn
  <2> QED  BY <2>1, <2>2
<1>9. \A q \in ArabicPages :
        /\ Planned(q)' <=> Planned(q)
        /\ OpenBands(q)' = OpenBands(q) /\ FirstOpen(q)' = FirstOpen(q)
  BY <1>2, BandsFrame
<1>10. \A q \in ArabicPages : PageOK(q)'
  BY <1>2, <1>9 DEF ArabicInvariant, PageOK
<1>11. \A i \in ArabicRuns : RunOK(i)'
  <2> TAKE i \in ArabicRuns
  <2>1. RunOK(i) /\ aRun[i].create \in Creates
    BY <1>2, RunTyped DEF ArabicInvariant
  <2>2. PICK q \in ArabicPages, c \in Bands : q = aRun[i].page /\ c = aRun[i].band
    BY <1>2, RunTyped
  <2>3. /\ MovesOn(aProvider[q][c], aProvider'[q][c])
        /\ \A e \in Creates : (aProvider'[q][c][e] = "none" <=> aProvider[q][c][e] = "none")
        /\ (Planned(q)' <=> Planned(q))
    BY <1>8, <1>9
  <2>4. aRun[i].pc = "create" => MayCreate(aBand[q][c], aProvider'[q][c], aRun[i].create)
    BY <2>1, <2>2, <2>3 DEF RunOK, MayCreate
  <2>5. aRun[i].pc = "created" => aProvider'[q][c][aRun[i].create] # "none"
    BY <2>1, <2>2, <2>3 DEF RunOK
  <2>6. aRun[i].pc = "answered" =>
          /\ aRun[i].answer = "completed" => aProvider'[q][c][aRun[i].create] \in {"good", "bad"}
          /\ aRun[i].answer = "cancelled" => aProvider'[q][c][aRun[i].create] = "cancelled"
    BY <2>1, <2>2, <2>3 DEF RunOK, MovesOn
  <2> QED  BY <1>2, <2>1, <2>2, <2>3, <2>4, <2>5, <2>6 DEF RunOK, Claimed
<1>12. \A i \in ArabicRuns : HolderOK(i)'
  <2> TAKE i \in ArabicRuns
  <2>1. HolderOK(i) /\ (Fresh(i)' <=> Fresh(i)) /\ aRun[i].page \in ArabicPages
    BY <1>2, RunTyped DEF ArabicInvariant, Fresh, RowOf, Page
  <2> HIDE DEF Fresh
  <2> QED  BY <1>2, <1>9, <2>1 DEF HolderOK
<1>13. \A i, j \in ArabicRuns : i # j => Apart(i, j)'
  BY <1>2 DEF ArabicInvariant, Apart, Claimed
<1> QED  BY <1>5, <1>8, <1>10, <1>11, <1>12, <1>13 DEF ArabicInvariant

(* Page rows move, and at most the runs of S with them; bands stay. *)
LEMMA PagesMove ==
  ASSUME ArabicInvariant, NEW S \in SUBSET ArabicRuns, UNCHANGED <<aBand, aProvider>>,
         aAttempt' \in {"NONE", "IN_PROGRESS", "PARTIAL", "COMPLETED"},
         aPage' \in [ArabicPages -> PageRecord],
         aRun' \in [ArabicRuns -> RunRecord],
         \A j \in ArabicRuns \ S : aRun'[j] = aRun[j],
         \A p \in ArabicPages : PageOK(p)' /\ aPage'[p].token >= aPage[p].token,
         \A j \in ArabicRuns \ S, p \in ArabicPages :
           p = aRun[j].page =>
             /\ aRun[j].pc = "vision" => aPage'[p].vision = 1 /\ aPage'[p].calls = 0
             /\ aRun[j].pc = "planned" => aPage'[p].calls = 1
             /\ Claimed(j) /\ Fresh(j)' => Fresh(j),
         \A i \in S : RunOK(i)' /\ HolderOK(i)',
         \A i \in S, j \in ArabicRuns : i # j => Apart(i, j)'
  PROVE  ArabicInvariant'
<1>1. ArabicTypeOK'
  <2>1. ArabicTypeOK
    BY DEF ArabicInvariant
  <2> QED  BY <2>1 DEF ArabicTypeOK, PageRecord, RunRecord, Answers
<1>2. \A p \in ArabicPages, b \in Bands : BandOK(aBand[p][b], aProvider[p][b])'
  BY DEF ArabicInvariant
<1>3. \A j \in ArabicRuns : RunOK(j)' /\ HolderOK(j)'
  <2> SUFFICES ASSUME NEW j \in ArabicRuns, j \notin S
               PROVE  RunOK(j)' /\ HolderOK(j)'
    OBVIOUS
  <2>1. PICK p \in ArabicPages : p = aRun[j].page
    BY RunTyped DEF ArabicInvariant
  <2>2. /\ aRun'[j] = aRun[j] /\ aPage'[p].token >= aPage[p].token
        /\ aRun[j].pc = "vision" => aPage'[p].vision = 1 /\ aPage'[p].calls = 0
        /\ aRun[j].pc = "planned" => aPage'[p].calls = 1
        /\ Claimed(j) /\ Fresh(j)' => Fresh(j)
    BY <2>1
  <2> QED  BY <2>1, <2>2, OthersStay
<1>4. \A j, k \in ArabicRuns : j # k => Apart(j, k)'
  <2> SUFFICES ASSUME NEW j \in ArabicRuns, NEW k \in ArabicRuns, j # k
               PROVE  Apart(j, k)'
    OBVIOUS
  <2>1. CASE j \notin S /\ k \notin S
    <3>1. Apart(j, k) /\ aRun'[j] = aRun[j] /\ aRun'[k] = aRun[k]
      BY <2>1 DEF ArabicInvariant
    <3> QED  BY <3>1 DEF Apart, Claimed
  <2>2. CASE j \in S
    BY <2>2
  <2>3. CASE k \in S
    <3>1. Apart(k, j)'
      BY <2>3
    <3> QED  BY <3>1 DEF Apart
  <2> QED  BY <2>1, <2>2, <2>3
<1> QED  BY <1>1, <1>2, <1>3, <1>4 DEF ArabicInvariant

(* One run moves with the page rows. *)
LEMMA RunAndPagesMove ==
  ASSUME ArabicInvariant, NEW i \in ArabicRuns, NEW nr \in RunRecord, UNCHANGED <<aBand, aProvider>>,
         aAttempt' \in {"NONE", "IN_PROGRESS", "PARTIAL", "COMPLETED"},
         aPage' \in [ArabicPages -> PageRecord],
         aRun' = [aRun EXCEPT ![i] = nr],
         \A p \in ArabicPages : PageOK(p)' /\ aPage'[p].token >= aPage[p].token,
         \A j \in ArabicRuns \ {i}, p \in ArabicPages :
           p = aRun[j].page =>
             /\ aRun[j].pc = "vision" => aPage'[p].vision = 1 /\ aPage'[p].calls = 0
             /\ aRun[j].pc = "planned" => aPage'[p].calls = 1
             /\ Claimed(j) /\ Fresh(j)' => Fresh(j),
         RunOK(i)', HolderOK(i)',
         \A j \in ArabicRuns : i # j => Apart(i, j)'
  PROVE  ArabicInvariant'
<1>1. aRun \in [ArabicRuns -> RunRecord]
  BY ArabicTyped DEF ArabicInvariant
<1>2. /\ aRun' \in [ArabicRuns -> RunRecord] /\ {i} \in SUBSET ArabicRuns
      /\ \A j \in ArabicRuns \ {i} : aRun'[j] = aRun[j]
  BY <1>1
<1>3. /\ \A k \in {i} : RunOK(k)' /\ HolderOK(k)'
      /\ \A k \in {i}, j \in ArabicRuns : k # j => Apart(k, j)'
  <2>1. ASSUME NEW k \in {i}
        PROVE  RunOK(k)' /\ HolderOK(k)'
    <3>1. k = i
      OBVIOUS
    <3> QED  BY <3>1
  <2>2. ASSUME NEW k \in {i}, NEW j \in ArabicRuns, k # j
        PROVE  Apart(k, j)'
    <3>1. k = i
      OBVIOUS
    <3> QED  BY <2>2, <3>1
  <2> QED  BY <2>1, <2>2
<1> QED  BY <1>2, <1>3, PagesMove

(* A page row that keeps its plan: what its invariant asks of the row. *)
LEMMA PageStays ==
  ASSUME ArabicInvariant, UNCHANGED aBand, NEW p \in ArabicPages, aPage'[p] = aPage[p],
         aAttempt' = "COMPLETED" => aPage'[p].status = "SUCCEEDED"
  PROVE  PageOK(p)'
<1>1. PageOK(p) /\ (Planned(p)' <=> Planned(p)) /\ OpenBands(p)' = OpenBands(p)
  BY BandsFrame DEF ArabicInvariant
<1> QED  BY <1>1 DEF PageOK

LEMMA StartArabicRunKeepsInvariant ==
  ASSUME ArabicInvariant, NEW i \in ArabicRuns, StartArabicRun(i)
  PROVE  ArabicInvariant'
<1> DEFINE nr == [aRun[i] EXCEPT !.pc = "claim"]
           New == [NoArabicPage EXCEPT !.status = "PENDING"]
<1>1. /\ aRun \in [ArabicRuns -> RunRecord] /\ aPage \in [ArabicPages -> PageRecord]
      /\ aRun[i] \in RunRecord
      /\ aRun' = [aRun EXCEPT ![i] = nr] /\ UNCHANGED <<aBand, aProvider>>
      /\ aRun[i].pc = "idle" /\ RunOK(i)
      /\ aAttempt \in {"NONE", "IN_PROGRESS", "PARTIAL", "COMPLETED"}
  BY ArabicTyped DEF ArabicInvariant, StartArabicRun, Goto
<1>2. nr \in RunRecord /\ nr.pc = "claim" /\ nr.steps = aRun[i].steps
  BY <1>1 DEF RunRecord
<1> HIDE DEF nr
<1>3. aRun' \in [ArabicRuns -> RunRecord] /\ aRun'[i] = nr
      /\ \A j \in ArabicRuns \ {i} : aRun'[j] = aRun[j]
  BY <1>1, <1>2
<1>4. /\ New \in PageRecord /\ New.status = "PENDING" /\ New.token = 0 /\ ~New.live
      /\ New.calls = 0 /\ New.vision = 0
      /\ NoArabicPage.status = "NONE" /\ NoArabicPage.token = 0 /\ NoArabicPage.calls = 0
      /\ NoArabicPage.vision = 0 /\ ~NoArabicPage.live
  BY DEF NoArabicPage, PageRecord
<1>5. /\ aPage' \in [ArabicPages -> PageRecord]
      /\ \A p \in ArabicPages :
           aPage'[p] = IF aPage[p].status = "NONE" THEN New ELSE aPage[p]
  BY <1>1, <1>4 DEF StartArabicRun
<1>6. aAttempt' \in {"NONE", "IN_PROGRESS", "PARTIAL", "COMPLETED"}
      /\ (aAttempt' = "COMPLETED" => aAttempt = "COMPLETED")
  BY <1>1 DEF StartArabicRun
<1> HIDE DEF New
<1>7. \A p \in ArabicPages : PageOK(p)' /\ aPage'[p].token >= aPage[p].token
  <2> TAKE p \in ArabicPages
  <2>1. PageOK(p) /\ aPage[p] \in PageRecord
    BY <1>1 DEF ArabicInvariant
  <2>2. CASE aPage[p].status = "NONE"
    <3>1. aPage'[p] = New /\ aPage[p] = NoArabicPage
      BY <2>1, <2>2, <1>5 DEF PageOK
    <3>2. aAttempt' # "COMPLETED"
      BY <2>1, <2>2, <1>6 DEF PageOK
    <3>3. /\ Planned(p)' <=> Planned(p)
          /\ UNCHANGED aBand
      BY <1>1, BandsFrame
    <3>4. PageOK(p)'
      BY <2>1, <3>1, <3>2, <3>3, <1>4 DEF PageOK
    <3> QED  BY <3>1, <3>4, <1>4
  <2>3. CASE aPage[p].status # "NONE"
    <3>1. aPage'[p] = aPage[p]
      BY <2>3, <1>5
    <3>2. aAttempt' = "COMPLETED" => aPage'[p].status = "SUCCEEDED"
      BY <2>1, <3>1, <1>6 DEF PageOK
    <3>3. PageOK(p)'
      BY <1>1, <3>1, <3>2, PageStays
    <3>4. aPage[p].token \in Nat
      BY <2>1 DEF PageRecord
    <3> QED  BY <3>1, <3>3, <3>4
  <2> QED  BY <2>2, <2>3
<1>8. ASSUME NEW j \in ArabicRuns \ {i}, NEW p \in ArabicPages, p = aRun[j].page
      PROVE  /\ aRun[j].pc = "vision" => aPage'[p].vision = 1 /\ aPage'[p].calls = 0
             /\ aRun[j].pc = "planned" => aPage'[p].calls = 1
             /\ Claimed(j) /\ Fresh(j)' => Fresh(j)
  <2>1. RunOK(j) /\ PageOK(p) /\ aRun'[j] = aRun[j]
    BY <1>3 DEF ArabicInvariant
  <2>2. aPage[p].status = "NONE" => aPage[p].vision = 0 /\ aPage[p].calls = 0
    BY <2>1, <1>4 DEF PageOK
  <2>3. aRun[j].pc \in {"vision", "planned"} => aPage'[p] = aPage[p]
    BY <1>5, <1>8, <2>1, <2>2 DEF RunOK
  <2>4. Fresh(j)' => aPage'[p] = aPage[p]
    BY <1>4, <1>5, <1>8, <2>1 DEF Fresh, RowOf, Page
  <2>5. Fresh(j)' => Fresh(j)
    BY <1>8, <2>1, <2>4 DEF Fresh, RowOf, Page
  <2> QED  BY <1>8, <2>1, <2>3, <2>5 DEF RunOK
<1>9. RunOK(i)' /\ HolderOK(i)'
  BY <1>1, <1>2, <1>3, UnclaimedRun DEF RunOK
<1>10. \A j \in ArabicRuns : i # j => Apart(i, j)'
  BY <1>2, <1>3 DEF Apart, Claimed
<1> HIDE DEF Fresh
<1> QED  BY <1>1, <1>2, <1>5, <1>6, <1>7, <1>8, <1>9, <1>10, RunAndPagesMove

LEMMA ArabicLeaseExpiresKeepsInvariant ==
  ASSUME ArabicInvariant, NEW p \in ArabicPages, ArabicLeaseExpires(p)
  PROVE  ArabicInvariant'
<1> DEFINE row == [aPage[p] EXCEPT !.live = FALSE]
<1>1. /\ aRun \in [ArabicRuns -> RunRecord] /\ aPage \in [ArabicPages -> PageRecord]
      /\ aPage' = [aPage EXCEPT ![p] = row] /\ UNCHANGED <<aAttempt, aBand, aProvider, aRun>>
      /\ aPage[p].live
      /\ aAttempt \in {"NONE", "IN_PROGRESS", "PARTIAL", "COMPLETED"}
  BY ArabicTyped DEF ArabicInvariant, ArabicLeaseExpires
<1>2. /\ row \in PageRecord /\ ~row.live /\ row.status = aPage[p].status
      /\ row.token = aPage[p].token /\ row.vision = aPage[p].vision
      /\ row.calls = aPage[p].calls
  BY <1>1 DEF PageRecord
<1> HIDE DEF row
<1>3. /\ aPage' \in [ArabicPages -> PageRecord] /\ aPage'[p] = row
      /\ \A q \in ArabicPages \ {p} : aPage'[q] = aPage[q]
  BY <1>1, <1>2
<1>4. \A q \in ArabicPages : PageOK(q)' /\ aPage'[q].token >= aPage[q].token
  <2> TAKE q \in ArabicPages
  <2>1. PageOK(q) /\ aPage[q].token \in Nat
        /\ (Planned(q)' <=> Planned(q)) /\ OpenBands(q)' = OpenBands(q)
    BY <1>1, BandsFrame DEF ArabicInvariant, PageRecord
  <2>2. CASE q = p
    <3>1. aPage[p].status = "RUNNING"
      BY <1>1, <2>1, <2>2 DEF PageOK
    <3>2. PageOK(q)'
      BY <1>1, <1>2, <1>3, <2>1, <2>2, <3>1 DEF PageOK
    <3> QED  BY <1>2, <1>3, <2>1, <2>2, <3>2
  <2>3. CASE q # p
    <3>1. aPage'[q] = aPage[q]
      BY <1>3, <2>3
    <3>2. aAttempt' = "COMPLETED" => aPage'[q].status = "SUCCEEDED"
      BY <1>1, <2>1, <3>1 DEF PageOK
    <3>3. PageOK(q)'
      BY <1>1, <3>1, <3>2, PageStays
    <3> QED  BY <2>1, <3>1, <3>3
  <2> QED  BY <2>2, <2>3
<1>5. ASSUME NEW j \in ArabicRuns, NEW q \in ArabicPages, q = aRun[j].page
      PROVE  /\ aRun[j].pc = "vision" => aPage'[q].vision = 1 /\ aPage'[q].calls = 0
             /\ aRun[j].pc = "planned" => aPage'[q].calls = 1
             /\ Claimed(j) /\ Fresh(j)' => Fresh(j)
  <2>1. /\ aPage'[q].vision = aPage[q].vision /\ aPage'[q].calls = aPage[q].calls
        /\ aPage'[q].live => aPage'[q] = aPage[q]
    BY <1>2, <1>3
  <2>2. Fresh(j)' => Fresh(j)
    BY <1>1, <1>5, <2>1 DEF Fresh, RowOf, Page
  <2>3. RunOK(j)
    BY DEF ArabicInvariant
  <2> QED  BY <1>5, <2>1, <2>2, <2>3 DEF RunOK
<1>6. /\ {} \in SUBSET ArabicRuns
      /\ \A j \in ArabicRuns \ {} : aRun'[j] = aRun[j]
      /\ aRun' \in [ArabicRuns -> RunRecord]
      /\ aAttempt' \in {"NONE", "IN_PROGRESS", "PARTIAL", "COMPLETED"}
      /\ \A i \in {} : RunOK(i)' /\ HolderOK(i)'
      /\ \A i \in {}, j \in ArabicRuns : i # j => Apart(i, j)'
  BY <1>1
<1>7. \A j \in ArabicRuns \ {}, q \in ArabicPages :
           q = aRun[j].page =>
             /\ aRun[j].pc = "vision" => aPage'[q].vision = 1 /\ aPage'[q].calls = 0
             /\ aRun[j].pc = "planned" => aPage'[q].calls = 1
             /\ Claimed(j) /\ Fresh(j)' => Fresh(j)
  BY <1>5
<1> QED  BY <1>1, <1>3, <1>4, <1>6, <1>7, PagesMove

(* One page row is written. *)
LEMMA RowMoves ==
  ASSUME ArabicInvariant, NEW p \in ArabicPages, NEW row \in PageRecord, UNCHANGED aBand,
         aPage' = [aPage EXCEPT ![p] = row], row.token >= aPage[p].token,
         row.status # "NONE", row.live => row.status = "RUNNING", row.calls <= row.vision,
         row.status = "SUCCEEDED" => Planned(p) /\ OpenBands(p) = {},
         aAttempt' = "COMPLETED" => \A q \in ArabicPages : aPage'[q].status = "SUCCEEDED"
  PROVE  /\ aPage' \in [ArabicPages -> PageRecord] /\ aPage'[p] = row
         /\ \A q \in ArabicPages \ {p} : aPage'[q] = aPage[q]
         /\ \A q \in ArabicPages : PageOK(q)' /\ aPage'[q].token >= aPage[q].token
<1>1. aPage \in [ArabicPages -> PageRecord]
  BY ArabicTyped DEF ArabicInvariant
<1>2. /\ aPage' \in [ArabicPages -> PageRecord] /\ aPage'[p] = row
      /\ \A q \in ArabicPages \ {p} : aPage'[q] = aPage[q]
  BY <1>1
<1>3. ASSUME NEW q \in ArabicPages
      PROVE  PageOK(q)' /\ aPage'[q].token >= aPage[q].token
  <2>1. CASE q = p
    <3>1. /\ PageOK(q) /\ (Planned(q)' <=> Planned(q)) /\ OpenBands(q)' = OpenBands(q)
      BY BandsFrame DEF ArabicInvariant
    <3>2. \A b \in Bands : aBand'[q][b] = aBand[q][b]
      OBVIOUS
    <3> QED  BY <2>1, <3>1, <3>2, <1>2 DEF PageOK
  <2>2. CASE q # p
    <3>1. aPage'[q] = aPage[q] /\ aPage[q].token \in Nat
      BY <1>1, <1>2, <2>2 DEF PageRecord
    <3>2. PageOK(q)'
      BY <3>1, PageStays
    <3> QED  BY <3>1, <3>2
  <2> QED  BY <2>1, <2>2
<1> QED  BY <1>2, <1>3

LEMMA ClaimArabicPageKeepsInvariant ==
  ASSUME ArabicInvariant, NEW i \in ArabicRuns, ClaimArabicPage(i)
  PROVE  ArabicInvariant'
<1> DEFINE row == [aPage[Page(i)] EXCEPT !.status = "RUNNING", !.token = @ + 1,
                                         !.live = TRUE, !.fence = FALSE]
<1>p. PICK p \in ArabicPages : p = Page(i)
  BY RunTyped DEF ArabicInvariant, Page
<1>1. /\ aRun \in [ArabicRuns -> RunRecord] /\ aPage \in [ArabicPages -> PageRecord]
      /\ aRun[i] \in RunRecord /\ aPage[p] \in PageRecord /\ RunOK(i) /\ PageOK(p)
      /\ UNCHANGED <<aBand, aProvider>> /\ aAttempt' = "IN_PROGRESS" /\ aRun[i].pc = "claim"
  BY ArabicTyped DEF ArabicInvariant, ClaimArabicPage
<1>2. aPage' = [aPage EXCEPT ![p] = row]
  BY <1>1, <1>p DEF ClaimArabicPage
<1>3. PICK pc \in {"plan", "fail"} :
        aRun' = [aRun EXCEPT ![i].pc = pc, ![i].token = aPage[p].token + 1]
  BY <1>p DEF ClaimArabicPage, RowOf
<1> DEFINE nr == [aRun[i] EXCEPT !.pc = pc, !.token = aPage[p].token + 1]
<1>4. aRun' = [aRun EXCEPT ![i] = nr]
  BY <1>1, <1>3
<1>5. /\ nr \in RunRecord /\ nr.pc = pc /\ nr.token = aPage[p].token + 1 /\ nr.page = p
      /\ nr.steps = 0
  <2>1. aPage[p].token + 1 \in Nat
    BY <1>1 DEF PageRecord
  <2>2. aRun[i].steps = 0 /\ aRun[i].page = p
    BY <1>1, <1>p DEF RunOK, Page
  <2> QED  BY <1>1, <2>1, <2>2 DEF RunRecord
<1>6. /\ row \in PageRecord /\ row.status = "RUNNING" /\ row.token = aPage[p].token + 1
      /\ row.live /\ row.vision = aPage[p].vision /\ row.calls = aPage[p].calls
      /\ aPage[p].token \in Nat /\ row.calls <= row.vision
  <2>1. /\ row \in PageRecord /\ row.status = "RUNNING" /\ row.token = aPage[p].token + 1
        /\ row.live /\ row.vision = aPage[p].vision /\ row.calls = aPage[p].calls
        /\ aPage[p].token \in Nat
    <3>1. aPage[p].token \in Nat /\ aPage[p].token + 1 \in Nat
      BY <1>1 DEF PageRecord
    <3>2. row = [aPage[p] EXCEPT !.status = "RUNNING", !.token = aPage[p].token + 1,
                                 !.live = TRUE, !.fence = FALSE]
      BY <1>p
    <3> HIDE DEF row
    <3>3. row \in PageRecord
      BY <1>1, <3>1, <3>2 DEF PageRecord
    <3>4. /\ row.status = "RUNNING" /\ row.token = aPage[p].token + 1
          /\ row.live /\ row.vision = aPage[p].vision /\ row.calls = aPage[p].calls
      BY <1>1, <3>2 DEF PageRecord
    <3> QED  BY <3>1, <3>3, <3>4
  <2>2. aPage[p].calls <= aPage[p].vision
    BY <1>1 DEF PageOK
  <2> QED  BY <2>1, <2>2
<1> HIDE DEF nr, row
<1>7. /\ aPage' \in [ArabicPages -> PageRecord] /\ aPage'[p] = row
      /\ \A q \in ArabicPages \ {p} : aPage'[q] = aPage[q]
      /\ \A q \in ArabicPages : PageOK(q)' /\ aPage'[q].token >= aPage[q].token
  <2>1. row.token >= aPage[p].token
    BY <1>6
  <2> QED  BY <1>1, <1>2, <1>6, <2>1, RowMoves
<1>8. aRun'[i] = nr /\ \A j \in ArabicRuns \ {i} : aRun'[j] = aRun[j]
  BY <1>1, <1>4
<1>9. ASSUME NEW j \in ArabicRuns, Claimed(j), aRun[j].page = p
      PROVE  aRun[j].token # row.token
  <2>1. aRun[j].token \in 1..aPage[p].token
    BY <1>9 DEF ArabicInvariant, RunOK
  <2> QED  BY <1>6, <2>1
<1>10. ASSUME NEW j \in ArabicRuns \ {i}, NEW q \in ArabicPages, q = aRun[j].page
       PROVE  /\ aRun[j].pc = "vision" => aPage'[q].vision = 1 /\ aPage'[q].calls = 0
              /\ aRun[j].pc = "planned" => aPage'[q].calls = 1
              /\ Claimed(j) /\ Fresh(j)' => Fresh(j)
  <2>1. RunOK(j) /\ aRun'[j] = aRun[j]
    BY <1>8 DEF ArabicInvariant
  <2>2. aPage'[q].vision = aPage[q].vision /\ aPage'[q].calls = aPage[q].calls
    BY <1>6, <1>7
  <2>3. Claimed(j) /\ Fresh(j)' => q # p
    BY <1>7, <1>9, <1>10, <2>1 DEF Fresh, RowOf, Page
  <2>4. Claimed(j) /\ Fresh(j)' => Fresh(j)
    BY <1>7, <1>10, <2>1, <2>3 DEF Fresh, RowOf, Page
  <2> QED  BY <1>10, <2>1, <2>2, <2>4 DEF RunOK
<1>11. RunOK(i)'
  <2>1. nr.token \in 1..row.token
    BY <1>5, <1>6
  <2> QED  BY <1>5, <1>7, <1>8, <2>1 DEF RunOK, Loop, Mid
<1>12. HolderOK(i)'
  BY <1>5, <1>8 DEF HolderOK, Loop, Mid
<1>13. ASSUME NEW j \in ArabicRuns, i # j
       PROVE  Apart(i, j)'
  <2>1. aRun'[j] = aRun[j] /\ (Claimed(j)' <=> Claimed(j))
    BY <1>8, <1>13 DEF Claimed
  <2>2. Claimed(j) /\ aRun[j].page = p => aRun[j].token # nr.token
    BY <1>5, <1>6, <1>9
  <2> QED  BY <1>5, <1>8, <2>1, <2>2 DEF Apart
<1> HIDE DEF Fresh
<1> QED  BY <1>1, <1>4, <1>5, <1>7, <1>10, <1>11, <1>12, <1>13, RunAndPagesMove

(* The row that run i writes while no other run depends on what changes.   *)
LEMMA ReserveVisionKeepsInvariant ==
  ASSUME ArabicInvariant, NEW i \in ArabicRuns, ReserveVision(i)
  PROVE  ArabicInvariant'
<1> DEFINE row == [aPage[Page(i)] EXCEPT !.vision = 1]
           nr == [aRun[i] EXCEPT !.pc = "vision"]
<1>p. PICK p \in ArabicPages : p = Page(i)
  BY RunTyped DEF ArabicInvariant, Page
<1>1. /\ aRun \in [ArabicRuns -> RunRecord] /\ aPage \in [ArabicPages -> PageRecord]
      /\ aRun[i] \in RunRecord /\ aPage[p] \in PageRecord /\ RunOK(i) /\ PageOK(p)
      /\ UNCHANGED <<aAttempt, aBand, aProvider>> /\ aRun[i].pc = "plan"
      /\ ~Planned(p) /\ aPage[p].vision = 0 /\ Fresh(i)
      /\ aAttempt \in {"NONE", "IN_PROGRESS", "PARTIAL", "COMPLETED"}
  BY <1>p, ArabicTyped DEF ArabicInvariant, ReserveVision, VisionIsOpen, RowOf
<1>2. aPage' = [aPage EXCEPT ![p] = row] /\ aRun' = [aRun EXCEPT ![i] = nr]
  BY <1>1, <1>p DEF ReserveVision, Goto
<1>5. /\ nr \in RunRecord /\ nr.pc = "vision" /\ nr.token = aRun[i].token /\ nr.page = p
      /\ nr.steps = 0 /\ aRun[i].token \in 1..aPage[p].token
  <2>1. aRun[i].steps = 0 /\ aRun[i].page = p /\ aRun[i].token \in 1..aPage[p].token
    BY <1>1, <1>p DEF RunOK, Page, Claimed
  <2> QED  BY <1>1, <2>1 DEF RunRecord
<1>6. /\ row \in PageRecord /\ row.status = aPage[p].status /\ row.token = aPage[p].token
      /\ row.live = aPage[p].live /\ row.vision = 1 /\ row.calls = aPage[p].calls
      /\ aPage[p].token \in Nat /\ aPage[p].calls = 0 /\ aPage[p].status = "RUNNING"
  BY <1>1, <1>p DEF PageRecord, PageOK, Fresh, RowOf
<1> HIDE DEF nr, row
<1>7. /\ aPage' \in [ArabicPages -> PageRecord] /\ aPage'[p] = row
      /\ \A q \in ArabicPages \ {p} : aPage'[q] = aPage[q]
      /\ \A q \in ArabicPages : PageOK(q)' /\ aPage'[q].token >= aPage[q].token
  <2>1. row.token >= aPage[p].token /\ row.calls <= row.vision /\ row.status # "NONE"
        /\ row.status # "SUCCEEDED"
    BY <1>6
  <2>2. aAttempt' # "COMPLETED"
    BY <1>1, <1>6 DEF PageOK
  <2> QED  BY <1>1, <1>2, <1>6, <2>1, <2>2, RowMoves
<1>8. aRun'[i] = nr /\ \A j \in ArabicRuns \ {i} : aRun'[j] = aRun[j]
  BY <1>1, <1>2
<1>9. ASSUME NEW j \in ArabicRuns, aRun[j].pc \in {"vision", "planned"}
      PROVE  aRun[j].page # p
  BY <1>1, <1>6, <1>9 DEF ArabicInvariant, RunOK
<1>10. ASSUME NEW j \in ArabicRuns \ {i}, NEW q \in ArabicPages, q = aRun[j].page
       PROVE  /\ aRun[j].pc = "vision" => aPage'[q].vision = 1 /\ aPage'[q].calls = 0
              /\ aRun[j].pc = "planned" => aPage'[q].calls = 1
              /\ Claimed(j) /\ Fresh(j)' => Fresh(j)
  <2>1. RunOK(j) /\ aRun'[j] = aRun[j]
    BY <1>8 DEF ArabicInvariant
  <2>2. aRun[j].pc \in {"vision", "planned"} => aPage'[q] = aPage[q]
    BY <1>7, <1>9, <1>10
  <2>3. /\ aPage'[q].status = aPage[q].status /\ aPage'[q].token = aPage[q].token
        /\ aPage'[q].live = aPage[q].live
    BY <1>6, <1>7
  <2>4. Fresh(j)' => Fresh(j)
    BY <1>10, <2>1, <2>3 DEF Fresh, RowOf, Page
  <2> QED  BY <1>10, <2>1, <2>2, <2>4 DEF RunOK
<1>11. RunOK(i)'
  <2>1. ~Planned(p)'
    BY <1>1, BandsFrame
  <2> QED  BY <1>5, <1>6, <1>7, <1>8, <2>1 DEF RunOK, Loop, Mid, Claimed
<1>12. HolderOK(i)'
  BY <1>5, <1>8 DEF HolderOK, Loop, Mid
<1>13. ASSUME NEW j \in ArabicRuns, i # j
       PROVE  Apart(i, j)'
  <2>1. Apart(i, j) /\ Claimed(i)
    BY <1>1, <1>13 DEF ArabicInvariant, Claimed
  <2>2. aRun'[j] = aRun[j] /\ (Claimed(j)' <=> Claimed(j))
    BY <1>8, <1>13 DEF Claimed
  <2>3. aRun[i].page = p
    BY <1>p DEF Page
  <2> QED  BY <1>5, <1>8, <1>9, <2>1, <2>2, <2>3 DEF Apart
<1> HIDE DEF Fresh
<1> QED  BY <1>1, <1>2, <1>5, <1>7, <1>10, <1>11, <1>12, <1>13, RunAndPagesMove

LEMMA VisionCallKeepsInvariant ==
  ASSUME ArabicInvariant, NEW i \in ArabicRuns, VisionCall(i)
  PROVE  ArabicInvariant'
<1> DEFINE row == [aPage[Page(i)] EXCEPT !.calls = @ + 1]
<1>p. PICK p \in ArabicPages : p = Page(i)
  BY RunTyped DEF ArabicInvariant, Page
<1>1. /\ aRun \in [ArabicRuns -> RunRecord] /\ aPage \in [ArabicPages -> PageRecord]
      /\ aRun[i] \in RunRecord /\ aPage[p] \in PageRecord /\ RunOK(i) /\ PageOK(p)
      /\ UNCHANGED <<aAttempt, aBand, aProvider>> /\ aRun[i].pc = "vision"
      /\ aAttempt \in {"NONE", "IN_PROGRESS", "PARTIAL", "COMPLETED"}
  BY <1>p, ArabicTyped DEF ArabicInvariant, VisionCall
<1>3. PICK pc \in {"planned", "fail"} : aRun' = [aRun EXCEPT ![i].pc = pc]
  BY DEF VisionCall, Goto
<1> DEFINE nr == [aRun[i] EXCEPT !.pc = pc]
<1>2. aPage' = [aPage EXCEPT ![p] = row] /\ aRun' = [aRun EXCEPT ![i] = nr]
  BY <1>1, <1>3, <1>p DEF VisionCall
<1>4. /\ aRun[i].steps = 0 /\ aRun[i].page = p /\ aRun[i].token \in 1..aPage[p].token
      /\ aPage[p].vision = 1 /\ aPage[p].calls = 0 /\ ~Planned(p)
  BY <1>1, <1>p DEF RunOK, Page, Claimed
<1>5. /\ nr \in RunRecord /\ nr.pc = pc /\ nr.token = aRun[i].token /\ nr.page = p
      /\ nr.steps = 0
  BY <1>1, <1>4 DEF RunRecord
<1>6. /\ row \in PageRecord /\ row.status = aPage[p].status /\ row.token = aPage[p].token
      /\ row.live = aPage[p].live /\ row.vision = 1 /\ row.calls = 1
      /\ aPage[p].token \in Nat
  BY <1>1, <1>4, <1>p DEF PageRecord
<1> HIDE DEF nr, row
<1>s. row.status \notin {"NONE", "SUCCEEDED"}
  <2>1. aPage[p].status # "NONE"
    <3>1. NoArabicPage.vision = 0
      BY DEF NoArabicPage
    <3> QED  BY <1>1, <1>4, <3>1 DEF PageOK
  <2>2. aPage[p].status # "SUCCEEDED"
    BY <1>1, <1>4 DEF PageOK
  <2> QED  BY <1>6, <2>1, <2>2
<1>7. /\ aPage' \in [ArabicPages -> PageRecord] /\ aPage'[p] = row
      /\ \A q \in ArabicPages \ {p} : aPage'[q] = aPage[q]
      /\ \A q \in ArabicPages : PageOK(q)' /\ aPage'[q].token >= aPage[q].token
  <2>1. row.token >= aPage[p].token /\ row.calls <= row.vision /\ row.status # "NONE"
        /\ row.status # "SUCCEEDED"
    BY <1>6, <1>s
  <2>2. aAttempt' # "COMPLETED"
    BY <1>1, <1>6, <1>s DEF PageOK
  <2>3. row.live => row.status = "RUNNING"
    BY <1>1, <1>6 DEF PageOK
  <2> QED  BY <1>1, <1>2, <1>6, <2>1, <2>2, <2>3, RowMoves
<1>8. aRun'[i] = nr /\ \A j \in ArabicRuns \ {i} : aRun'[j] = aRun[j]
  BY <1>1, <1>2
<1>9. ASSUME NEW j \in ArabicRuns \ {i}, aRun[j].pc \in {"vision", "planned"}
      PROVE  aRun[j].page # p
  BY <1>1, <1>4, <1>9 DEF ArabicInvariant, Apart
<1>10. ASSUME NEW j \in ArabicRuns \ {i}, NEW q \in ArabicPages, q = aRun[j].page
       PROVE  /\ aRun[j].pc = "vision" => aPage'[q].vision = 1 /\ aPage'[q].calls = 0
              /\ aRun[j].pc = "planned" => aPage'[q].calls = 1
              /\ Claimed(j) /\ Fresh(j)' => Fresh(j)
  <2>1. RunOK(j) /\ aRun'[j] = aRun[j]
    BY <1>8 DEF ArabicInvariant
  <2>2. aRun[j].pc \in {"vision", "planned"} => aPage'[q] = aPage[q]
    BY <1>7, <1>9, <1>10
  <2>3. /\ aPage'[q].status = aPage[q].status /\ aPage'[q].token = aPage[q].token
        /\ aPage'[q].live = aPage[q].live
    BY <1>6, <1>7
  <2>4. Fresh(j)' => Fresh(j)
    BY <1>10, <2>1, <2>3 DEF Fresh, RowOf, Page
  <2> QED  BY <1>10, <2>1, <2>2, <2>4 DEF RunOK
<1>11. RunOK(i)'
  <2>1. ~Planned(p)'
    BY <1>1, <1>4, BandsFrame
  <2> QED  BY <1>4, <1>5, <1>6, <1>7, <1>8, <2>1 DEF RunOK, Loop, Mid, Claimed
<1>12. HolderOK(i)'
  BY <1>5, <1>8 DEF HolderOK, Loop, Mid
<1>13. ASSUME NEW j \in ArabicRuns, i # j
       PROVE  Apart(i, j)'
  <2>1. Apart(i, j) /\ Claimed(i)
    BY <1>1, <1>13 DEF ArabicInvariant, Claimed
  <2>2. aRun'[j] = aRun[j] /\ (Claimed(j)' <=> Claimed(j))
    BY <1>8, <1>13 DEF Claimed
  <2>3. aRun[j].pc \in {"vision", "planned"} => aRun[j].page # p
    BY <1>9, <1>13
  <2> QED  BY <1>4, <1>5, <1>8, <2>1, <2>2, <2>3 DEF Apart
<1> HIDE DEF Fresh
<1> QED  BY <1>1, <1>2, <1>5, <1>7, <1>10, <1>11, <1>12, <1>13, RunAndPagesMove

(* _rollup_attempt_locked: a COMPLETED attempt has only successful pages. *)
LEMMA RollupIs ==
  ASSUME NEW page
  PROVE  /\ Rollup(page) \in {"PARTIAL", "COMPLETED"}
         /\ Rollup(page) = "COMPLETED" => \A p \in ArabicPages : page[p].status = "SUCCEEDED"
BY DEF Rollup

(* A run that holds its page settles it, and goes on without a claim. *)
LEMMA PageIsSettled ==
  ASSUME ArabicInvariant, NEW i \in ArabicRuns, NEW nr \in RunRecord, Claimed(i),
         NEW status \in {"SUCCEEDED", "FAILED"}, NEW fence \in BOOLEAN,
         SettlePage(i, status, fence),
         aRun' = [aRun EXCEPT ![i] = nr], nr.pc \in {"idle", "claim"}, nr.steps = 0,
         status = "SUCCEEDED" => Planned(Page(i)) /\ OpenBands(Page(i)) = {}
  PROVE  ArabicInvariant'
<1> DEFINE row == [aPage[Page(i)] EXCEPT !.status = status, !.live = FALSE, !.fence = fence]
<1>p. PICK p \in ArabicPages : p = Page(i)
  BY RunTyped DEF ArabicInvariant, Page
<1>1. /\ aRun \in [ArabicRuns -> RunRecord] /\ aPage \in [ArabicPages -> PageRecord]
      /\ aPage[p] \in PageRecord /\ PageOK(p)
      /\ UNCHANGED <<aBand, aProvider>> /\ Fresh(i) /\ aAttempt' = Rollup(aPage')
  BY <1>p, ArabicTyped DEF ArabicInvariant, SettlePage
<1>2. aPage' = [aPage EXCEPT ![p] = row]
  BY <1>1, <1>p DEF SettlePage
<1>3. /\ row \in PageRecord /\ row.status = status /\ ~row.live
      /\ row.token = aPage[p].token /\ aPage[p].token \in Nat
      /\ row.vision = aPage[p].vision /\ row.calls = aPage[p].calls
  BY <1>1, <1>p DEF PageRecord
<1> HIDE DEF row
<1>4. /\ aAttempt' \in {"NONE", "IN_PROGRESS", "PARTIAL", "COMPLETED"}
      /\ aAttempt' = "COMPLETED" => \A q \in ArabicPages : aPage'[q].status = "SUCCEEDED"
  BY <1>1, RollupIs
<1>5. /\ aPage' \in [ArabicPages -> PageRecord] /\ aPage'[p] = row
      /\ \A q \in ArabicPages \ {p} : aPage'[q] = aPage[q]
      /\ \A q \in ArabicPages : PageOK(q)' /\ aPage'[q].token >= aPage[q].token
  <2>1. row.calls <= row.vision
    BY <1>1, <1>3 DEF PageOK
  <2>2. row.token >= aPage[p].token /\ row.status # "NONE"
        /\ (row.live => row.status = "RUNNING")
    BY <1>3
  <2>3. row.status = "SUCCEEDED" => Planned(p) /\ OpenBands(p) = {}
    BY <1>3, <1>p
  <2> QED  BY <1>1, <1>2, <1>3, <1>4, <2>1, <2>2, <2>3, RowMoves
<1>6. aRun'[i] = nr /\ \A j \in ArabicRuns \ {i} : aRun'[j] = aRun[j]
  BY <1>1
<1>7. ASSUME NEW j \in ArabicRuns \ {i}, NEW q \in ArabicPages, q = aRun[j].page
      PROVE  /\ aRun[j].pc = "vision" => aPage'[q].vision = 1 /\ aPage'[q].calls = 0
             /\ aRun[j].pc = "planned" => aPage'[q].calls = 1
             /\ Claimed(j) /\ Fresh(j)' => Fresh(j)
  <2>1. RunOK(j) /\ aRun'[j] = aRun[j]
    BY <1>6 DEF ArabicInvariant
  <2>2. aPage'[q].vision = aPage[q].vision /\ aPage'[q].calls = aPage[q].calls
    BY <1>3, <1>5
  <2>3. aPage'[q].live => aPage'[q] = aPage[q]
    BY <1>3, <1>5
  <2>4. Fresh(j)' => Fresh(j)
    BY <1>7, <2>1, <2>3 DEF Fresh, RowOf, Page
  <2> QED  BY <1>7, <2>1, <2>2, <2>4 DEF RunOK
<1>8. RunOK(i)' /\ HolderOK(i)'
  BY <1>6, UnclaimedRun
<1>9. ASSUME NEW j \in ArabicRuns, i # j
      PROVE  Apart(i, j)'
  BY <1>6 DEF Apart, Claimed
<1> HIDE DEF Fresh
<1> QED  BY <1>1, <1>4, <1>5, <1>7, <1>8, <1>9, RunAndPagesMove

LEMMA AssemblePageKeepsInvariant ==
  ASSUME ArabicInvariant, NEW i \in ArabicRuns, AssemblePage(i)
  PROVE  ArabicInvariant'
<1>1. /\ aRun[i].pc = "bands" /\ OpenBands(Page(i)) = {} /\ RunOK(i) /\ ArabicTypeOK
      /\ SettlePage(i, "SUCCEEDED", FALSE) /\ NextPage(i)
  BY DEF AssemblePage, Between, ArabicInvariant
<1>2. Claimed(i) /\ Planned(Page(i))
  BY <1>1 DEF Claimed, RunOK, Loop, Page
<1>3. PICK nr \in RunRecord :
        aRun' = [aRun EXCEPT ![i] = nr] /\ nr.pc \in {"idle", "claim"} /\ nr.steps = 0
  BY <1>1, NextPageIs
<1> QED  BY <1>1, <1>2, <1>3, PageIsSettled

LEMMA FailPageKeepsInvariant ==
  ASSUME ArabicInvariant, NEW i \in ArabicRuns, FailPage(i)
  PROVE  ArabicInvariant'
<1>1. /\ Claimed(i) /\ SettlePage(i, "FAILED", aRun[i].pc = "fence")
      /\ aRun' = [aRun EXCEPT ![i] = IdleRun]
  BY DEF FailPage, EndRun, Claimed
<1>2. IdleRun.pc = "idle" /\ IdleRun.steps = 0 /\ IdleRun \in RunRecord
  BY IdleRunTyped DEF IdleRun
<1> DEFINE fence == aRun[i].pc = "fence"
<1>3. fence \in BOOLEAN /\ SettlePage(i, "FAILED", fence)
  BY <1>1
<1> HIDE DEF fence
<1> QED  BY <1>1, <1>2, <1>3, PageIsSettled

LEMMA ResolveVisionKeepsInvariant ==
  ASSUME ArabicInvariant, NEW p \in ArabicPages, ResolveVision(p)
  PROVE  ArabicInvariant'
<1> DEFINE row == [aPage[p] EXCEPT !.vision = 0, !.fence = FALSE]
<1>1. /\ aRun \in [ArabicRuns -> RunRecord] /\ aPage \in [ArabicPages -> PageRecord]
      /\ aPage' = [aPage EXCEPT ![p] = row] /\ UNCHANGED <<aAttempt, aBand, aProvider, aRun>>
      /\ aPage[p].status = "FAILED" /\ aPage[p].calls = 0
      /\ PageOK(p) /\ aPage[p] \in PageRecord
      /\ aAttempt \in {"NONE", "IN_PROGRESS", "PARTIAL", "COMPLETED"}
  BY ArabicTyped DEF ArabicInvariant, ResolveVision
<1>2. \A j \in ArabicRuns : aRun[j].page = p => aRun[j].pc # "vision"
  BY DEF ResolveVision, OperatorMayResolve
<1>3. /\ row \in PageRecord /\ row.status = "FAILED" /\ row.live = aPage[p].live
      /\ row.token = aPage[p].token /\ aPage[p].token \in Nat
      /\ row.vision = 0 /\ row.calls = 0
  BY <1>1 DEF PageRecord
<1> HIDE DEF row
<1>4. aAttempt' # "COMPLETED" /\ ~row.live
  BY <1>1, <1>3 DEF PageOK
<1>5. /\ aPage' \in [ArabicPages -> PageRecord] /\ aPage'[p] = row
      /\ \A q \in ArabicPages \ {p} : aPage'[q] = aPage[q]
      /\ \A q \in ArabicPages : PageOK(q)' /\ aPage'[q].token >= aPage[q].token
  <2>1. /\ row.calls <= row.vision /\ row.token >= aPage[p].token /\ row.status # "NONE"
        /\ row.status # "SUCCEEDED" /\ (row.live => row.status = "RUNNING")
    BY <1>3, <1>4
  <2> QED  BY <1>1, <1>3, <1>4, <2>1, RowMoves
<1>6. ASSUME NEW j \in ArabicRuns, NEW q \in ArabicPages, q = aRun[j].page
      PROVE  /\ aRun[j].pc = "vision" => aPage'[q].vision = 1 /\ aPage'[q].calls = 0
             /\ aRun[j].pc = "planned" => aPage'[q].calls = 1
             /\ Claimed(j) /\ Fresh(j)' => Fresh(j)
  <2>1. RunOK(j)
    BY DEF ArabicInvariant
  <2>2. aRun[j].pc \in {"vision", "planned"} => q # p
    BY <1>1, <1>2, <1>6, <2>1 DEF RunOK
  <2>3. q # p => aPage'[q] = aPage[q]
    BY <1>5
  <2>4. Fresh(j)' => Fresh(j)
    BY <1>1, <1>3, <1>5, <1>6 DEF Fresh, RowOf, Page
  <2> QED  BY <1>6, <2>1, <2>2, <2>3, <2>4 DEF RunOK
<1>7. /\ {} \in SUBSET ArabicRuns
      /\ \A j \in ArabicRuns \ {} : aRun'[j] = aRun[j]
      /\ aRun' \in [ArabicRuns -> RunRecord]
      /\ aAttempt' \in {"NONE", "IN_PROGRESS", "PARTIAL", "COMPLETED"}
      /\ \A i \in {} : RunOK(i)' /\ HolderOK(i)'
      /\ \A i \in {}, j \in ArabicRuns : i # j => Apart(i, j)'
  BY <1>1
<1>8. \A j \in ArabicRuns \ {}, q \in ArabicPages :
           q = aRun[j].page =>
             /\ aRun[j].pc = "vision" => aPage'[q].vision = 1 /\ aPage'[q].calls = 0
             /\ aRun[j].pc = "planned" => aPage'[q].calls = 1
             /\ Claimed(j) /\ Fresh(j)' => Fresh(j)
  BY <1>6
<1> QED  BY <1>1, <1>5, <1>7, <1>8, PagesMove

(* The plan of a page.                                                       *)
LEMMA NewBandIs ==
  ASSUME NEW status \in {"NONE", "PENDING"}
  PROVE  LET band == [NoBand EXCEPT !.status = status]
         IN  /\ band \in BandRecord /\ band.status = status /\ band.count = 0
             /\ band.ids = {} /\ band.code = Blank /\ band.confirmed = Blank
<1> DEFINE old == [status |-> "NONE", count |-> 0, ids |-> {}, code |-> Blank,
                   confirmed |-> Blank, result |-> Blank]
           band == [old EXCEPT !.status = status]
<1>1. NoBand = old
  BY DEF NoBand, Blank
<1>2. Blank \in Codes /\ Blank \in Answers /\ Blank \in Results
  BY DEF Blank, Codes, Answers, Results
<1>3. status \in BandStatuses /\ {} \in SUBSET Creates /\ 0 \in 0..2
  BY DEF BandStatuses
<1>4. band = [status |-> status, count |-> 0, ids |-> {}, code |-> Blank,
              confirmed |-> Blank, result |-> Blank]
  OBVIOUS
<1> HIDE DEF band, old
<1>5. band \in BandRecord
  BY <1>2, <1>3, <1>4 DEF BandRecord
<1>6. /\ band.status = status /\ band.count = 0 /\ band.ids = {} /\ band.code = Blank
      /\ band.confirmed = Blank
  BY <1>4
<1> QED  BY <1>1, <1>5, <1>6 DEF band

LEMMA NoBandIsNone == NoBand = [NoBand EXCEPT !.status = "NONE"]
<1> DEFINE old == [status |-> "NONE", count |-> 0, ids |-> {}, code |-> Blank,
                   confirmed |-> Blank, result |-> Blank]
<1>1. NoBand = old
  BY DEF NoBand, Blank
<1>2. old = [old EXCEPT !.status = "NONE"]
  OBVIOUS
<1> QED  BY <1>1, <1>2

LEMMA NewBandIsOK ==
  ASSUME NEW old \in BandRecord, NEW calls, BandOK(old, calls), old.status = "NONE",
         NEW band, band.status \in {"NONE", "PENDING"}, band.count = 0, band.ids = {},
         band.code = Blank, band.confirmed = Blank
  PROVE  BandOK(band, calls)
<1>1. old.count = 0
  BY DEF BandOK
<1>2. \A k \in Creates : calls[k] = "none"
  <2> SUFFICES ASSUME NEW k \in Creates, calls[k] # "none"
               PROVE  FALSE
    OBVIOUS
  <2>1. k <= old.count
    BY DEF BandOK
  <2> QED  BY <1>1, <2>1 DEF Creates
<1>3. band.code # "AMBIGUOUS" /\ band.confirmed \notin {"completed", "cancelled"}
  BY DEF Blank
<1> QED  BY <1>2, <1>3 DEF BandOK

LEMMA PersistPlanKeepsInvariant ==
  ASSUME ArabicInvariant, NEW i \in ArabicRuns, PersistPlan(i)
  PROVE  ArabicInvariant'
<1> DEFINE nr == [aRun[i] EXCEPT !.pc = "bands"]
           Open == [NoBand EXCEPT !.status = "PENDING"]
           None == [NoBand EXCEPT !.status = "NONE"]
<1>p. PICK p \in ArabicPages : p = Page(i)
  BY RunTyped DEF ArabicInvariant, Page
<1>1. /\ aRun \in [ArabicRuns -> RunRecord] /\ aPage \in [ArabicPages -> PageRecord]
      /\ aBand \in [ArabicPages -> [Bands -> BandRecord]]
      /\ aRun[i] \in RunRecord /\ aPage[p] \in PageRecord /\ RunOK(i) /\ PageOK(p)
      /\ UNCHANGED <<aAttempt, aPage, aProvider>> /\ aRun[i].pc = "planned" /\ Fresh(i)
      /\ aRun' = [aRun EXCEPT ![i] = nr] /\ 1 \in Bands /\ ArabicTypeOK
  BY <1>p, ArabicTyped, ArabicPagesAssumption DEF ArabicInvariant, PersistPlan, Goto, Bands
<1>2. /\ aRun[i].steps = 0 /\ aRun[i].page = p /\ aRun[i].token \in 1..aPage[p].token
      /\ ~Planned(p)
  BY <1>1, <1>p DEF RunOK, Page, Claimed
<1>3. /\ nr \in RunRecord /\ nr.pc = "bands" /\ nr.token = aRun[i].token /\ nr.page = p
      /\ nr.steps = 0
  BY <1>1, <1>2 DEF RunRecord
<1>4. /\ aRun'[i] = nr /\ aRun' \in [ArabicRuns -> RunRecord]
      /\ \A j \in ArabicRuns \ {i} : aRun'[j] = aRun[j]
  BY <1>1, <1>3
<1>5. /\ Open \in BandRecord /\ Open.status = "PENDING" /\ Open.count = 0
      /\ Open.ids = {} /\ Open.code = Blank /\ Open.confirmed = Blank
      /\ None \in BandRecord /\ None.status = "NONE" /\ None.count = 0
      /\ None.ids = {} /\ None.code = Blank /\ None.confirmed = Blank
  BY NewBandIs
<1>6. NoBand = None
  BY NoBandIsNone
<1>7. PICK n \in Bands :
        aBand' = [aBand EXCEPT ![p] = [b \in Bands |-> IF b <= n THEN Open ELSE None]]
  BY <1>p, <1>6 DEF PersistPlan
<1> HIDE DEF nr, Open, None
<1>8. /\ aBand' \in [ArabicPages -> [Bands -> BandRecord]]
      /\ \A q \in ArabicPages \ {p} : aBand'[q] = aBand[q]
      /\ \A b \in Bands : aBand'[p][b] = IF b <= n THEN Open ELSE None
  BY <1>1, <1>5, <1>7
<1>9. ArabicTypeOK'
  <2>1. aBand' \in [ArabicPages -> [Bands -> BandRecord]]
    BY <1>8
  <2> QED  BY <1>1, <1>4, <2>1
           DEF ArabicTypeOK, PageRecord, BandRecord, Calls, RunRecord, Codes, Answers,
               Results
<1>10. \A b \in Bands : BandOK(aBand'[p][b], aProvider'[p][b])
  <2> TAKE b \in Bands
  <2>1. aBand[p][b].status = "NONE" /\ aBand[p][b] \in BandRecord
    BY <1>1, <1>2 DEF PageOK
  <2>2. BandOK(aBand[p][b], aProvider[p][b])
    BY DEF ArabicInvariant
  <2>3. BandOK(Open, aProvider[p][b]) /\ BandOK(None, aProvider[p][b])
    BY <1>5, <2>1, <2>2, NewBandIsOK
  <2> QED  BY <1>1, <1>8, <2>3
<1>11. \A q \in ArabicPages, b \in Bands : BandOK(aBand[q][b], aProvider[q][b])'
  <2> TAKE q \in ArabicPages, b \in Bands
  <2>1. CASE q = p
    BY <2>1, <1>10
  <2>2. CASE q # p
    BY <2>2, <1>1, <1>8 DEF ArabicInvariant
  <2> QED  BY <2>1, <2>2
<1>12. Planned(p)'
  <2>1. 1 <= n
    BY DEF Bands
  <2> QED  BY <1>1, <1>5, <1>8, <2>1 DEF Planned
<1>13. \A q \in ArabicPages \ {p} :
         /\ Planned(q)' <=> Planned(q)
         /\ OpenBands(q)' = OpenBands(q) /\ FirstOpen(q)' = FirstOpen(q)
  <2> TAKE q \in ArabicPages \ {p}
  <2>0. aBand'[q] = aBand[q]
    BY <1>8
  <2>1. OpenBands(q)' = OpenBands(q)
    BY <2>0 DEF OpenBands, BandsOf
  <2> QED  BY <2>0, <2>1 DEF Planned, FirstOpen
<1>14. \A q \in ArabicPages : PageOK(q)'
  <2> TAKE q \in ArabicPages
  <2>1. CASE q = p
    <3>1. aPage[p].status = "RUNNING"
      BY <1>1, <1>p DEF Fresh, RowOf
    <3> QED  BY <2>1, <3>1, <1>1, <1>12 DEF PageOK
  <2>2. CASE q # p
    <3>1. PageOK(q) /\ aBand'[q] = aBand[q]
      BY <2>2, <1>8 DEF ArabicInvariant
    <3> QED  BY <2>2, <3>1, <1>1, <1>13 DEF PageOK
  <2> QED  BY <2>1, <2>2
<1>15. RunOK(i)'
  BY <1>1, <1>2, <1>3, <1>4, <1>12 DEF RunOK, Mid
<1>16. HolderOK(i)'
  <2>1. ASSUME OpenBands(p)' # {}
        PROVE  Remaining(aBand[p][FirstOpen(p)])' \in 0..6
    <3>1. OpenBands(p)' \in SUBSET Bands
      BY DEF OpenBands, BandsOf
    <3>2. PICK b \in Bands : b = FirstOpen(p)'
      BY <2>1, <3>1, LeastBand DEF FirstOpen
    <3>3. aBand'[p][b] \in BandRecord /\ BandOK(aBand'[p][b], aProvider'[p][b])
      BY <1>8, <1>10
    <3>4. Remaining(aBand'[p][b]) \in 0..6
      BY <3>3, RemainingIsBounded
    <3> QED  BY <3>2, <3>4
  <2> QED  BY <1>3, <1>4, <2>1 DEF HolderOK, Mid
<1>17. ASSUME NEW j \in ArabicRuns \ {i}
       PROVE  RunOK(j)' /\ HolderOK(j)'
  <2>1. PICK q \in ArabicPages, b \in Bands : q = aRun[j].page /\ b = aRun[j].band
    BY <1>1 DEF RunRecord
  <2>2. RunOK(j) /\ HolderOK(j) /\ aRun'[j] = aRun[j] /\ Apart(i, j)
        /\ (Fresh(j)' <=> Fresh(j))
    BY <1>1, <1>4 DEF ArabicInvariant, Fresh, RowOf, Page
  <2>3. CASE q = p
    <3>1. aRun[j].pc \notin Loop /\ aRun[j].pc \notin {"vision", "planned"}
      BY <1>1, <1>2, <2>1, <2>2, <2>3 DEF RunOK, Apart
    <3>2. RunOK(j)'
      BY <1>1, <2>1, <2>2, <3>1 DEF RunOK, Loop, Mid, Claimed
    <3>3. HolderOK(j)'
      BY <2>2, <3>1 DEF HolderOK, Loop, Mid
    <3> QED  BY <3>2, <3>3
  <2>4. CASE q # p
    <3>1. /\ aBand'[q] = aBand[q] /\ (Planned(q)' <=> Planned(q))
          /\ OpenBands(q)' = OpenBands(q) /\ FirstOpen(q)' = FirstOpen(q)
      BY <1>8, <1>13, <2>4
    <3>2. RunOK(j)'
      BY <1>1, <2>1, <2>2, <3>1, ZenonT(60) DEF RunOK, Claimed
    <3> HIDE DEF Fresh
    <3>3. HolderOK(j)'
      BY <1>1, <2>1, <2>2, <3>1 DEF HolderOK
    <3> QED  BY <3>2, <3>3
  <2> QED  BY <2>3, <2>4
<1>18. \A j, k \in ArabicRuns : j # k => Apart(j, k)'
  <2> SUFFICES ASSUME NEW j \in ArabicRuns, NEW k \in ArabicRuns, j # k
               PROVE  Apart(j, k)'
    OBVIOUS
  <2>1. Apart(j, k) /\ Claimed(i)
    BY <1>1 DEF ArabicInvariant, Claimed
  <2>2. CASE j # i /\ k # i
    <3>1. aRun'[j] = aRun[j] /\ aRun'[k] = aRun[k]
      BY <1>4, <2>2
    <3> QED  BY <2>1, <3>1 DEF Apart, Claimed
  <2>3. CASE j = i
    <3>1. aRun'[j] = nr /\ aRun'[k] = aRun[k]
      BY <1>4, <2>3
    <3> QED  BY <1>2, <1>3, <2>1, <2>3, <3>1 DEF Apart, Claimed
  <2>4. CASE k = i
    <3>1. aRun'[k] = nr /\ aRun'[j] = aRun[j]
      BY <1>4, <2>4
    <3> QED  BY <1>2, <1>3, <2>1, <2>4, <3>1 DEF Apart, Claimed
  <2> QED  BY <2>2, <2>3, <2>4
<1> QED  BY <1>9, <1>11, <1>14, <1>15, <1>16, <1>17, <1>18 DEF ArabicInvariant

(* The operator resolves a fenced band.                                      *)
LEMMA ResolvedIsBandOK ==
  ASSUME NEW band \in BandRecord, NEW calls \in Calls, BandOK(band, calls), IsFenced(band),
         NEW nb, nb = IF calls[band.count] = "none" THEN ResolvedNoCall(band) ELSE Bound(band)
  PROVE  /\ nb \in BandRecord /\ BandOK(nb, calls)
         /\ nb.status \notin {"NONE", "SUCCEEDED"}
<1>1. /\ band.status = "FAILED" /\ band.code = "AMBIGUOUS"
      /\ band.ids = {k \in Creates : k < band.count}
  BY DEF IsFenced
<1>2. band.count \in {1, 2}
  BY <1>1 DEF BandOK, BandRecord
<1>3. \A k \in Creates : k \in band.ids \/ calls[k] # "none" => k <= band.count
  BY DEF BandOK
<1>4. /\ band.confirmed # Blank => band.ids # {}
      /\ 2 \notin band.ids /\ band.confirmed = "completed" => calls[1] \in {"good", "bad"}
      /\ 2 \notin band.ids /\ band.confirmed = "cancelled" => calls[1] # "live"
      /\ band.count = 2 => calls[1] # "live"
  BY DEF BandOK
<1>5. CASE calls[band.count] = "none" /\ band.count = 1
  <2> DEFINE new == [band EXCEPT !.status = "PENDING", !.count = 0, !.code = Blank]
  <2>1. nb = new
    BY <1>5 DEF ResolvedNoCall, Blank
  <2>2. Blank \in Codes /\ "PENDING" \in BandStatuses
    BY DEF Blank, Codes, BandStatuses
  <2>3. /\ nb \in BandRecord /\ nb.status = "PENDING" /\ nb.count = 0 /\ nb.code = Blank
        /\ nb.ids = band.ids /\ nb.confirmed = band.confirmed
    <3>1. 0 \in 0..2
      OBVIOUS
    <3>2. new \in BandRecord
      BY <2>2, <3>1 DEF BandRecord
    <3>3. /\ new.status = "PENDING" /\ new.count = 0 /\ new.code = Blank
          /\ new.ids = band.ids /\ new.confirmed = band.confirmed
      BY DEF BandRecord
    <3> QED  BY <2>1, <3>2, <3>3
  <2>4. band.ids = {} /\ calls[1] = "none" /\ calls[2] = "none"
    BY <1>1, <1>3, <1>5 DEF Creates
  <2>5. band.confirmed = Blank
    BY <1>4, <2>4
  <2>6. nb.code # "AMBIGUOUS" /\ nb.confirmed \notin {"completed", "cancelled"}
    BY <2>3, <2>5 DEF Blank
  <2>7. BandOK(nb, calls)
    BY <2>3, <2>4, <2>5, <2>6 DEF BandOK, Creates
  <2> QED  BY <2>3, <2>7
<1>6. CASE calls[band.count] = "none" /\ band.count = 2
  <2> DEFINE new == [band EXCEPT !.count = 1, !.code = "FAILED"]
  <2>1. nb = new
    BY <1>6 DEF ResolvedNoCall
  <2>2. "FAILED" \in Codes
    BY DEF Codes
  <2>3. /\ nb \in BandRecord /\ nb.status = "FAILED" /\ nb.count = 1 /\ nb.code = "FAILED"
        /\ nb.ids = band.ids /\ nb.confirmed = band.confirmed
    <3>1. 1 \in 0..2
      OBVIOUS
    <3>2. new \in BandRecord
      BY <2>2, <3>1 DEF BandRecord
    <3>3. /\ new.status = band.status /\ new.count = 1 /\ new.code = "FAILED"
          /\ new.ids = band.ids /\ new.confirmed = band.confirmed
      BY DEF BandRecord
    <3> QED  BY <1>1, <2>1, <3>2, <3>3
  <2>4. \A k \in Creates : k \in nb.ids \/ calls[k] # "none" => k <= nb.count
    BY <1>1, <1>6, <2>3 DEF Creates
  <2>5. BandOK(nb, calls)
    BY <1>4, <1>6, <2>3, <2>4 DEF BandOK
  <2> QED  BY <2>3, <2>5
<1>7. CASE calls[band.count] # "none"
  <2> DEFINE status == IF band.count = 1 THEN "PRIMARY_RUNNING" ELSE "FALLBACK_RUNNING"
  <2>1. nb = [band EXCEPT !.ids = @ \cup {band.count}, !.code = Blank, !.status = status]
    BY <1>7 DEF Bound, Blank
  <2>2. Blank \in Codes /\ status \in BandStatuses /\ band.ids \cup {band.count} \in SUBSET Creates
    BY <1>1, <1>2 DEF Blank, Codes, BandStatuses, Creates
  <2>3. nb = [band EXCEPT !.ids = band.ids \cup {band.count}, !.code = Blank, !.status = status]
    BY <2>1
  <2>s. /\ status \notin {"NONE", "PENDING", "CANCEL_PENDING", "FAILED", "SUCCEEDED"}
        /\ status = "PRIMARY_RUNNING" => band.count = 1
        /\ status = "FALLBACK_RUNNING" => band.count = 2
    BY <1>2
  <2> HIDE DEF status
  <2>4. /\ nb \in BandRecord /\ nb.status = status /\ nb.count = band.count /\ nb.code = Blank
        /\ nb.ids = band.ids \cup {band.count} /\ nb.confirmed = band.confirmed
    BY <2>2, <2>3 DEF BandRecord
  <2>5. nb.code # "AMBIGUOUS"
    BY <2>4 DEF Blank
  <2>6. \A k \in Creates : k \in nb.ids \/ calls[k] # "none" => k <= nb.count
    BY <1>2, <1>3, <2>4 DEF Creates
  <2>7. /\ nb.ids # {} /\ (2 \notin nb.ids => 2 \notin band.ids)
    BY <2>4
  <2>8. BandOK(nb, calls)
    BY <1>4, <2>4, <2>5, <2>6, <2>7, <2>s DEF BandOK, OrdinaryFailure
  <2> QED  BY <2>4, <2>8, <2>s
<1> QED  BY <1>2, <1>5, <1>6, <1>7

LEMMA ResolveBandKeepsInvariant ==
  ASSUME ArabicInvariant, NEW p \in ArabicPages, NEW b \in Bands, ResolveBand(p, b)
  PROVE  ArabicInvariant'
<1> DEFINE nb == IF aProvider[p][b][aBand[p][b].count] = "none"
                 THEN ResolvedNoCall(aBand[p][b]) ELSE Bound(aBand[p][b])
<1>1. /\ aBand \in [ArabicPages -> [Bands -> BandRecord]]
      /\ aProvider \in [ArabicPages -> [Bands -> Calls]] /\ ArabicTypeOK
      /\ UNCHANGED <<aAttempt, aPage, aProvider, aRun>>
      /\ aBand' = [aBand EXCEPT ![p] = [@ EXCEPT ![b] = nb]]
      /\ IsFenced(aBand[p][b]) /\ aPage[p].status # "SUCCEEDED"
      /\ \A q \in ArabicPages : ~aPage[q].live
      /\ \A i \in ArabicRuns : aRun[i].page = p => aRun[i].pc # "create"
      /\ 1 \in Bands
  BY ArabicTyped, ArabicPagesAssumption DEF ArabicInvariant, ResolveBand, OperatorMayResolve, Bands
<1>2. /\ nb \in BandRecord /\ BandOK(nb, aProvider[p][b])
      /\ nb.status \notin {"NONE", "SUCCEEDED"}
  BY <1>1, ResolvedIsBandOK DEF ArabicInvariant
<1>3. aBand[p][b].status = "FAILED"
  BY <1>1 DEF IsFenced
<1> HIDE DEF nb
<1>4. /\ aBand' \in [ArabicPages -> [Bands -> BandRecord]]
      /\ \A q \in ArabicPages, c \in Bands :
           aBand'[q][c] = IF q = p /\ c = b THEN nb ELSE aBand[q][c]
  BY <1>1, <1>2
<1>5. ArabicTypeOK'
  BY <1>1, <1>4 DEF ArabicTypeOK, BandRecord, Codes, Answers, Results
<1>6. \A q \in ArabicPages :
        /\ Planned(q)' <=> Planned(q)
        /\ \A c \in Bands : aBand'[q][c].status = "NONE" <=> aBand[q][c].status = "NONE"
  BY <1>1, <1>2, <1>3, <1>4 DEF Planned
<1>7. \A q \in ArabicPages : q # p => OpenBands(q)' = OpenBands(q)
  BY <1>4 DEF OpenBands, BandsOf
<1>8. \A q \in ArabicPages : PageOK(q)'
  <2> TAKE q \in ArabicPages
  <2>1. PageOK(q)
    BY DEF ArabicInvariant
  <2>2. CASE q = p
    BY <1>1, <1>6, <2>1, <2>2 DEF PageOK
  <2>3. CASE q # p
    BY <1>1, <1>6, <1>7, <2>1, <2>3 DEF PageOK
  <2> QED  BY <2>2, <2>3
<1>9. \A q \in ArabicPages, c \in Bands : BandOK(aBand[q][c], aProvider[q][c])'
  <2> TAKE q \in ArabicPages, c \in Bands
  <2>1. CASE q = p /\ c = b
    BY <1>1, <1>2, <1>4, <2>1
  <2>2. CASE ~(q = p /\ c = b)
    BY <1>1, <1>4, <2>2 DEF ArabicInvariant
  <2> QED  BY <2>1, <2>2
<1>10. ASSUME NEW i \in ArabicRuns
       PROVE  RunOK(i)' /\ HolderOK(i)'
  <2>1. PICK q \in ArabicPages, c \in Bands : q = aRun[i].page /\ c = aRun[i].band
    BY <1>1, RunTyped
  <2>2. RunOK(i)
    BY DEF ArabicInvariant
  <2>3. aRun[i].pc = "create" => aBand'[q][c] = aBand[q][c]
    BY <1>1, <1>4, <2>1
  <2>4. RunOK(i)'
    BY <1>1, <1>6, <2>1, <2>2, <2>3 DEF RunOK, Claimed
  <2>5. ~Fresh(i)'
    BY <1>1, <2>1 DEF Fresh, RowOf, Page
  <2> QED  BY <2>4, <2>5 DEF HolderOK
<1>11. \A i, j \in ArabicRuns : i # j => Apart(i, j)'
  BY <1>1 DEF ArabicInvariant, Apart, Claimed
<1> QED  BY <1>5, <1>8, <1>9, <1>10, <1>11 DEF ArabicInvariant

------------------------------------------------------------------------------
(* The invariant holds initially and is kept by every step.                  *)
LEMMA InitSatisfiesInvariant ==
  ASSUME Init_Arabic
  PROVE  ArabicInvariant
<1>1. IdleRun \in RunRecord /\ NoArabicPage \in PageRecord /\ NoBand \in BandRecord
      /\ IdleRun.pc = "idle" /\ IdleRun.steps = 0 /\ NoArabicPage.status = "NONE"
      /\ ~NoArabicPage.live /\ NoArabicPage.calls = 0 /\ NoArabicPage.vision = 0
      /\ NoBand.status = "NONE" /\ NoBand.count = 0 /\ NoBand.ids = {}
      /\ NoBand.code = Blank /\ NoBand.confirmed = Blank /\ 1 \in Bands
  <2>1. /\ NoBand \in BandRecord /\ NoBand.status = "NONE" /\ NoBand.count = 0
        /\ NoBand.ids = {} /\ NoBand.code = Blank /\ NoBand.confirmed = Blank
    BY NoBandIsNone, NewBandIs
  <2>2. /\ NoArabicPage \in PageRecord /\ NoArabicPage.status = "NONE"
        /\ ~NoArabicPage.live /\ NoArabicPage.calls = 0 /\ NoArabicPage.vision = 0
    BY DEF NoArabicPage, PageRecord
  <2>3. IdleRun.pc = "idle" /\ IdleRun.steps = 0
    BY DEF IdleRun
  <2> QED  BY <2>1, <2>2, <2>3, IdleRunTyped, ArabicPagesAssumption DEF Bands
<1>2. [k \in Creates |-> "none"] \in Calls
  BY DEF Calls
<1>3. /\ aAttempt = "NONE"
      /\ \A p \in ArabicPages : aPage[p] = NoArabicPage
      /\ \A p \in ArabicPages, b \in Bands : aBand[p][b] = NoBand
      /\ \A p \in ArabicPages, b \in Bands, k \in Creates : aProvider[p][b][k] = "none"
      /\ \A i \in ArabicRuns : aRun[i] = IdleRun
  BY DEF Init_Arabic
<1>4. ArabicTypeOK
  <2>1. /\ aPage \in [ArabicPages -> PageRecord] /\ aBand \in [ArabicPages -> [Bands -> BandRecord]]
        /\ aProvider \in [ArabicPages -> [Bands -> Calls]] /\ aRun \in [ArabicRuns -> RunRecord]
    BY <1>1, <1>2 DEF Init_Arabic
  <2> QED  BY <1>3, <2>1, ArabicTyped
<1>5. \A p \in ArabicPages : PageOK(p)
  BY <1>1, <1>3 DEF PageOK, Planned
<1>6. \A p \in ArabicPages, b \in Bands : BandOK(aBand[p][b], aProvider[p][b])
  <2>1. Blank # "AMBIGUOUS" /\ Blank # "completed" /\ Blank # "cancelled"
    BY DEF Blank
  <2> QED  BY <1>1, <1>3, <2>1 DEF BandOK, Creates
<1>7. \A i \in ArabicRuns : RunOK(i) /\ HolderOK(i)
  BY <1>1, <1>3 DEF RunOK, HolderOK, Claimed, Loop, Mid
<1>8. \A i, j \in ArabicRuns : i # j => Apart(i, j)
  BY <1>1, <1>3 DEF Apart, Claimed
<1> QED  BY <1>4, <1>5, <1>6, <1>7, <1>8 DEF ArabicInvariant

LEMMA StutterKeepsInvariant ==
  ASSUME ArabicInvariant, UNCHANGED aVars
  PROVE  ArabicInvariant'
<1>1. UNCHANGED <<aAttempt, aPage, aBand, aProvider, aRun>>
  BY DEF aVars
<1>2. ArabicTypeOK'
  BY <1>1 DEF ArabicInvariant, ArabicTypeOK
<1>3. \A p \in ArabicPages : PageOK(p)'
  BY <1>1 DEF ArabicInvariant, PageOK, Planned, OpenBands, BandsOf
<1>4. \A p \in ArabicPages, b \in Bands : BandOK(aBand[p][b], aProvider[p][b])'
  BY <1>1 DEF ArabicInvariant
<1>5. \A i \in ArabicRuns : RunOK(i)'
  BY <1>1 DEF ArabicInvariant, RunOK, Claimed, Planned
<1>6. \A i \in ArabicRuns : HolderOK(i)'
  <2> TAKE i \in ArabicRuns
  <2>1. HolderOK(i) /\ (Fresh(i)' <=> Fresh(i)) /\ aRun[i].page \in ArabicPages
    BY <1>1, RunTyped DEF ArabicInvariant, Fresh, RowOf, Page
  <2>2. \A p \in ArabicPages :
          OpenBands(p)' = OpenBands(p) /\ FirstOpen(p)' = FirstOpen(p)
    BY <1>1, BandsFrame
  <2> HIDE DEF Fresh
  <2> QED  BY <1>1, <2>1, <2>2 DEF HolderOK
<1>7. \A i, j \in ArabicRuns : i # j => Apart(i, j)'
  BY <1>1 DEF ArabicInvariant, Apart, Claimed
<1> QED  BY <1>2, <1>3, <1>4, <1>5, <1>6, <1>7 DEF ArabicInvariant

LEMMA RunStepKeepsInvariant ==
  ASSUME ArabicInvariant, NEW i \in ArabicRuns, ArabicRunStep(i)
  PROVE  ArabicInvariant'
<1>1. CASE ReuseArabicPage(i)
  BY <1>1, ReuseArabicPageKeepsInvariant
<1>2. CASE ClaimArabicPage(i)
  BY <1>2, ClaimArabicPageKeepsInvariant
<1>3. CASE EnsurePlan(i)
  BY <1>3, EnsurePlanKeepsInvariant
<1>4. CASE ReserveVision(i)
  BY <1>4, ReserveVisionKeepsInvariant
<1>5. CASE VisionCall(i)
  BY <1>5, VisionCallKeepsInvariant
<1>6. CASE PersistPlan(i)
  BY <1>6, PersistPlanKeepsInvariant
<1>7. CASE AssemblePage(i)
  BY <1>7, AssemblePageKeepsInvariant
<1>8. CASE FailPage(i)
  BY <1>8, FailPageKeepsInvariant
<1>9. CASE ReservePrimary(i)
  <2>1. Deciding(i) /\ BandOf(i).status = "PENDING" /\ Reserve(i, "PRIMARY_RUNNING")
    BY <1>9 DEF ReservePrimary
  <2> QED  BY <2>1, ReserveKeepsInvariant
<1>10. CASE ReserveFallback(i)
  <2>1. Deciding(i) /\ FallbackIsAllowed(BandOf(i)) /\ Reserve(i, "FALLBACK_RUNNING")
    BY <1>10 DEF ReserveFallback
  <2> QED  BY <2>1, ReserveKeepsInvariant
<1>11. CASE SelectLowQuality(i)
  BY <1>11, SelectLowQualityKeepsInvariant
<1>12. CASE FenceBand(i)
  BY <1>12, FenceBandKeepsInvariant
<1>13. CASE GiveUpPage(i)
  BY <1>13, GiveUpPageKeepsInvariant
<1>14. CASE CreateInteraction(i)
  BY <1>14, CreateInteractionKeepsInvariant
<1>15. CASE CreateFails(i)
  BY <1>15, CreateFailsKeepsInvariant
<1>16. CASE StoreInteractionId(i)
  BY <1>16, StoreInteractionIdKeepsInvariant
<1>17. CASE PollSucceeds(i)
  BY <1>17, PollSucceedsKeepsInvariant
<1>18. CASE PollFails(i)
  BY <1>18, PollFailsKeepsInvariant
<1>19. CASE MarkCancelPending(i)
  BY <1>19, MarkCancelPendingKeepsInvariant
<1>20. CASE CancelInteraction(i)
  BY <1>20, CancelInteractionKeepsInvariant
<1>21. CASE SkipCancel(i)
  BY <1>21, SkipCancelKeepsInvariant
<1>22. CASE StoreCancelAnswer(i)
  BY <1>22, StoreCancelAnswerKeepsInvariant
<1>23. CASE AcceptInteraction(i)
  BY <1>23, AcceptInteractionKeepsInvariant
<1>24. CASE RecoverCompletedCancel(i)
  BY <1>24, RecoverCompletedCancelKeepsInvariant
<1>25. CASE RecoverUnresolvedCancel(i)
  BY <1>25, RecoverUnresolvedCancelKeepsInvariant
<1> QED  BY <1>1, <1>2, <1>3, <1>4, <1>5, <1>6, <1>7, <1>8, <1>9, <1>10, <1>11, <1>12,
            <1>13, <1>14, <1>15, <1>16, <1>17, <1>18, <1>19, <1>20, <1>21, <1>22, <1>23,
            <1>24, <1>25 DEF ArabicRunStep

LEMMA NextKeepsInvariant ==
  ASSUME ArabicInvariant, [Next_Arabic]_aVars
  PROVE  ArabicInvariant'
<1>1. CASE \E i \in ArabicRuns :
             StartArabicRun(i) \/ ArabicRunStep(i) \/ DeadlinePasses(i) \/ StopArabicRun(i)
  BY <1>1, StartArabicRunKeepsInvariant, RunStepKeepsInvariant, DeadlinePassesKeepsInvariant,
     StopArabicRunKeepsInvariant
<1>2. CASE \E p \in ArabicPages : ArabicLeaseExpires(p) \/ ResolveVision(p)
  BY <1>2, ArabicLeaseExpiresKeepsInvariant, ResolveVisionKeepsInvariant
<1>3. CASE \E p \in ArabicPages, b \in Bands :
             ResolveBand(p, b) \/ \E k \in Creates : InteractionEnds(p, b, k)
  BY <1>3, ResolveBandKeepsInvariant, InteractionEndsKeepsInvariant
<1>4. CASE UNCHANGED aVars
  BY <1>4, StutterKeepsInvariant
<1> QED  BY <1>1, <1>2, <1>3, <1>4 DEF Next_Arabic

------------------------------------------------------------------------------
(* The inductive invariant holds for any number of pages, bands and runs.    *)
THEOREM ArabicInvariantHolds == Spec_Arabic => []ArabicInvariant
<1>1. Init_Arabic => ArabicInvariant
  BY InitSatisfiesInvariant
<1>2. ArabicInvariant /\ [Next_Arabic]_aVars => ArabicInvariant'
  BY NextKeepsInvariant
<1> QED  BY <1>1, <1>2, PTL DEF Spec_Arabic

(* Crash, lost answer or stale run: no band ever has both its interactions   *)
(* live at Antigravity.                                                      *)
THEOREM OneInteractionIsLive == Spec_Arabic => []OneLiveInteraction
<1>1. ArabicInvariant => OneLiveInteraction
  <2> SUFFICES ASSUME ArabicInvariant, NEW p \in ArabicPages, NEW b \in Bands
               PROVE  \E k \in Creates : aProvider[p][b][k] # "live"
    BY DEF OneLiveInteraction
  <2>1. BandOK(aBand[p][b], aProvider[p][b]) /\ aBand[p][b] \in BandRecord
    BY ArabicTyped DEF ArabicInvariant
  <2>2. CASE aProvider[p][b][2] = "none"
    BY <2>2 DEF Creates
  <2>3. CASE aProvider[p][b][2] # "none"
    <3>1. 2 <= aBand[p][b].count
      BY <2>1, <2>3 DEF BandOK, Creates
    <3>2. aBand[p][b].count = 2
      BY <2>1, <3>1 DEF BandRecord
    <3> QED  BY <2>1, <3>2 DEF BandOK, Creates
  <2> QED  BY <2>2, <2>3
<1> QED  BY <1>1, ArabicInvariantHolds, PTL

(* The eight iterations of _process_band are enough for every history of a   *)
(* band: no page is given up because a band used its steps.                  *)
THEOREM EightStepsSuffice == Spec_Arabic => []BandStepsSuffice
<1>1. ArabicInvariant => BandStepsSuffice
  <2> SUFFICES ASSUME ArabicInvariant, NEW i \in ArabicRuns
               PROVE  aRun[i].steps < 8
    BY DEF BandStepsSuffice, MaxBandSteps
  <2>1. aRun[i].steps <= 7 /\ aRun[i].steps \in 0..8
    BY RunTyped DEF ArabicInvariant, RunOK
  <2> QED  BY <2>1
<1> QED  BY <1>1, ArabicInvariantHolds, PTL

(* A provider call: what it may change, and from which state. *)
CallsOnce(old, new) ==
  \A k \in Creates : old[k] # "none" /\ new[k] # old[k] => new[k] \notin {"live", "lost"}

------------------------------------------------------------------------------
(* A create is made from the state none only; every other change is an end.  *)
LEMMA CreatesOnce ==
  ASSUME ArabicInvariant, NEW i \in ArabicRuns,
         aRun[i].pc = "create", NEW state, CallProvider(i, state)
  PROVE  \A p \in ArabicPages, b \in Bands : CallsOnce(aProvider[p][b], aProvider'[p][b])
<1>1. /\ aProvider \in [ArabicPages -> [Bands -> Calls]] /\ RunOK(i)
      /\ ~Between(i)
  BY ArabicTyped DEF ArabicInvariant, Between
<1>2. PICK q \in ArabicPages, c \in Bands, k \in Creates :
        q = aRun[i].page /\ c = aRun[i].band /\ k = aRun[i].create
  BY RunTyped DEF ArabicInvariant
<1>3. aProvider' = [aProvider EXCEPT ![q][c][k] = state]
  BY <1>1, <1>2 DEF CallProvider, BandIndex, CreateOf, Page
<1>4. aProvider[q][c][k] = "none"
  BY <1>1, <1>2 DEF RunOK, MayCreate
<1>5. \A p \in ArabicPages, b \in Bands, e \in Creates :
        aProvider'[p][b][e] = aProvider[p][b][e] \/ (p = q /\ b = c /\ e = k)
  BY <1>1, <1>3 DEF Calls
<1> QED  BY <1>4, <1>5 DEF CallsOnce

LEMMA EndsOnce ==
  ASSUME ArabicInvariant, NEW q \in ArabicPages, NEW c \in Bands, NEW k \in Creates, NEW state,
         state \notin {"live", "lost"}, aProvider' = [aProvider EXCEPT ![q][c][k] = state]
  PROVE  \A p \in ArabicPages, b \in Bands : CallsOnce(aProvider[p][b], aProvider'[p][b])
<1>1. aProvider \in [ArabicPages -> [Bands -> Calls]]
  BY ArabicTyped DEF ArabicInvariant
<1>2. \A p \in ArabicPages, b \in Bands, e \in Creates :
        \/ aProvider'[p][b][e] = aProvider[p][b][e]
        \/ aProvider'[p][b][e] = state
  BY <1>1 DEF Calls
<1> QED  BY <1>2 DEF CallsOnce

LEMMA StepCallsOnce ==
  ASSUME ArabicInvariant, [Next_Arabic]_aVars
  PROVE  \A p \in ArabicPages, b \in Bands : CallsOnce(aProvider[p][b], aProvider'[p][b])
<1>1. CASE UNCHANGED aProvider
  BY <1>1 DEF CallsOnce
<1>2. ASSUME NEW i \in ArabicRuns, CreateInteraction(i)
      PROVE  aRun[i].pc = "create" /\ CallProvider(i, "live")
  BY <1>2 DEF CreateInteraction
<1>3. ASSUME NEW i \in ArabicRuns, CreateFails(i)
      PROVE  UNCHANGED aProvider \/ (aRun[i].pc = "create" /\ CallProvider(i, "lost"))
  BY <1>3 DEF CreateFails
<1>4. ASSUME NEW i \in ArabicRuns, CancelInteraction(i)
      PROVE  \/ UNCHANGED aProvider
             \/ \E q \in ArabicPages, c \in Bands, k \in Creates :
                  aProvider' = [aProvider EXCEPT ![q][c][k] = "cancelled"]
  <2>1. UNCHANGED aProvider \/ CallProvider(i, "cancelled")
    BY <1>4 DEF CancelInteraction
  <2>2. ~Between(i)
    BY <1>4 DEF CancelInteraction, Between
  <2>3. /\ aRun[i].page \in ArabicPages /\ aRun[i].band \in Bands /\ aRun[i].create \in Creates
    BY RunTyped DEF ArabicInvariant
  <2>4. CallProvider(i, "cancelled") =>
          aProvider' = [aProvider EXCEPT ![aRun[i].page][aRun[i].band][aRun[i].create] =
                          "cancelled"]
    BY <2>2 DEF CallProvider, BandIndex, CreateOf, Page
  <2> QED  BY <2>1, <2>3, <2>4
<1>p. ASSUME NEW i \in ArabicRuns, PollFails(i)
      PROVE  \/ UNCHANGED aProvider
             \/ \E q \in ArabicPages, c \in Bands, k \in Creates :
                  aProvider' = [aProvider EXCEPT ![q][c][k] = "unknown"]
  <2>1. Fresh(i) /\ Polls(i) /\ (UNCHANGED aProvider \/ CallProvider(i, "unknown"))
    BY <1>p DEF PollFails, WriteBand
  <2>2. /\ Page(i) \in ArabicPages /\ BandIndex(i) \in Bands /\ BandOf(i) \in BandRecord
        /\ BandOf(i).count # 0 /\ CreateOf(i) = BandOf(i).count
    BY <2>1, PollView, HolderView
  <2>3. CreateOf(i) \in Creates
    BY <2>2 DEF BandRecord, Creates
  <2> QED  BY <2>1, <2>2, <2>3 DEF CallProvider
<1>5. ASSUME NEW q \in ArabicPages, NEW c \in Bands, NEW k \in Creates,
             InteractionEnds(q, c, k)
      PROVE  \E state \in {"good", "bad", "failed"} :
               aProvider' = [aProvider EXCEPT ![q][c][k] = state]
  BY <1>5 DEF InteractionEnds
<1>6. ASSUME NEW i \in ArabicRuns, ArabicRunStep(i)
      PROVE  \/ UNCHANGED aProvider
             \/ CreateInteraction(i) \/ CreateFails(i) \/ CancelInteraction(i) \/ PollFails(i)
  BY <1>6
     DEF ArabicRunStep, ReuseArabicPage, ClaimArabicPage, EnsurePlan, ReserveVision,
         VisionCall, PersistPlan, AssemblePage, FailPage, SettlePage, ReservePrimary,
         ReserveFallback, Reserve, SelectLowQuality, FenceBand, GiveUpPage,
         StoreInteractionId, PollSucceeds, MarkCancelPending, SkipCancel,
         StoreCancelAnswer, AcceptInteraction, RecoverCompletedCancel,
         RecoverUnresolvedCancel
<1>7. \/ UNCHANGED aProvider
      \/ \E i \in ArabicRuns :
           CreateInteraction(i) \/ CreateFails(i) \/ CancelInteraction(i) \/ PollFails(i)
      \/ \E q \in ArabicPages, c \in Bands, k \in Creates : InteractionEnds(q, c, k)
  BY <1>6 DEF Next_Arabic, StartArabicRun, DeadlinePasses, StopArabicRun, ArabicLeaseExpires,
              ResolveVision, ResolveBand, aVars
<1>8. ASSUME NEW i \in ArabicRuns,
             CreateInteraction(i) \/ CreateFails(i) \/ CancelInteraction(i) \/ PollFails(i),
             ~UNCHANGED aProvider
      PROVE  \A p \in ArabicPages, b \in Bands : CallsOnce(aProvider[p][b], aProvider'[p][b])
  <2>1. CASE aRun[i].pc = "create" /\ (CallProvider(i, "live") \/ CallProvider(i, "lost"))
    BY <2>1, CreatesOnce
  <2>2. CASE \E q \in ArabicPages, c \in Bands, k \in Creates :
               \E state \in {"cancelled", "unknown"} :
                 aProvider' = [aProvider EXCEPT ![q][c][k] = state]
    <3>1. PICK q \in ArabicPages, c \in Bands, k \in Creates, state \in {"cancelled", "unknown"} :
            aProvider' = [aProvider EXCEPT ![q][c][k] = state]
      BY <2>2
    <3>2. state \notin {"live", "lost"}
      OBVIOUS
    <3> QED  BY <3>1, <3>2, EndsOnce
  <2> QED  BY <1>2, <1>3, <1>4, <1>p, <1>8, <2>1, <2>2
<1>9. ASSUME NEW q \in ArabicPages, NEW c \in Bands, NEW k \in Creates,
             InteractionEnds(q, c, k)
      PROVE  \A p \in ArabicPages, b \in Bands : CallsOnce(aProvider[p][b], aProvider'[p][b])
  <2>1. PICK state \in {"good", "bad", "failed"} :
          aProvider' = [aProvider EXCEPT ![q][c][k] = state]
    BY <1>5, <1>9
  <2>2. state \notin {"live", "lost"}
    OBVIOUS
  <2> QED  BY <2>1, <2>2, EndsOnce
<1> QED  BY <1>1, <1>7, <1>8, <1>9

(* The paid calls are made at most once, in all runs together: one Vision    *)
(* call per page, and no create of an interaction that was created before.   *)
THEOREM NobodyPaysTwice == Spec_Arabic => ProviderIsPaidOnce
<1>1. ArabicInvariant /\ [Next_Arabic]_aVars =>
        [/\ \A p \in ArabicPages : aPage'[p].calls <= 1
         /\ \A p \in ArabicPages, b \in Bands, k \in Creates :
              aProvider[p][b][k] # "none" /\ aProvider'[p][b][k] # aProvider[p][b][k]
              => aProvider'[p][b][k] \notin {"live", "lost"}]_aVars
  <2> SUFFICES ASSUME ArabicInvariant, [Next_Arabic]_aVars
               PROVE  /\ \A p \in ArabicPages : aPage'[p].calls <= 1
                      /\ \A p \in ArabicPages, b \in Bands, k \in Creates :
                           aProvider[p][b][k] # "none"
                           /\ aProvider'[p][b][k] # aProvider[p][b][k]
                           => aProvider'[p][b][k] \notin {"live", "lost"}
    OBVIOUS
  <2>1. ASSUME NEW p \in ArabicPages
        PROVE  aPage'[p].calls <= 1
    <3>1. ArabicInvariant'
      BY NextKeepsInvariant
    <3>2. aPage'[p].calls <= aPage'[p].vision /\ aPage' \in [ArabicPages -> PageRecord]
      BY <3>1 DEF ArabicInvariant, PageOK, ArabicTypeOK, PageRecord
    <3>3. aPage'[p].vision \in {0, 1} /\ aPage'[p].calls \in Nat
      BY <3>2 DEF PageRecord
    <3> QED  BY <3>2, <3>3
  <2>2. ASSUME NEW p \in ArabicPages, NEW b \in Bands, NEW k \in Creates,
               aProvider[p][b][k] # "none", aProvider'[p][b][k] # aProvider[p][b][k]
        PROVE  aProvider'[p][b][k] \notin {"live", "lost"}
    BY <2>2, StepCallsOnce DEF CallsOnce
  <2> QED  BY <2>1, <2>2
<1> QED  BY <1>1, ArabicInvariantHolds, PTL DEF Spec_Arabic, ProviderIsPaidOnce

(* A page row that is SUCCEEDED is not written. *)
LEMMA StepKeepsPage ==
  ASSUME ArabicInvariant, [Next_Arabic]_aVars, NEW p \in ArabicPages, aPage[p].status = "SUCCEEDED"
  PROVE  aPage'[p] = aPage[p]
<1>0. aPage \in [ArabicPages -> PageRecord] /\ PageOK(p) /\ Planned(p)
  BY ArabicTyped DEF ArabicInvariant, PageOK
<1>w. ASSUME NEW q, NEW row, q # p, aPage' = [aPage EXCEPT ![q] = row]
      PROVE  aPage'[p] = aPage[p]
  BY <1>0, <1>w
<1>1. CASE UNCHANGED aPage
  BY <1>1
<1>2. ASSUME NEW i \in ArabicRuns, StartArabicRun(i)
      PROVE  aPage'[p] = aPage[p]
  BY <1>2 DEF StartArabicRun
<1>3. ASSUME NEW i \in ArabicRuns, ClaimArabicPage(i)
      PROVE  aPage'[p] = aPage[p]
  <2>1. Page(i) # p
    BY <1>3 DEF ClaimArabicPage, RowOf
  <2> QED  BY <1>0, <1>3, <2>1 DEF ClaimArabicPage
<1>4. ASSUME NEW i \in ArabicRuns, ReserveVision(i)
      PROVE  aPage'[p] = aPage[p]
  <2>1. Page(i) # p
    BY <1>0, <1>4 DEF ReserveVision
  <2> QED  BY <1>0, <1>4, <2>1 DEF ReserveVision
<1>5. ASSUME NEW i \in ArabicRuns, VisionCall(i)
      PROVE  aPage'[p] = aPage[p]
  <2>1. Page(i) # p
    BY <1>0, <1>5 DEF VisionCall, ArabicInvariant, RunOK, Page
  <2> QED  BY <1>0, <1>5, <2>1 DEF VisionCall
<1>6. ASSUME NEW i \in ArabicRuns, AssemblePage(i) \/ FailPage(i)
      PROVE  aPage'[p] = aPage[p]
  <2>1. PICK status, fence : SettlePage(i, status, fence)
    BY <1>6 DEF AssemblePage, FailPage
  <2>2. Page(i) # p
    BY <2>1 DEF SettlePage, Fresh, RowOf
  <2> QED  BY <1>0, <2>1, <2>2 DEF SettlePage
<1>7. ASSUME NEW q \in ArabicPages, ArabicLeaseExpires(q)
      PROVE  aPage'[p] = aPage[p]
  <2>1. q # p
    BY <1>0, <1>7 DEF ArabicLeaseExpires, PageOK
  <2> QED  BY <1>0, <1>7, <2>1 DEF ArabicLeaseExpires
<1>8. ASSUME NEW q \in ArabicPages, ResolveVision(q)
      PROVE  aPage'[p] = aPage[p]
  <2>1. q # p
    BY <1>8 DEF ResolveVision
  <2> QED  BY <1>0, <1>8, <2>1 DEF ResolveVision
<1>9. ASSUME NEW i \in ArabicRuns, ArabicRunStep(i)
      PROVE  \/ UNCHANGED aPage
             \/ ClaimArabicPage(i) \/ ReserveVision(i) \/ VisionCall(i)
             \/ AssemblePage(i) \/ FailPage(i)
  BY <1>9
     DEF ArabicRunStep, ReuseArabicPage, EnsurePlan, PersistPlan, ReservePrimary,
         ReserveFallback, Reserve, SelectLowQuality, FenceBand, GiveUpPage, WriteBand,
         CreateInteraction, CreateFails, CancelInteraction, SucceedBand,
         StoreInteractionId, PollSucceeds, PollFails, MarkCancelPending, SkipCancel,
         StoreCancelAnswer, AcceptInteraction, RecoverCompletedCancel,
         RecoverUnresolvedCancel
<1>10. \/ UNCHANGED aPage
       \/ \E i \in ArabicRuns :
            \/ StartArabicRun(i) \/ ClaimArabicPage(i) \/ ReserveVision(i)
            \/ VisionCall(i) \/ AssemblePage(i) \/ FailPage(i)
       \/ \E q \in ArabicPages : ArabicLeaseExpires(q) \/ ResolveVision(q)
  BY <1>9 DEF Next_Arabic, DeadlinePasses, StopArabicRun, ResolveBand, InteractionEnds, aVars
<1> QED  BY <1>1, <1>2, <1>3, <1>4, <1>5, <1>6, <1>7, <1>8, <1>10

(* Bands are written by the plan, by a run at a band and by the operator.  *)
LEMMA WhoWritesBands ==
  ASSUME [Next_Arabic]_aVars
  PROVE  \/ UNCHANGED aBand
         \/ \E i \in ArabicRuns : PersistPlan(i) \/ (AtBand(i) /\ \E band : WriteBand(i, band))
         \/ \E q \in ArabicPages, c \in Bands : ResolveBand(q, c)
<1>1. ASSUME NEW i \in ArabicRuns, ArabicRunStep(i)
      PROVE  \/ UNCHANGED aBand
             \/ PersistPlan(i)
             \/ AtBand(i) /\ \E band : WriteBand(i, band)
  <2>1. Polls(i) => AtBand(i)
    BY DEF Polls, AtBand, Mid
  <2>2. CASE PollSucceeds(i) \/ PollFails(i) \/ MarkCancelPending(i)
    BY <2>1, <2>2 DEF PollSucceeds, PollFails, MarkCancelPending, SucceedBand
  <2>3. CASE ReservePrimary(i) \/ ReserveFallback(i) \/ SelectLowQuality(i) \/ FenceBand(i)
    BY <2>3 DEF ReservePrimary, ReserveFallback, Reserve, SelectLowQuality, FenceBand, AtBand
  <2>4. CASE RecoverCompletedCancel(i) \/ RecoverUnresolvedCancel(i)
    BY <2>4 DEF RecoverCompletedCancel, RecoverUnresolvedCancel, SucceedBand, AtBand
  <2>5. CASE CreateFails(i) \/ StoreInteractionId(i) \/ StoreCancelAnswer(i)
             \/ AcceptInteraction(i)
    BY <2>5 DEF CreateFails, StoreInteractionId, StoreCancelAnswer, AcceptInteraction,
                SucceedBand, AtBand, Mid
  <2>6. CASE ~(\/ PollSucceeds(i) \/ PollFails(i) \/ MarkCancelPending(i)
               \/ ReservePrimary(i) \/ ReserveFallback(i) \/ SelectLowQuality(i)
               \/ FenceBand(i) \/ RecoverCompletedCancel(i) \/ RecoverUnresolvedCancel(i)
               \/ CreateFails(i) \/ StoreInteractionId(i) \/ StoreCancelAnswer(i)
               \/ AcceptInteraction(i))
    BY <1>1, <2>6
       DEF ArabicRunStep, ReuseArabicPage, ClaimArabicPage, EnsurePlan, ReserveVision,
           VisionCall, AssemblePage, FailPage, SettlePage, GiveUpPage,
           CreateInteraction, CancelInteraction, SkipCancel
  <2> QED  BY <2>2, <2>3, <2>4, <2>5, <2>6
<1> QED
  BY <1>1 DEF Next_Arabic, StartArabicRun, DeadlinePasses, StopArabicRun, ArabicLeaseExpires,
              ResolveVision, InteractionEnds, aVars

(* A step that writes a band leaves the attempt alone, and never writes a  *)
(* band that is SUCCEEDED.                                                 *)
LEMMA StepKeepsBands ==
  ASSUME ArabicInvariant, [Next_Arabic]_aVars
  PROVE  /\ UNCHANGED aBand \/ UNCHANGED aAttempt
         /\ \A p \in ArabicPages, b \in Bands :
              aBand[p][b].status = "SUCCEEDED" => aBand'[p][b] = aBand[p][b]
<1>0. aBand \in [ArabicPages -> [Bands -> BandRecord]]
  BY ArabicTyped DEF ArabicInvariant
<1>1. ASSUME NEW i \in ArabicRuns, NEW band, AtBand(i), WriteBand(i, band)
      PROVE  /\ UNCHANGED aAttempt
             /\ \A p \in ArabicPages, b \in Bands :
                  aBand[p][b].status = "SUCCEEDED" => aBand'[p][b] = aBand[p][b]
  <2>1. /\ Fresh(i) /\ UNCHANGED aAttempt
        /\ aBand' = [aBand EXCEPT ![Page(i)][BandIndex(i)] = band]
    BY <1>1 DEF WriteBand
  <2>2. /\ Page(i) \in ArabicPages /\ BandIndex(i) \in Bands
        /\ aBand[Page(i)][BandIndex(i)].status # "SUCCEEDED"
    BY <1>1, <2>1, HolderView DEF BandOf
  <2> QED  BY <1>0, <2>1, <2>2
<1>3. ASSUME NEW i \in ArabicRuns, PersistPlan(i)
      PROVE  /\ UNCHANGED aAttempt
             /\ \A p \in ArabicPages, b \in Bands :
                  aBand[p][b].status = "SUCCEEDED" => aBand'[p][b] = aBand[p][b]
  <2>1. UNCHANGED aAttempt /\ \A q \in ArabicPages : q # Page(i) => aBand'[q] = aBand[q]
    BY <1>0, <1>3 DEF PersistPlan
  <2>2. PICK q \in ArabicPages : q = Page(i) /\ q = aRun[i].page
    BY RunTyped DEF ArabicInvariant, Page
  <2>3. ~Planned(q)
    BY <1>3, <2>2 DEF PersistPlan, ArabicInvariant, RunOK
  <2>4. \A b \in Bands : aBand[q][b].status = "NONE"
    BY <2>3 DEF ArabicInvariant, PageOK
  <2> QED  BY <2>1, <2>2, <2>4
<1>4. ASSUME NEW q \in ArabicPages, NEW c \in Bands, ResolveBand(q, c)
      PROVE  /\ UNCHANGED aAttempt
             /\ \A p \in ArabicPages, b \in Bands :
                  aBand[p][b].status = "SUCCEEDED" => aBand'[p][b] = aBand[p][b]
  <2>1. /\ UNCHANGED aAttempt /\ aBand[q][c].status = "FAILED"
        /\ \E band : aBand' = [aBand EXCEPT ![q][c] = band]
    BY <1>4 DEF ResolveBand, IsFenced
  <2> QED  BY <1>0, <2>1
<1> QED  BY <1>1, <1>3, <1>4, WhoWritesBands

(* What succeeded is kept by every later run, page or band, and a COMPLETED  *)
(* attempt has a successful band for everything it planned.                  *)
THEOREM ArabicSuccessStays == Spec_Arabic => ArabicSuccessIsKept
<1>1. ArabicInvariant /\ [Next_Arabic]_aVars => KeepsArabicSuccess
  <2> SUFFICES ASSUME ArabicInvariant, [Next_Arabic]_aVars
               PROVE  KeepsArabicSuccess
    OBVIOUS
  <2>1. \A p \in ArabicPages : aPage[p].status = "SUCCEEDED" => aPage'[p] = aPage[p]
    BY StepKeepsPage
  <2>2. \A p \in ArabicPages, b \in Bands :
          aBand[p][b].status = "SUCCEEDED" => aBand'[p][b] = aBand[p][b]
    BY StepKeepsBands
  <2>3. ASSUME aAttempt' = "COMPLETED", NEW p \in ArabicPages
        PROVE  BandsOf(p) # {} /\ OpenBands(p) = {}
    <3>1. 1 \in Bands
      BY ArabicPagesAssumption DEF Bands
    <3>2. CASE UNCHANGED aAttempt
      BY <2>3, <3>1, <3>2 DEF ArabicInvariant, PageOK, Planned, BandsOf
    <3>3. CASE UNCHANGED aBand
      <4>1. ArabicInvariant'
        BY NextKeepsInvariant
      <4>2. Planned(p)' /\ OpenBands(p)' = {}
        BY <2>3, <4>1 DEF ArabicInvariant, PageOK
      <4> QED  BY <3>1, <3>3, <4>2 DEF Planned, OpenBands, BandsOf
    <3> QED  BY <3>2, <3>3, StepKeepsBands
  <2> QED  BY <2>1, <2>2, <2>3 DEF KeepsArabicSuccess
<1>2. ArabicInvariant /\ [Next_Arabic]_aVars => [KeepsArabicSuccess]_aVars
  BY <1>1
<1> QED  BY <1>2, ArabicInvariantHolds, PTL DEF Spec_Arabic, ArabicSuccessIsKept

(* The bands of a page that succeeded are all left as they are: a run that *)
(* writes holds the page RUNNING, and the operator resolves nothing there. *)
LEMMA StepKeepsPageBands ==
  ASSUME ArabicInvariant, [Next_Arabic]_aVars, NEW p \in ArabicPages, aPage[p].status = "SUCCEEDED"
  PROVE  aBand'[p] = aBand[p]
<1>0. aBand \in [ArabicPages -> [Bands -> BandRecord]]
  BY ArabicTyped DEF ArabicInvariant
<1>1. ASSUME NEW i \in ArabicRuns, Fresh(i)
      PROVE  Page(i) # p
  BY <1>1 DEF Fresh, RowOf
<1>2. ASSUME NEW i \in ArabicRuns, PersistPlan(i)
      PROVE  aBand'[p] = aBand[p]
  <2>1. Page(i) # p
    BY <1>1, <1>2 DEF PersistPlan
  <2> QED  BY <1>0, <1>2, <2>1 DEF PersistPlan
<1>3. ASSUME NEW i \in ArabicRuns, NEW band, WriteBand(i, band)
      PROVE  aBand'[p] = aBand[p]
  <2>1. Page(i) # p
    BY <1>1, <1>3 DEF WriteBand
  <2> QED  BY <1>0, <1>3, <2>1 DEF WriteBand
<1>4. ASSUME NEW q \in ArabicPages, NEW c \in Bands, ResolveBand(q, c)
      PROVE  aBand'[p] = aBand[p]
  <2>1. q # p
    BY <1>4 DEF ResolveBand, OperatorMayResolve
  <2> QED  BY <1>0, <1>4, <2>1 DEF ResolveBand
<1> QED  BY <1>2, <1>3, <1>4, WhoWritesBands

(* An attempt that is COMPLETED has no page left to claim or to settle.    *)
LEMMA CompletedStays ==
  ASSUME ArabicInvariant, [Next_Arabic]_aVars, aAttempt = "COMPLETED"
  PROVE  aAttempt' = "COMPLETED"
<1>1. \A p \in ArabicPages : aPage[p].status = "SUCCEEDED"
  BY DEF ArabicInvariant, PageOK
<1>2. \A i \in ArabicRuns : RowOf(i).status = "SUCCEEDED"
  BY <1>1, RunTyped DEF ArabicInvariant, RowOf, Page
<1>3. ASSUME NEW i \in ArabicRuns, StartArabicRun(i)
      PROVE  UNCHANGED aAttempt
  BY <1>3 DEF StartArabicRun
<1>4. ASSUME NEW i \in ArabicRuns
      PROVE  ~ClaimArabicPage(i) /\ ~AssemblePage(i) /\ ~FailPage(i)
  BY <1>2 DEF ClaimArabicPage, AssemblePage, FailPage, SettlePage, Fresh
<1>5. ASSUME NEW i \in ArabicRuns, ArabicRunStep(i)
      PROVE  UNCHANGED aAttempt
  BY <1>4, <1>5
     DEF ArabicRunStep, ReuseArabicPage, EnsurePlan, ReserveVision, VisionCall, PersistPlan,
         ReservePrimary, ReserveFallback, Reserve, SelectLowQuality, FenceBand, GiveUpPage,
         WriteBand, CreateInteraction, CreateFails, CancelInteraction, SucceedBand,
         StoreInteractionId, PollSucceeds, PollFails, MarkCancelPending, SkipCancel,
         StoreCancelAnswer, AcceptInteraction, RecoverCompletedCancel,
         RecoverUnresolvedCancel
<1> QED
  BY <1>3, <1>5
  DEF Next_Arabic, DeadlinePasses, StopArabicRun, ArabicLeaseExpires, ResolveVision,
      ResolveBand, InteractionEnds, aVars

(* The rows of an attempt act as one store that is written once: whichever *)
(* runs and operators work at it, no band of a page that succeeded moves   *)
(* again, and COMPLETED stands for all of them (_rollup_attempt_locked).   *)
THEOREM ArabicImplementsWriteOnce == Spec_Arabic => ArabicWritesOnce
<1> DEFINE AllWritten == \A p \in ArabicPages : ArabicTexts[p] # <<>>
           Attempt == IF aAttempt = "COMPLETED" THEN ArabicTexts ELSE <<>>
<1>1. Init_Arabic => ArabicStore!Init
  BY DEF Init_Arabic, NoArabicPage, ArabicTexts, ArabicStore!Init
<1>2. ASSUME ArabicInvariant, aAttempt = "COMPLETED"
      PROVE  AllWritten
  <2> TAKE p \in ArabicPages
  <2>1. ArabicTexts[p] = aBand[p]
    BY <1>2 DEF ArabicInvariant, PageOK, ArabicTexts
  <2>2. DOMAIN aBand[p] = Bands /\ 1 \in Bands
    BY <1>2, ArabicTyped, ArabicPagesAssumption DEF ArabicInvariant, Bands
  <2>3. DOMAIN <<>> = {}
    OBVIOUS
  <2> QED  BY <2>1, <2>2, <2>3
<1>3. ArabicInvariant' => (aAttempt' = "COMPLETED" => AllWritten')
  <2> DEFINE CompletedIsWhole == aAttempt = "COMPLETED" => AllWritten
  <2>1. ArabicInvariant => CompletedIsWhole
    BY <1>2
  <2>2. ArabicInvariant' => CompletedIsWhole'
    <3> HIDE DEF CompletedIsWhole
    <3> QED  BY <2>1, PTL
  <2> QED  BY <2>2
<1>4. ASSUME ArabicInvariant, ArabicInvariant', [Next_Arabic]_aVars
      PROVE  ArabicStore!Next
  <2>1. ASSUME NEW p \in ArabicPages, aPage[p].status = "SUCCEEDED"
        PROVE  ArabicTexts'[p] = ArabicTexts[p]
    <3>1. aPage'[p] = aPage[p] /\ aBand'[p] = aBand[p]
      BY <1>4, <2>1, StepKeepsPage, StepKeepsPageBands
    <3> QED  BY <3>1 DEF ArabicTexts
  <2>2. \A p \in ArabicPages : ArabicTexts[p] # <<>> => ArabicTexts'[p] = ArabicTexts[p]
    BY <2>1 DEF ArabicTexts
  <2>3. \/ Attempt' = Attempt
        \/ Attempt = <<>> /\ AllWritten' /\ Attempt' = ArabicTexts'
    <3>1. CASE aAttempt = "COMPLETED"
      <4>1. aAttempt' = "COMPLETED"
        BY <1>4, <3>1, CompletedStays
      <4>2. ArabicTexts' = ArabicTexts
        BY <1>4, <2>1, <3>1 DEF ArabicInvariant, PageOK, ArabicTexts
      <4> QED  BY <3>1, <4>1, <4>2
    <3>2. CASE aAttempt # "COMPLETED" /\ aAttempt' = "COMPLETED"
      BY <1>3, <1>4, <3>2
    <3>3. CASE aAttempt # "COMPLETED" /\ aAttempt' # "COMPLETED"
      BY <3>3
    <3> QED  BY <3>1, <3>2, <3>3
  <2>4. ArabicStore!Write
    BY <2>2 DEF ArabicStore!Write, ArabicTexts
  <2>5. ArabicStore!Answer
    BY <2>3 DEF ArabicStore!Answer, ArabicStore!Whole, ArabicStore!Contents, ArabicTexts
  <2> QED
    BY <2>4, <2>5 DEF ArabicStore!Next
<1> QED
  BY <1>1, <1>4, ArabicInvariantHolds, PTL DEF Spec_Arabic, ArabicWritesOnce, ArabicStore!Spec
=============================================================================
