----------------------------- MODULE MCOcrPages -----------------------------
(***************************************************************************)
(* The provider-side models side by side: `part` says which of them a      *)
(* behaviour is about, the variables of the others stay at one initial     *)
(* state. Arabic print has four sizes: overlapping runs of one band, and   *)
(* one run of two pages (without deadlines: each concerns one page), of    *)
(* two bands, or that dies and resumes again and again; an interaction     *)
(* without a known status concerns one band and is left out where there    *)
(* are two pages or bands. Transkribus has two deliveries of two runs, the *)
(* first one's transcript being the one that is corrected remotely, and of *)
(* one run with activations or on an existing server.                      *)
(* Text review has a translated document with one review page, and a       *)
(* Hebrew one with two of them. Source files have one tab that uploads     *)
(* three files, two tabs that upload two, and two tabs that append pages   *)
(* to an uploaded document. Mentions have one proposal with two candidate  *)
(* entities, and groups of two proposals with one.                         *)
(* People have one item with two photos, and two items with one photo.     *)
(* Authors have one item and new authors, and two items with an author of  *)
(* their own that they may share; of two equal requests to people or       *)
(* authors the first one is always made by the same writer.                *)
(***************************************************************************)
EXTENDS GeminiPageCheckpoints, GeminiPageCalls, ArabicPrintedPages,
        TranskribusRuns, CorrectedCurrentSync, SnapshotStorage, TextReview,
        SourceFiles, EntityReview, People, Authors

CONSTANTS SecondReviewer, LoneTab, SecondProposal, SecondEntity,
          SecondItem, OnePhoto

VARIABLE part

TwoPages == INSTANCE ArabicPrintedPages
  WITH ArabicPageCount <- 2, ArabicRunCount <- 1, ArabicClaimBound <- 1
OnTime == \A i \in DOMAIN aRun : ~ aRun[i].late
KnownStatus ==
  \A p \in DOMAIN aProvider : \A b \in DOMAIN aProvider[p], k \in Creates :
    aProvider[p][b][k] # "unknown"
TwoBands == INSTANCE ArabicPrintedPages
  WITH ArabicBandCount <- 2, ArabicRunCount <- 1, ArabicClaimBound <- 1
Restarts == INSTANCE ArabicPrintedPages
  WITH ArabicRunCount <- 1, ArabicClaimBound <- 4

Activated == INSTANCE TranskribusRuns WITH TrActivation <- TRUE
OnServer == INSTANCE TranskribusRuns
  WITH TrMode <- "EXISTING_SERVER", TrForceReprocess <- TRUE
OneRun == Created \subseteq {1}
OneCorrected == \A r \in TrRuns \ {1} : tRemote[r] # "corrected"

Mirrored == INSTANCE TextReview
  WITH ReviewHebrew <- TRUE, ReviewStaff <- ReviewStaff \cup {SecondReviewer}

OneTab == INSTANCE SourceFiles
  WITH SourceTabs <- {LoneTab}, SourceRowBound <- SourceRowBound + 1
TwoFiles == Rows \subseteq {0, 1}

OneMention ==
  /\ ePin[SecondProposal] = NoPin
  /\ \A e \in Entities : eCand[SecondProposal][e] = NoCandidate
OneEntity ==
  \A p \in Proposals :
    /\ SecondEntity # ePin[p].entity /\ eCand[p][SecondEntity] = NoCandidate
    /\ \A e \in Entities : eCand[p][e].to # SecondEntity

TwoItems == INSTANCE People
  WITH PeopleItems <- PeopleItems \cup {SecondItem}, PhotoSlots <- OnePhoto,
       PeopleBeside <- {"nothing"}

(* Persons and names are interchangeable: of two initial states that differ *)
(* by exchanging two of them one is enough.                                *)
PersonsInOrder ==
  LET rows(h) == Cardinality({l \in aip : l[2] = h}) + Cardinality({a \in pp : a[2] = h})
  IN \A h \in Persons : rows(h) <= rows(CHOOSE first \in Persons : TRUE)
NamesInOrder == auName[1] \in {Unused, CHOOSE first \in AuthorNames : TRUE}

FirstPeopleRequest ==
  pCount = 1 => LET first == CHOOSE w \in PeopleWriters : TRUE IN
                \A w \in PeopleWriters \ {first} : pTx[w] = NoTx
FirstAuthorRequest ==
  auCount = 1 => LET first == CHOOSE w \in AuthorWriters : TRUE IN
                 \A w \in AuthorWriters \ {first} : auTx[w].at = "idle"

SharedAuthors == INSTANCE Authors
  WITH AuthoredItems <- AuthoredItems \cup {SecondItem}, AuthorIdCount <- 2

MCVars == <<gVars, gc, aVars, tVars, ccVars, sVars, rVars, uVars, eVars, pVars,
            auVars, part>>

ArabicParts == {"arabic", "two pages", "two bands", "restarts"}
TranskribusParts == {"transkribus", "activated", "on server"}
SourceParts == {"one tab", "two tabs", "appending"}
EntityParts == {"mentions", "groups"}
PeopleParts == {"photos", "items"}
AuthorParts == {"authors", "shared authors"}

(* Empty catalogues, for the other parts. *)
NoPeople ==
  /\ pLive = {} /\ pNames = <<>> /\ pp = {} /\ aip = {} /\ pIndex = <<>>
  /\ pTx = <<>> /\ pCount = 0 /\ pBeside = "nothing"

NoAuthors ==
  auName = <<>> /\ auLinks = <<>> /\ auText = <<>> /\ auTx = <<>> /\ auCount = 0

Init_Pages ==
  /\ part \in {"gemini", "calls", "sync", "snapshot", "review", "mirrored"}
                \cup ArabicParts \cup TranskribusParts \cup SourceParts
                \cup EntityParts \cup PeopleParts
                \cup AuthorParts
  /\ Init_Gemini
  /\ Init_Calls
  /\ part # "calls" => gc = NewPage("default", 1, FALSE)
  /\ CASE part = "two pages" -> TwoPages!Init_Arabic
       [] part = "two bands" -> TwoBands!Init_Arabic
       [] part = "restarts" -> Restarts!Init_Arabic
       [] OTHER -> Init_Arabic
  /\ Init_Transkribus
  /\ Init_Sync
  /\ Init_Snapshot
  /\ IF part = "mirrored" THEN Mirrored!Init_Review ELSE Init_Review
  /\ IF part = "one tab" THEN OneTab!Init_Source ELSE Init_Source
  /\ part \in {"one tab", "two tabs"} \/ uDoc = SingleFile
  /\ Init_Entity
  /\ CASE part = "photos" -> Init_People /\ PersonsInOrder
       [] part = "items" ->
            /\ TwoItems!Init_People /\ PersonsInOrder
            /\ \A a \in pp : ItemOf(a[1]) = SecondItem
       [] OTHER -> NoPeople
  /\ CASE part = "authors" -> 
            Init_Authors /\ NamesInOrder /\ auName[AuthorIdCount] = Unused
       [] part = "shared authors" ->
            /\ SharedAuthors!Init_Authors /\ NamesInOrder
            /\ auName[1] # Unused /\ auName[2] \in AuthorNames \ {auName[1]}
            /\ auLinks[SecondItem] = <<1>>
       [] OTHER -> NoAuthors

OthersRest(vars) == UNCHANGED <<part, vars>>

GeminiPart ==
  /\ part = "gemini"
  /\ OthersRest(<<gc, aVars, tVars, ccVars, sVars, rVars, uVars, eVars, pVars, auVars>>)
  /\ Next_Gemini
CallsPart ==
  /\ part = "calls"
  /\ OthersRest(<<gVars, aVars, tVars, ccVars, sVars, rVars, uVars, eVars, pVars, auVars>>)
  /\ Next_Calls
ArabicPart ==
  /\ part \in ArabicParts
  /\ OthersRest(<<gVars, gc, tVars, ccVars, sVars, rVars, uVars, eVars, pVars, auVars>>)
  /\ \/ part = "arabic" /\ Next_Arabic
     \/ part = "two pages" /\ TwoPages!Next_Arabic /\ OnTime' /\ KnownStatus'
     \/ part = "two bands" /\ TwoBands!Next_Arabic /\ KnownStatus'
     \/ part = "restarts" /\ Restarts!Next_Arabic
TranskribusPart ==
  /\ part \in TranskribusParts
  /\ OthersRest(<<gVars, gc, aVars, ccVars, sVars, rVars, uVars, eVars, pVars, auVars>>)
  /\ \/ part = "transkribus" /\ Next_Transkribus /\ OneCorrected'
     \/ part = "activated" /\ Activated!Next_Transkribus /\ OneRun'
     \/ part = "on server" /\ OnServer!Next_Transkribus /\ OneRun'
SyncPart ==
  /\ part = "sync"
  /\ OthersRest(<<gVars, gc, aVars, tVars, sVars, rVars, uVars, eVars, pVars, auVars>>)
  /\ Next_Sync
SnapshotPart ==
  /\ part = "snapshot"
  /\ OthersRest(<<gVars, gc, aVars, tVars, ccVars, rVars, uVars, eVars, pVars, auVars>>)
  /\ Next_Snapshot
ReviewPart ==
  /\ part \in {"review", "mirrored"}
  /\ OthersRest(<<gVars, gc, aVars, tVars, ccVars, sVars, uVars, eVars, pVars, auVars>>)
  /\ \/ part = "review" /\ Next_Review
     \/ part = "mirrored" /\ Mirrored!Next_Review
SourcePart ==
  /\ part \in SourceParts
  /\ OthersRest(<<gVars, gc, aVars, tVars, ccVars, sVars, rVars, eVars, pVars, auVars>>)
  /\ \/ part = "one tab" /\ OneTab!Next_Source
     \/ part = "two tabs" /\ Next_Source /\ TwoFiles'
     \/ part = "appending" /\ Next_Source

EntityPart ==
  /\ part \in EntityParts
  /\ OthersRest(<<gVars, gc, aVars, tVars, ccVars, sVars, rVars, uVars, pVars, auVars>>)
  /\ \/ part = "mentions" /\ Next_Entity /\ OneMention'
     \/ part = "groups" /\ Next_Entity /\ OneEntity'

PeoplePart ==
  /\ part \in PeopleParts
  /\ OthersRest(<<gVars, gc, aVars, tVars, ccVars, sVars, rVars, uVars, eVars, auVars>>)
  /\ \/ part = "photos" /\ Next_People
     \/ part = "items" /\ TwoItems!Next_People
  /\ FirstPeopleRequest'

AuthorPart ==
  /\ part \in AuthorParts
  /\ OthersRest(<<gVars, gc, aVars, tVars, ccVars, sVars, rVars, uVars, eVars, pVars>>)
  /\ \/ part = "authors" /\ Next_Authors
     \/ part = "shared authors" /\ SharedAuthors!Next_Authors
  /\ FirstAuthorRequest'

Next_Pages ==
  \/ GeminiPart \/ CallsPart \/ ArabicPart \/ TranskribusPart \/ SyncPart
  \/ SnapshotPart \/ ReviewPart \/ SourcePart \/ EntityPart \/ PeoplePart
  \/ AuthorPart

Spec_Pages == Init_Pages /\ [][Next_Pages]_MCVars

(* Every row and local of the active part has one of its shapes. *)
PagesTypeOK ==
  CASE part = "gemini" -> GeminiTypeOK
    [] part = "calls" -> CallsTypeOK
    [] part = "arabic" -> ArabicTypeOK
    [] part = "two pages" -> TwoPages!ArabicTypeOK
    [] part = "two bands" -> TwoBands!ArabicTypeOK
    [] part = "restarts" -> Restarts!ArabicTypeOK
    [] part \in TranskribusParts -> TranskribusTypeOK
    [] part = "sync" -> SyncTypeOK
    [] part = "snapshot" -> SnapTypeOK
    [] part = "review" -> ReviewTypeOK
    [] part = "mirrored" -> Mirrored!ReviewTypeOK
    [] part = "one tab" -> OneTab!SourceTypeOK
    [] part \in {"two tabs", "appending"} -> SourceTypeOK
    [] part \in EntityParts -> EntityTypeOK
    [] part = "photos" -> PeopleTypeOK
    [] part = "items" -> TwoItems!PeopleTypeOK
    [] part = "authors" -> AuthorTypeOK
    [] part = "shared authors" -> SharedAuthors!AuthorTypeOK

(* BandStepsSuffice for every size of the attempt. *)
EveryBandStepsSuffice ==
  CASE part = "two pages" -> TwoPages!BandStepsSuffice
    [] part = "two bands" -> TwoBands!BandStepsSuffice
    [] part = "restarts" -> Restarts!BandStepsSuffice
    [] part = "arabic" -> BandStepsSuffice
    [] OTHER -> TRUE

(* ArabicSuccessIsKept and the steps of ArabicWritesOnce for every size of *)
(* the attempt.                                                            *)
KeepsEverySuccess ==
  CASE part = "arabic" -> KeepsArabicSuccess /\ ArabicStore!Next
    [] part = "two pages" -> TwoPages!KeepsArabicSuccess /\ TwoPages!ArabicStore!Next
    [] part = "two bands" -> TwoBands!KeepsArabicSuccess /\ TwoBands!ArabicStore!Next
    [] part = "restarts" -> Restarts!KeepsArabicSuccess /\ Restarts!ArabicStore!Next
    [] OTHER -> TRUE

EverySuccessIsKept == [][KeepsEverySuccess]_aVars

(* EditsSurviveDuplicates where the row is bound by no other run and by no *)
(* activation: uploaded documents whose staff only edit and verify.        *)
UploadKeepsEdits == [][part = "transkribus" => KeepsEdits]_tVars
=============================================================================
