SPECIFICATION Spec_Pages
CONSTANTS
  GeminiPageCount = 2
  GeminiRunCount = 3
  GeminiModelCount = 2
  GeminiStartCap = 4096
  GeminiHardCap = 12288
  ArabicPageCount = 1
  ArabicBandCount = 1
  ArabicRunCount = 2
  ArabicClaimBound = 2
  TrRunCount = 2
  TrWorkers = {t1, t2}
  TrMode = "UPLOAD_CREATED"
  TrForceReprocess = FALSE
  TrActivation = FALSE
  SnapStorerCount = 2
  SnapPageCount = 2
  ReviewHebrew = FALSE
  ReviewStaff = {r1}
  ReviewTextCount = 2
  ReviewRevBound = 3
  SecondReviewer = r2
  SourceMaxFiles = 3
  SourceTabs = {b1, b2}
  SourceRowBound = 1
  LoneTab = b1
  Proposals = {m1, m2}
  Entities = {e1, e2}
  Reviewers = {v1, v2}
  NoEntity = NoEntity
  SecondProposal = m2
  SecondEntity = e2
  PeopleItems = {i1}
  PhotoSlots = {1, 2}
  Persons = {h1, h2}
  PeopleWriters = {x1, x2}
  PeopleTxBound = 2
  PeopleBeside = {"nothing", "edits", "imports"}
  SecondItem = i2
  OnePhoto = {1}
  AuthoredItems = {i1}
  AuthorIdCount = 3
  AuthorNames = {n1, n2}
  AuthorWriters = {x1, x2}
  AuthorTxBound = 2
  Unused = Unused
  Deleted = Deleted
  NoAuthor = NoAuthor
  SyncRequestCount = 2
  SyncWorkers = {w1, w2}
  SyncSenders = {s1}
  SyncSlots = {1}
  Nobody = Nobody
INVARIANTS
  PagesTypeOK
  MissingPagesAreReported
  PageBudgetHolds
  FallbackIsTried
  OneLiveInteraction
  EveryBandStepsSuffice
  EndedRequestIsTrue
  RunningSyncKeepsMessage
  ReadySnapshotIsWhole
  FreshTranslationIsOfItsSource
  AttemptKeepsItsPages
  PinIsExplained
  PhotoPeopleAreLinked
  AuthorNamesAgree
PROPERTIES
  GeminiWritesOnce
  SnapshotIsWrittenOnce
  FetchIsPromised
  LiveLeaseIsExclusive
  ProviderIsPaidOnce
  EverySuccessIsKept
  AssociationIsKept
  UploadKeepsEdits
  StaffReplaceWhatTheySaw
  DecisionsStand
  IndexKeepsUp
\* every part really ends
CHECK_DEADLOCK FALSE
