SPECIFICATION Spec_Pages
CONSTANTS
  GeminiPageCount = 1
  GeminiRunCount = 1
  GeminiModelCount = 1
  GeminiStartCap = 4096
  GeminiHardCap = 12288
  ArabicPageCount = 1
  ArabicBandCount = 1
  ArabicRunCount = 1
  ArabicClaimBound = 1
  TrRunCount = 1
  TrWorkers = {}
  TrMode = "UPLOAD_CREATED"
  TrForceReprocess = FALSE
  TrActivation = FALSE
  SnapStorerCount = 0
  SnapPageCount = 1
  ReviewHebrew = FALSE
  ReviewStaff = {r1}
  ReviewTextCount = 2
  ReviewRevBound = 3
  SecondReviewer = r2
  SourceMaxFiles = 3
  SourceTabs = {b1, b2}
  SourceRowBound = 1
  LoneTab = b1
  Proposals = {m1, m2}
  Entities = {e1, e2}
  Reviewers = {v1}
  NoEntity = NoEntity
  SecondProposal = m2
  SecondEntity = e2
  PeopleItems = {i1}
  PhotoSlots = {1}
  Persons = {h1}
  PeopleWriters = {}
  PeopleTxBound = 0
  PeopleBeside = {"nothing", "edits", "imports"}
  SecondItem = i2
  OnePhoto = {1}
  AuthoredItems = {i1}
  AuthorIdCount = 1
  AuthorNames = {n1}
  AuthorWriters = {}
  AuthorTxBound = 0
  Unused = Unused
  Deleted = Deleted
  NoAuthor = NoAuthor
  SyncRequestCount = 1
  SyncWorkers = {}
  SyncSenders = {}
  SyncSlots = {1}
  Nobody = Nobody
INVARIANT LowQualityAfterTheEnd
CHECK_DEADLOCK FALSE
