SPECIFICATION Spec_Liveness
CONSTANTS
  Hebrew = TRUE
  ResumableRoute = TRUE
  MaxRequests = 1
  Workers = {w1}
  Senders = {s1, s2}
  Slots = {1}
  Payloads = {"UPLOAD"}
  SourceResults = {"usable"}
  TranslationResults = {"usable"}
  MultiImage = FALSE
  Events = {}
  GeminiPageCount = 2
  GeminiRunCount = 2
  SyncRequestCount = 1
  SyncWorkers = {w1, w2}
  SyncSenders = {s1}
  SyncSlots = {1}
  Nobody = Nobody
CHECK_DEADLOCK FALSE
PROPERTIES
  RunningIsSettled
  UploadIsClaimed
  GeminiRunsEnd
  SyncRequestsSettle
