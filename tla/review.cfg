SPECIFICATION Spec
CONSTANTS
  Hebrew = FALSE
  ResumableRoute = TRUE
  MaxRequests = 2
  Workers = {w1, w2}
  Senders = {s1}
  Slots = {1}
  Payloads = {"REPROCESS", "TRANSLATION"}
  SourceResults = {"usable"}
  TranslationResults = {"failed", "usable"}
  MultiImage = TRUE
  Events = {"verify", "restore_error"}
INVARIANTS
  OverlayIsParked
  FinishedHasText
PROPERTIES
  TextWrittenByLatest
  VerifiedTextIsKept
SYMMETRY Symmetry
