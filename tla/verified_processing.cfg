SPECIFICATION Spec
CONSTANTS
  Hebrew = TRUE
  ResumableRoute = TRUE
  MaxRequests = 2
  Workers = {w1, w2}
  Senders = {s1}
  Slots = {1}
  Payloads = {"REPROCESS"}
  SourceResults = {"usable"}
  TranslationResults = {"usable"}
  MultiImage = FALSE
  Events = {"verify"}
INVARIANTS
  ProcessingHasRequest
SYMMETRY Symmetry
