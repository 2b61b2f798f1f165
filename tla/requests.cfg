SPECIFICATION Spec
CONSTANTS
  Hebrew = TRUE
  ResumableRoute = TRUE
  MaxRequests = 2
  Workers = {w1, w2}
  Senders = {s1}
  Slots = {1}
  Payloads = {"UPLOAD", "REPROCESS"}
  SourceResults = {"usable"}
  TranslationResults = {"usable"}
  MultiImage = FALSE
  Events = {}
INVARIANTS
  OneActiveRequest
  ExecutedAtMostOnce
  RunningKeepsMessage
  ProcessingHasRequest
  InductiveInvariant
PROPERTIES
  DocumentWrittenByHolder
  LifecycleSpec
SYMMETRY Symmetry
