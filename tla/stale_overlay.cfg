SPECIFICATION Spec
CONSTANTS
  Hebrew = TRUE
  ResumableRoute = TRUE
  MaxRequests = 1
  Workers = {w1, w2}
  Senders = {s1, s2}
  Slots = {1}
  Payloads = {"UPLOAD"}
  SourceResults = {"usable"}
  TranslationResults = {"usable"}
  MultiImage = FALSE
  Events = {"stale_upload"}
INVARIANTS
  OverlayIsParked
SYMMETRY Symmetry
