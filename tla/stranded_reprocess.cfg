SPECIFICATION FairSpec
CONSTANTS
  Hebrew = TRUE
  ResumableRoute = TRUE
  MaxRequests = 1
  Workers = {w1}
  Senders = {s1}
  Slots = {1}
  Payloads = {"REPROCESS"}
  SourceResults = {"usable"}
  TranslationResults = {"usable"}
  MultiImage = FALSE
  Events = {}
PROPERTIES
  ReprocessIsClaimed
