SPECIFICATION Spec_Transkribus
CONSTANTS
  TrRunCount = 1
  TrWorkers = {t1, t2}
  TrMode = "UPLOAD_CREATED"
  TrForceReprocess = FALSE
  TrActivation = TRUE
PROPERTY EditsSurviveDuplicates
CHECK_DEADLOCK FALSE
