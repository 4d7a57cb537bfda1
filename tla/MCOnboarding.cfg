SPECIFICATION MCSpec
CONSTANTS
  j1 = j1
  nodoc = nodoc
  nojob = nojob
  DocTypes = {"aadhaar", "photo"}
  MaxDocs = 2
  Jobs = {j1}
  MaxCrashes = 0
  NoDoc = nodoc
  NoJob = nojob
  Required = {"aadhaar", "photo"}
  Verifiable = {"aadhaar"}
  Templates = {"card"}
  Manual = {"extra"}
  Mandatory = {"card"}
  Wanted <- WantsAadhaar
  Registered = FALSE
INVARIANTS
  OnbTypeOK
  StageFollowsRulings
PROPERTIES
  StagesAdvance
  AssignedStageHasTasks
CHECK_DEADLOCK FALSE
