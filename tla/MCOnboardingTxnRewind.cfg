SPECIFICATION TxnSpec
CONSTANTS
  j1 = j1
  nodoc = nodoc
  nojob = nojob
  h1 = h1
  h2 = h2
  DocTypes = {"aadhaar", "photo"}
  MaxDocs = 2
  Jobs = {j1}
  MaxCrashes = 0
  NoDoc = nodoc
  NoJob = nojob
  Required = {"aadhaar", "photo"}
  Verifiable = {}
  Templates = {"card"}
  Manual = {}
  Mandatory = {"card"}
  Wanted <- WantsAadhaar
  Registered = TRUE
  Handlers = {h1, h2}
  Kept = kept

PROPERTIES
  StageOnlyMovesForward
SYMMETRY Symmetry
CHECK_DEADLOCK FALSE
