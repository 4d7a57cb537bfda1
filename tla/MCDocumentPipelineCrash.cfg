SPECIFICATION FairDocSpec
CONSTANTS
  j1 = j1
  j2 = j2
  nodoc = nodoc
  nojob = nojob
  DocTypes = {"photo"}
  MaxDocs = 1
  Jobs = {j1}
  MaxCrashes = 1
  NoDoc = nodoc
  NoJob = nojob
PROPERTIES
  ExtractionEnds
CHECK_DEADLOCK FALSE
