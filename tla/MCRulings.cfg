SPECIFICATION MCSpec
CONSTANTS
  emp = emp
  hr = hr
  admin = admin
  none = none
  norow = norow
  DaysPerYear <- MCDaysPerYear
  Staff = {emp, hr}
  Approvers = {hr, admin}
  MaxRequests = 2
  Years <- MCYears
  Calendar <- MCCalendar
  Payloads <- MCPayloads
  Joined <- MCJoined
  NoRow = norow
  Nobody = none
  DocTypes = {"photo"}
  MaxDocs = 2
  Jobs = {j1, j2}
  MaxCrashes = 1
  NoDoc = nodoc
  NoJob = nojob
INVARIANTS
  TypeOK
  UsedMatchesApproved
  ApprovedFitsBalance
  DecisionAttribution
  DocTypeOK
  RowHasBlob
  UnreadIsInHand
PROPERTIES
  DecisionsStand
  LedgerMovesWithDecisions
  DeletedStaysDeleted
  HandledIsRead
CHECK_DEADLOCK FALSE
