SPECIFICATION MCSpec
CONSTANTS
  emp = emp
  hr = hr
  admin = admin
  none = none
  norow = norow
  h1 = h1
  h2 = h2
  DaysPerYear <- MCDaysPerYear
  Staff = {emp}
  Approvers = {hr}
  MaxRequests = 2
  Years <- MCYears
  Calendar <- MCCalendar
  Payloads <- MCTwoPayloads
  Joined <- MCJoined
  NoRow = norow
  Nobody = none
  Handlers = {h1, h2}
INVARIANTS
  StoredCounterWithinGrant
PROPERTIES
  RowsAreNotRecreated
  SerialImplementsLedger
SYMMETRY Symmetry
