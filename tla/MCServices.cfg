SPECIFICATION MCSpec
CONSTANTS
  Subjects = {k1}
  Callers = {t1, t2}
  Limit = 2
  Span = 4
  Second = 2
  Lag = 1
  LastTick = 9
  MaxRestarts = 1
  NotYet = notyet
  Codes = {c1}
  MaxTemplates = 2
  MaxRules = 2
  MaxEdits = 4
  Departments = {d1}
  DueDays = {1, 2}
  Assigners = {t1}
  Vacant = vacant
  Names = {"diwali", "Diwali", "holi"}
  Lower <- LowerCase
  Dates = {0, 2}
  YearLength = 2
  LastDay = 1
  MaxHolidays = 2
  Editors = {e1, e2}
  Blank = blank
  Actors = {a1, a2}
  MaxEntries = 4
  Moments = 3
  PageSize = 2
  ExportLimit = 2
  Silent = silent
  People = {p1, p2}
  Teams = {"eng"}
  Steps = {"invited", "complete"}
  Kinds = {"photo"}
  Papers = {1, 2}
  Duties = {t1}
  DayLength = 2
  EndOfTime = 4
  Days = 2
  Null = null
  Accounts = {a, b}
  Fetches = {r1, r2}
  Uploads = {r2}
  MaxSignIns = 3
  None = none
INVARIANTS
  ServicesTypeOK
  SlidingWindow
  StrictestWins
  ChecksHoldWithoutRaces
  ReadersAgree
  BrowserIsConsistent
PROPERTIES
  AssignedIsHistory
CHECK_DEADLOCK FALSE
