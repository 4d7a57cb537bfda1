SPECIFICATION AccSpec
CONSTANTS
  a = a b = b h1 = h1 h2 = h2
  Emails = {a, b}
  MaxRecords = 2
  MaxInvites = 3
  InviteTime = 2
  InviteLife = 2
  Clerks = {h1, h2}
  Gone = gone
  Desks = {h1, h2}
  MaxSessions = 1
  MaxResets = 1
  MaxChanges = 2
  LastMinute = 2
  MaxFailures = 2
  LockTime = 2
  AccessLife = 1
  RefreshLife = 2
  ResetLife = 2
  Never = never
  Addresses = {a, b}
  MaxUsers = 3
  Tabs = {h1, h2}
  Absent = absent
INVARIANTS
  AccountsTypeOK LinksAreSingleUse SessionsEnd
PROPERTIES
  ImplementsRegistration NoStepPastTheGuards
SYMMETRY Symmetry
CHECK_DEADLOCK FALSE
