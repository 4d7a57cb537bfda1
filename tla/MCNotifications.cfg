SPECIFICATION NtfSpec
CONSTANTS
  Staff = {anna}
  Hires = {eve}
  Duties = {laptop}
  LastDay = 1
  DueSoonDays = 1
  Mailing = FALSE
  MaxEvents = 1
  Handlers = {h1, h2}
  Nothing = nothing
INVARIANTS
  InboxIsRight
PROPERTIES
  OverdueIsReminded
