\* The messages of a user who is no admin.
CONSTANTS
  h1 = h1  h2 = h2  null = null
  Handlers = {h1, h2}
  Tasks = {h1, h2}
  Uploaders = {h1, h2}
  Kinds = {"text"}
  Mixes <- TextOnly
  Toggles = {}
  Requests = {"text"}
  Configured = FALSE
  EventClass = "Update"
  Limit = 1
  MaxRulings = 2
  MaxClock = 2
  MaxErrors = 0
  MaxFailures = 0
  None = null
SPECIFICATION Spec
INVARIANTS LimitHolds
CHECK_DEADLOCK FALSE
