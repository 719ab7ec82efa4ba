\* Two updates at a time.
CONSTANTS
  h1 = h1  h2 = h2  null = null
  Handlers = {h1, h2}
  Tasks = {h1, h2}
  Uploaders = {h1, h2}
  Kinds <- AllKinds
  Mixes <- UpdateMixes
  Toggles <- TwoSwitches
  Requests = {"text"}
  Configured = TRUE
  EventClass = "Update"
  Limit = 1
  MaxRulings = 2
  MaxClock = 2
  MaxErrors = 1
  MaxFailures = 2
  None = null
SPECIFICATION FairSpec
INVARIANTS TypeOK BannedIsNotServed PanelMatchesRow SomeCookieActive OneActiveUnlessMet RowsHaveFiles StartsAgain QuestionsHaveAnswers QueuedOncePerDialogue
PROPERTIES UpdatesEnd
CHECK_DEADLOCK FALSE
