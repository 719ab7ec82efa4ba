\* A cancelled job whose task goes on.
CONSTANTS
  alice = alice  yt = yt  web = web
  best = best  hd = hd  sd = sd  w1 = w1  w2 = w2  null = null
  Users = {alice}
  Urls = {web}
  Qualities = {best, hd}
  Best = best
  YouTubeLinks = {}
  YouTube = {}
  Large <- NoPairs
  Unselectable <- NoPairs
  Oversize <- NoPairs
  Workers = {w1}
  MaxRecoveries = 1
  Events = {"cancel"}
  MaxJobs = 1
  MaxClicks = 0
  MaxFaults = 0
  None = null
SPECIFICATION Spec
CHECK_DEADLOCK FALSE
PROPERTIES CancelledStays
