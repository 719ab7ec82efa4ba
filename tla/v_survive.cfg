\* The bot dies between the commit and the enqueue.
CONSTANTS
  alice = alice  yt = yt  web = web
  best = best  hd = hd  sd = sd  w1 = w1  w2 = w2  null = null
  Users = {alice}
  Urls = {web}
  Qualities = {best, hd}
  Best = best
  YouTubeLinks = {}
  YouTube = {}
  Large <- NoPairs
  Unselectable <- NoPairs
  Oversize <- NoPairs
  Workers = {w1}
  MaxRecoveries = 1
  Events = {"restart"}
  MaxJobs = 1
  MaxClicks = 0
  MaxFaults = 1
  None = null
SPECIFICATION Spec
CHECK_DEADLOCK FALSE
INVARIANTS JobsSurvive
