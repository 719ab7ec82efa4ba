\* No faults, a menu pressed twice: is the request answered?
CONSTANTS
  alice = alice  yt = yt  web = web
  best = best  hd = hd  sd = sd  w1 = w1  w2 = w2  null = null
  Users = {alice}
  Urls = {web, yt}
  Qualities = {best, hd, sd}
  Best = best
  YouTubeLinks = {}
  YouTube = {yt}
  Large <- WebHd
  Unselectable <- NoPairs
  Oversize <- WebBest
  Workers = {w1, w2}
  MaxRecoveries = 1
  Events = {}
  MaxJobs = 1
  MaxClicks = 2
  MaxFaults = 0
  None = null
SPECIFICATION FairSpec
CHECK_DEADLOCK FALSE
INVARIANTS NoneStranded
PROPERTIES RequestsAnswered PicksAnswered
