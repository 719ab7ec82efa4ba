\* Three jobs of two media, no faults: what the cache hands on from one to the next.
CONSTANTS
  alice = alice  yt = yt  web = web
  best = best  hd = hd  sd = sd  w1 = w1  w2 = w2  null = null
  Users = {alice}
  Urls = {web, yt}
  Qualities = {best, hd, sd}
  Best = best
  YouTubeLinks = {yt}
  YouTube = {yt}
  Large <- NoPairs
  Unselectable <- NoPairs
  Oversize <- WebBest
  Workers = {w1, w2}
  MaxRecoveries = 1
  Events = {}
  MaxJobs = 3
  MaxClicks = 1
  MaxFaults = 0
  None = null
SPECIFICATION Spec
SYMMETRY SlotSymmetry
CHECK_DEADLOCK FALSE
INVARIANTS FileIsOfUrl DirectKeyIsHonest
