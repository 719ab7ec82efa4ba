\* A second request of a YouTube URL is answered from the cache.
CONSTANTS
  alice = alice  yt = yt  web = web
  best = best  hd = hd  sd = sd  w1 = w1  w2 = w2  null = null
  Users = {alice}
  Urls = {yt}
  Qualities = {best, hd}
  Best = best
  YouTubeLinks = {yt}
  YouTube = {yt}
  Large <- NoPairs
  Unselectable <- NoPairs
  Oversize <- NoPairs
  Workers = {w1}
  MaxRecoveries = 1
  Events = {}
  MaxJobs = 2
  MaxClicks = 1
  MaxFaults = 0
  None = null
SPECIFICATION Spec
CHECK_DEADLOCK FALSE
INVARIANTS CacheKeyIsHonest
