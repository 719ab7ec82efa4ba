\* Two jobs of any two URLs, two task slots; every command, every fault but a sweep
\* that rolls back, and heartbeats that age only when nobody works.
CONSTANTS
  alice = alice  yt = yt  web = web
  best = best  hd = hd  sd = sd  w1 = w1  w2 = w2  null = null
  Users = {alice}
  Urls = {web, yt}
  Qualities = {best}
  Best = best
  YouTubeLinks = {yt}
  YouTube = {yt}
  Large <- NoPairs
  Unselectable <- NoPairs
  Oversize <- NoPairs
  Workers = {w1, w2}
  MaxRecoveries = 1
  Events = {"cancel", "clear", "reddit", "crash", "timeout", "error"}
  MaxJobs = 2
  MaxClicks = 1
  MaxFaults = 1
  None = null
SPECIFICATION Spec
SYMMETRY WorkerSymmetry
CHECK_DEADLOCK FALSE
INVARIANTS SingleHolder
PROPERTIES CancelsOnlyActive NoRebirth
