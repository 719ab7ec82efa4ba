\* One job, two task slots; everything that can stop or duplicate an attempt.
CONSTANTS
  alice = alice  yt = yt  web = web
  best = best  hd = hd  sd = sd  w1 = w1  w2 = w2  null = null
  Users = {alice}
  Urls = {web, yt}
  Qualities = {best, hd}
  Best = best
  YouTubeLinks = {yt}
  YouTube = {yt}
  Large <- NoPairs
  Unselectable <- WebBest
  Oversize <- NoPairs
  Workers = {w1, w2}
  MaxRecoveries = 1
  Events = {"reddit", "crash", "timeout", "error", "abort", "restart", "slow"}
  MaxJobs = 1
  MaxClicks = 1
  MaxFaults = 1
  None = null
SPECIFICATION FairSpec
CHECK_DEADLOCK FALSE
INVARIANTS TypeOK RecoveryBounded DeliveryBounded AloneUntilHandedOutAgain
PROPERTIES StartedJobsEnd ContractHolds
