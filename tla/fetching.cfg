\* Two proxies: a call and the health loop, or two calls that overlap; and lists
\* of up to two formats.
CONSTANTS
  p1 = p1  p2 = p2  c1 = c1  c2 = c2  null = null
  Proxies = {p1, p2}
  DeadAfter = 2
  RoundRobin = TRUE
  MaxTrouble = 1
  None = null
  Calls = {c1, c2}
  Heights = {0, 360, 1080}
  Sizes = {0, 1, 3}
  MaxBytes = 2
  MaxOffer = 2
SPECIFICATION MCSpec
INVARIANTS TypeOK StatusAgrees ExpiredCookieHarmless ChoiceIsBestFit DownloadKeepsToHeight
PROPERTIES WorkingProxyReturns RotationReachesAll CallsEnd
