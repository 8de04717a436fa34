SPECIFICATION CastSpec
CONSTANTS
  m1 = m1
  m2 = m2
  daemon = daemon
  page = page
  soc = soc
  health = health
  avc = avc
  blank = blank
  unused = unused
  Managers = {m1, m2}
  Clients = {daemon}
  Daemons = {daemon}
  Page = page
  Worlds = {"linux", "windows", "split"}
  Registry <- MCRegistry
  DefaultIds <- MCDefaultIds
  Health = health
  HealthAfter = 2
  NSlots = 3
  Blank = blank
  Unused = unused
  MaxSegments = 2
  MaxKills = 1
INVARIANTS TypeOK IndicesMeanTheirNames OneManagerPerSegment CompleteUnlessEarly CountExactUnlessEarly HealthyUnlessEarly
PROPERTIES RefusalsHaveAReason
CHECK_DEADLOCK FALSE
