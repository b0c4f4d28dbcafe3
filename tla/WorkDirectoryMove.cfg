SPECIFICATION LiveSpec
CONSTANTS
  away = away
  back = back
  home = home
  other = other
  work = work
  tools = tools
  s1 = s1
  s2 = s2
  Nil = Nil
  Request = {away, back}
  Place = {home, other}
  Origin = home
  Target <- MCTarget
  Directories <- MCDirectories
  Headers <- MCHeaders
  MaxFaults = 2
  MaxMeddling = 3
  MaxCrashes = 3
CHECK_DEADLOCK FALSE
PROPERTIES
  MovesAtomically
  LeasesHonoured
  SettlesUnaided
