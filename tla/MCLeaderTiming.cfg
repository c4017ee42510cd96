SPECIFICATION Spec
CONSTANTS
  s1 = s1
  s2 = s2
  s3 = s3
  s4 = s4
  Servers = {s1, s2, s3, s4}
  Byzantine = {s4}
  Down = {}
  F = 1
  K = 0
  MAX_TAT_TIME = 4
  MIN_RTT = 1
  KLAT = 1
  PRE_PREPARE = 1
  Rtt <- OneFarAway
  Lies = {0, 4}
  Watching = {s2}
ACTION_CONSTRAINTS BoundsFirst NoJitter
VIEW Relevant
INVARIANTS SlowLeaderSuspected
PROPERTIES WellPlacedLeaderTrusted
CHECK_DEADLOCK FALSE
