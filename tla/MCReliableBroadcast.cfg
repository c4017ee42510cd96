SPECIFICATION FairSpec
CONSTANTS
  s1 = s1
  s2 = s2
  s3 = s3
  s4 = s4
  p1 = p1
  p2 = p2
  Servers = {s1, s2, s3, s4}
  Byzantine = {s4}
  Down = {}
  F = 1
  K = 0
  Originator = s4
  Payloads = {p1, p2}
  NoPayload = NoPayload
  MaxView = 2
  LieViews = {2}
  LieTo = {s1, s2}
INVARIANTS TypeOK Agreement NoDuplicates
PROPERTIES Totality
CHECK_DEADLOCK FALSE
