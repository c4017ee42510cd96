SPECIFICATION FairSpec
CONSTANTS
  s1 = s1
  s2 = s2
  s3 = s3
  s4 = s4
  Servers = {s1, s2, s3, s4}
  Byzantine = {}
  Down = {s4}
  F = 1
  K = 0
  UTIL_Leader_Of_View <- FirstCorrect
  MaxView = 1
  MaxSeq = 1
  MaxPO = 1
  PreOrdered = 0
  Lies = {}
  NoPP = NoPP
  Unpopulated = Unpopulated
INVARIANTS TypeOK
PROPERTIES NoSlotHangs
CHECK_DEADLOCK FALSE
