SPECIFICATION FairSpec
CONSTANTS
  s1 = s1
  s2 = s2
  s3 = s3
  s4 = s4
  Servers = {s1, s2, s3, s4}
  Byzantine = {s4}
  Down = {}
  F = 1
  K = 0
  UTIL_Leader_Of_View <- FirstByzantine
  MaxView = 1
  MaxSeq = 1
  MaxPO = 1
  PreOrdered = 1
  Lies <- OneToEach
  NoPP = NoPP
  Unpopulated = Unpopulated
PROPERTIES NoSlotHangs
CHECK_DEADLOCK FALSE
