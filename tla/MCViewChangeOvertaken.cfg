SPECIFICATION VCSpec
CONSTANTS
  s1 = s1
  s2 = s2
  s3 = s3
  s4 = s4
  Servers = {s1, s2, s3, s4}
  F = 1
  K = 0
  NoPP = NoPP
  Unpopulated = Unpopulated
  NoReplay = NoReplay
  Server_ID <- IDs
  Byzantine = {}
  Down = {}
  UTIL_Leader_Of_View <- InTurn
  MaxView = 3
  MaxSeq = 1
  MaxPO = 0
  PreOrdered = 0
  Lies = {}
  VC_Lists <- Without4Then1
CONSTRAINT Overtaken
INVARIANTS ReplayCoversExecuted
CHECK_DEADLOCK FALSE
