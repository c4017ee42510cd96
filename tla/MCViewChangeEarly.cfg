SPECIFICATION VCFairSpec
CONSTANTS
  s1 = s1
  s2 = s2
  s3 = s3
  s4 = s4
  Servers = {s1, s2, s3, s4}
  F = 1
  K = 0
  NoPP = NoPP
  Unpopulated = Unpopulated
  NoReplay = NoReplay
  Server_ID <- IDs
  Byzantine = {}
  Down = {s4}
  UTIL_Leader_Of_View <- S4First
  MaxView = 2
  MaxSeq = 2
  MaxPO = 0
  PreOrdered = 0
  Lies = {}
  VC_Lists <- Without4
PROPERTIES ProposedAfterViewChangeIsExecuted
CHECK_DEADLOCK FALSE
