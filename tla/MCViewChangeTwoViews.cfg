SPECIFICATION VCSpec
CONSTANTS
  s1 = s1
  s2 = s2
  s3 = s3
  s4 = s4
  Servers = {s1, s2, s3, s4}
  F = 1
  K = 0
  NoPP = NoPP
  Unpopulated = Unpopulated
  NoReplay = NoReplay
  Server_ID <- IDs
  Byzantine = {}
  Down = {}
  UTIL_Leader_Of_View <- InTurn
  MaxView = 2
  MaxSeq = 2
  MaxPO = 1
  PreOrdered = 1
  Lies = {}
  VC_Lists <- Without1Or4
CONSTRAINT ApartOrGaps
INVARIANTS VCTypeOK OrderAgreement ReplayCoversExecuted ReplayedSlotsFollow
PROPERTIES ImplementsLog
CHECK_DEADLOCK FALSE
