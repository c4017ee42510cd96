SPECIFICATION Spec
CONSTANTS
  s1 = s1
  s2 = s2
  s3 = s3
  s4 = s4
  Servers = {s1, s2, s3, s4}
  Byzantine = {s4}
  Down = {}
  F = 1
  K = 0
  UTIL_Leader_Of_View <- FirstByzantine
  MaxView = 2
  MaxSeq = 2
  MaxPO = 1
  PreOrdered = 0
  Lies <- TwoThenOne
  NoPP = NoPP
  Unpopulated = Unpopulated
SYMMETRY NeverLeading
CONSTRAINT LeavingOrChaining
VIEW Relevant
INVARIANTS OrderAgreement CommittedIsReported NoRequestTwiceOrSkipped AcceptedCoversExecuted NoLostWakeup
CHECK_DEADLOCK FALSE
