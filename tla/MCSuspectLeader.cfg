SPECIFICATION MCFairSpec
CONSTANTS
  s1 = s1
  s2 = s2
  s3 = s3
  s4 = s4
  Servers = {s1, s2, s3, s4}
  Byzantine = {s4}
  Down = {}
  F = 1
  K = 0
  UTIL_Leader_Of_View <- S4Second
  MaxView = 3
  OrderedIn <- FirstAndThird
  Asked <- AskS1
  Copied = {3}
  Made_Up <- MisleadS3
INVARIANTS TypeOK ViewsAreVotedFor
PROPERTIES NoneLeftBehind BadLeaderLeft
CHECK_DEADLOCK FALSE
