SPECIFICATION Spec
CONSTANTS
  s1 = s1
  s2 = s2
  s3 = s3
  s4 = s4
  Servers = {s1, s2, s3, s4}
  Byzantine = {s4}
  Down = {}
  F = 1
  K = 0
  UTIL_Leader_Of_View <- S4First
  MaxView = 2
  Prompt = {s2, s3}
  Lies <- TwoProposals
  Made_Up <- OfLaterView
  Copies <- MadeOfCopies
  Late = {s1, s2, s3}
  NoProposal = NoProposal
SYMMETRY NeverLeading
VIEW Relevant
INVARIANTS TypeOK ResetAgreement ExecutedIsCarriedOver EnoughMembers ExecutesAsMember
CHECK_DEADLOCK FALSE
