CONSTANTS
  Runs = {r1, r2}
  Requests = {q1, q2}
  u1 = u1
  u2 = u2
  NoAsk = NoAsk
  NoRequest = NoRequest
  Asks <- OneUser
  MaxFaults = 0
SPECIFICATION FairSpec
CHECK_DEADLOCK FALSE
PROPERTIES
  SessionsSettle
  ApprovingSettles
