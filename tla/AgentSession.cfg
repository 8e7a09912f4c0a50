CONSTANTS
  Runs = {r1, r2}
  Requests = {q1, q2}
  u1 = u1
  u2 = u2
  NoAsk = NoAsk
  NoRequest = NoRequest
  Asks <- TwoUsers
  MaxFaults = 1
SPECIFICATION Spec
SYMMETRY Symmetry
CHECK_DEADLOCK FALSE
INVARIANTS
  NoApprovalBypass
  TrailLagsByOne
  ResumeSeesDecision
  RestingStates
PROPERTIES
  LifecycleOrder
  ImplementsGate
