CONSTANTS
  Requests = {1, 2, 3}
  Users = {1, 2, 3, 4}
  Roles = {11, 12, 13, 14}
  ann = ann
  bob = bob
  eve = eve
  clerk = clerk
  boss = boss
  Jobs <- MCJobs
  NoJob = NoJob
  None = None
  Empty = Empty
  Named <- MCNamed
  Granted = {}
  PoolSize = 2
  MaxFaults = 1
SPECIFICATION Spec
CONSTRAINT InOrder
CHECK_DEADLOCK FALSE
INVARIANTS
  NamesakesAreBounded
PROPERTIES
  RolesAreReplaced
  DeactivationSticks
  EveryRequestEnds
