CONSTANTS
  Writes = {w1, w2}
  k1 = k1
  k2 = k2
  i1 = i1
  i2 = i2
  Jobs <- MCJobs
  NoJob = NoJob
  NoResult = NoResult
  Issues = {i1, i2}
  Searches = {s1}
  Polls = {p1}
  Consumers = {c1, c2}
  PageSize = 1
  Count = 1
  NoGroup = NoGroup
  MaxEdits = 1
  MaxFaults = 1
SPECIFICATION Spec
SYMMETRY Symmetry
CHECK_DEADLOCK FALSE
INVARIANTS
  AnswerWasDone
  DoneIsOnRecord
  DoneTwiceForCause
  MissedOnlyIfMoved
  EachEntryOnce
