CONSTANTS
  Events = {e1}
  Workers = {w1, w2}
  MAX_RETRIES = 3
  Limit = 2
  NoItem = NoItem
  MaxFaults = 2
SPECIFICATION FairSpec
CHECK_DEADLOCK FALSE
INVARIANTS
  CountIsEarned
  DeadLetterAlerted
  GuardHoldsBack
PROPERTIES
  RetriesNeverStartOver
  EventsDrain
