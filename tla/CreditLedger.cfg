CONSTANTS
  Calls = {c1, c2, c3, c4}
  Apps = {a1, a2}
  a1 = a1
  a2 = a2
  NoJob = NoJob
  NoBalance = NoBalance
  Jobs <- AllJobs
  Purchased <- Three
  Loaded = {3, NoBalance}
  MaxFaults = 2
SPECIFICATION Spec
SYMMETRY Symmetry
CHECK_DEADLOCK FALSE
INVARIANTS
  NeverOverdrawn
  SpendingCovered
  BooksAgree
PROPERTIES
  MintedByStaleFillOnly
