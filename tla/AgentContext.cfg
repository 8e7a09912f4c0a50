CONSTANTS
  Runs = {n1, n2}
  Replicas = {r1, r2}
  UserEntries = {u1}
  RoleEntries = {o1}
  short = short
  long = long
  rude = rude
  Layers = {short, long, rude}
  NoLayer = NoLayer
  NoRow = NoRow
  Length <- MCLength
  Conflicting = {rude}
  CoreLength = 8
  LabelLength = 4
  Limits = {1, 2, 4, 5, 6}
  MaxRotations = 1
SPECIFICATION Spec
SYMMETRY Symmetry
CHECK_DEADLOCK FALSE
INVARIANTS
  PromptFits
  NothingLeftOutSilently
  UnreadableOnlyAfterRotation
