CONSTANTS
  Pages = {p1, p2}
  Sockets = {s1, s2}
  Replicas = {r1, r2}
  NoPage = NoPage
  NoSocket = NoSocket
  MaxQuestions = 2
  MaxCrashes = 1
SPECIFICATION Spec
CHECK_DEADLOCK FALSE
INVARIANTS
  OneQuestionPerSocket
  WaitsForAnAnswer
  RegistryIsExact
  MuteByAnOldError
PROPERTIES
  ImplementsConversation
  QuestionsAreAnswered
