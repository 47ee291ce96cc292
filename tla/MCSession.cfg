SPECIFICATION Spec
CONSTANTS
  Settings <- SmallSettings
  MaxResultsBlockChars = 6000
INVARIANTS
  WorkReachesUser
  NamesTheRest
  AnswerClean
PROPERTY LessonsKept
