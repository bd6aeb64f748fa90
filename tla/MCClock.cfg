SPECIFICATION Spec
CONSTANTS
  s1 = s1
  s2 = s2
  q1 = q1
  q2 = q2
  q3 = q3
  Humans = {s1, s2}
  Bots = {}
  NoStudent = NoStudent
  QuestionSets <- UpToTwoQuestions
  Level <- LevelOne
  QuestionTime = 3
  StartDelay = 2
  Period = 1
  MaxTime = 14
  MaxStarts = 2
INVARIANTS
  TypeOK
  EndsInTime
  IdleInTime
  PunctualNeverBlanked
  PlayedIsNotDeleted
CHECK_DEADLOCK FALSE
