SPECIFICATION Spec
CONSTANTS
  s1 = s1 s2 = s2 s3 = s3 bot = bot q1 = q1 q2 = q2 q3 = q3 h1 = h1 h2 = h2
  NoStudent = NoStudent
  Humans = {s1, s2}
  Bots = {bot}
  QuestionSets <- TwoQuestions
  Level <- SameLevel
  DemoStudents = {}
  DemoLimit = 1
  Handlers = {h1, h2}
  Budget <- AIBudget
  FindTypes = {"AI"}
  Documented = FALSE
  Loops = {"ender"}
  Exclusive = FALSE
  Faults = TRUE
SYMMETRY Symmetry
INVARIANTS
  EachBattleCountedOnce
  SqlOnlyWhenFinished
  FinishedIffComplete
  OneAnswerPerQuestion
CHECK_DEADLOCK FALSE
