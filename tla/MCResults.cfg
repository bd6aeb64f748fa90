SPECIFICATION FairSpec
CONSTANTS
  s1 = s1 s2 = s2 s3 = s3 bot = bot q1 = q1 q2 = q2 q3 = q3 h1 = h1 h2 = h2
  NoStudent = NoStudent
  Humans = {s1, s2}
  Bots = {bot}
  QuestionSets <- OneQuestion
  Level <- SameLevel
  DemoStudents = {}
  DemoLimit = 1
  Handlers = {h1, h2}
  Budget <- PairBudget
  FindTypes = {"P2P"}
  Documented = FALSE
  Loops = {"ender"}
  Exclusive = FALSE
  Faults = FALSE
INVARIANTS
  CountedResultsAreStored
PROPERTIES
  ResultsArrive
CHECK_DEADLOCK FALSE
