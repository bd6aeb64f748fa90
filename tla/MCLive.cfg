SPECIFICATION FairSpec
CONSTANTS
  s1 = s1 s2 = s2 s3 = s3 bot = bot q1 = q1 q2 = q2 q3 = q3 h1 = h1 h2 = h2
  NoStudent = NoStudent
  Humans = {s1, s2}
  Bots = {bot}
  QuestionSets <- MaybeNone
  Level <- SameLevel
  DemoStudents = {}
  DemoLimit = 1
  Handlers = {h1}
  Budget <- LiveBudget
  FindTypes = {"P2P"}
  Documented = FALSE
  Loops = {"kicker", "ender"}
  Exclusive = FALSE
  Faults = FALSE
PROPERTIES
  QueueResolves
  PlayedBattlesEnd
CHECK_DEADLOCK FALSE
