SPECIFICATION Spec
CONSTANTS
  s1 = s1 s2 = s2 s3 = s3 bot = bot q1 = q1 q2 = q2 q3 = q3 h1 = h1 h2 = h2
  NoStudent = NoStudent
  Humans = {s1, s2}
  Bots = {bot}
  QuestionSets <- UnevenSets
  Level <- SameLevel
  DemoStudents = {s1, bot}
  DemoLimit = 1
  Handlers = {h1}
  Budget <- SerialBudget
  FindTypes = {"P2P", "GROUP", "AI"}
  Documented = TRUE
  Loops = {"kicker", "ender"}
  Exclusive = TRUE
  Faults = FALSE
INVARIANTS
  TypeOK
  FinishedBattlesAreRanked
  StoredResultsAgree
  EachBattleCountedOnce
PROPERTIES
  ImplementsLifecycle
  FinishedMembersStay
  DemoLimitStops
CHECK_DEADLOCK FALSE
