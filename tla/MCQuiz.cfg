SPECIFICATION Spec
CONSTANTS
  Fold <- FoldOf
  NoAnswerText = "(no answer)"
  NoAnswerTime = 3
  Members = {1, 2}
  Words <- TwoWords
  Pack <- Packs
  Templates <- Rows
  Exercises <- TwoRows
  WordCount = 2
  OptionCount = 2
  ExerciseCount = 2
  Submitted <- SomeValues
  Times = {1, 2}
INVARIANTS
  TypeOK
  VocabularyIsSound
  AnswersFit
  CorrectMeansAllRight
  BonusGoesToTheFastest
  RewardsAreEarned
  ResultsRefineModels
PROPERTIES
  DrawEnds
CHECK_DEADLOCK FALSE
