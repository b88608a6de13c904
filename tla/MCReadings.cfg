CONSTANTS
  DayLength = 4
  Horizon = 20
  MaxGap = 2
  Followed = {"glm:quota", "glm:wallet", "deepseek:wallet", "deepseek:web", "codex"}
  ZonesOf <- MCZones
  Days = {5, 8, 9}
  Today = "today"
  AnswersOf <- MCAnswers
  Secrets = {"pasted", "blank", "unprintable"}
  MaxPuts = 1
  MaxRuns = 1
SPECIFICATION ReadingSpec
INVARIANTS
  ReadingTellsTheAnswer
  DayIsToday
  KeyWasAccepted
CHECK_DEADLOCK FALSE
