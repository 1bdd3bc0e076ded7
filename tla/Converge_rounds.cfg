\* One session, two claims, tier T2; the session waits for its rounds.
\* The loop ends, so the system stops.
CONSTANTS
  e1 = e1
  e2 = e2
  r1 = r1
  r2 = r2
  Echo = Echo
  NoText = NoText
  NClaims = 2
  Cap = 2
  Rounders <- OneRounder
  Concurrency = 2
  Texts <- TwoTexts
  Answers <- OneOfEach
  MidRound = FALSE
  PendingAgain = FALSE
  MaxSlips = 1
  MaxHalts = 1
SPECIFICATION FairSpec
INVARIANTS Inv EachRoundOnFreshBytes ConvergedOnWhatWasJudged
PROPERTIES RoundsAreFinal LoopEnds
CHECK_DEADLOCK FALSE
