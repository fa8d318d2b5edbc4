CONSTANTS
  uniq = uniq
  old = old
  Tags <- MCTags
  UniqTag = uniq
  OtherLines <- MCOtherLines
  PipeCap = 2
  ReadMax = 1
  SpawnOutcomes = {"ok", "exec", "register"}
  ReadErrors = TRUE
  PollErrors = TRUE
SPECIFICATION Spec
INVARIANTS TypeOK NeverCrashes DoneMeansAnswered NoAdbOutOfReach NoAdbLeftBehind TimerOfCurrentTask NeverWaitsForever
PROPERTIES OwnEventsOnly IsSession
