CONSTANTS
  uniq = uniq
  old = old
  Tags <- MCTags
  UniqTag = uniq
  OtherLines <- MCFewLines
  PipeCap = 2
  ReadMax = 1
  SpawnOutcomes = {"ok", "exec"}
  ReadErrors = FALSE
  PollErrors = TRUE
SPECIFICATION FairSpec
PROPERTIES PolledAnswerWins Terminates IsFairSession
