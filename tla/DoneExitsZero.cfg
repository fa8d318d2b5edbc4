CONSTANTS
  uniq = uniq
  old = old
  Tags <- MCTags
  UniqTag = uniq
  OtherLines <- MCFewLines
  PipeCap = 1
  ReadMax = 1
  SpawnOutcomes = {"ok"}
  ReadErrors = FALSE
  PollErrors = FALSE
SPECIFICATION Spec
INVARIANT DoneExitsZero
