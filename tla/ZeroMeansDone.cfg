CONSTANTS
  uniq = uniq
  old = old
  Tags <- MCTags
  UniqTag = uniq
  OtherLines <- MCFewLines
  PipeCap = 1
  ReadMax = 1
  SpawnOutcomes = {"ok", "exec"}
  ReadErrors = FALSE
  PollErrors = FALSE
SPECIFICATION Spec
INVARIANT ZeroMeansDone
