SPECIFICATION FairSpec
CONSTANTS
  Handlers = {h1, h2}
  NIds = 4
  MaxAdds = 4
  MaxDelay = 2
  Grain = 2
  Revents <- MCRevents
  SingleThreaded = TRUE
INVARIANTS NoOversleep Registered
PROPERTIES OwnEvents TimersServed
