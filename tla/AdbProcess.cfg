SPECIFICATION ProcessSpec
CONSTANTS
  Tries = 3
  Calls <- MCCalls
  StartSets <- MCStartSets
  MaxFd = 14
  MaxExecs = 3
INVARIANTS
  NoChildLeft NeverHitsStranger FinalWaitEnds
  NothingLeaks HandlersOwnTheirEnds EndsAreSeen StdioRedirected
PROPERTY WaitReturns
