SPECIFICATION FairSpec
CONSTANTS
  MaxLen = 7
INVARIANTS NothingMissed NothingInvented
PROPERTIES IsLineReader Found
