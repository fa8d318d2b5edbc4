CONSTANTS
  MaxDisturb = 2
SPECIFICATION FairSpec
INVARIANTS TypeOK AnswersOnce NoJoiningAfterAnswer NoCrashBeforeAnswer
PROPERTIES NoAnswerAfterDestroy JoinEnds Answered
CHECK_DEADLOCK FALSE
