CONSTANTS
  MaxDisturb = 0
SPECIFICATION Spec
PROPERTY AnswerOnConnection
CHECK_DEADLOCK FALSE
