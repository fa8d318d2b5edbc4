CONSTANTS
  MaxDisturb = 0
SPECIFICATION Spec
INVARIANT NotLeftDisconnected
CHECK_DEADLOCK FALSE
