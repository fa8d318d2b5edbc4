CONSTANTS
  InitSize = 2
  Unit = 2
  MaxRead = 5
  MaxAppend = 3
  MaxBytes = 14
SPECIFICATION Spec
INVARIANTS AssertsHold Fifo
