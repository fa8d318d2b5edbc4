SPECIFICATION Spec
CONSTANTS
  Units <- MCUnits
  Operands <- MCOperands
  Unknown <- MCUnknown
  MaxUnits = 4
  Expansion <- MCExpansion
  Cuts <- MCCuts
  Times <- MCTimes
  Era <- MCEra
  MaxGap = 2000
INVARIANTS AsDocumented WordsDelivered TagsDifferSoon
CHECK_DEADLOCK FALSE
