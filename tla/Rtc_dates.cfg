CONSTANTS
  StartDates <- MCStartDates
  MaxTicks = 2
SPECIFICATION Spec
INVARIANTS TypeOK WrongOnlyAtCarry NeverBeforeCall
CHECK_DEADLOCK FALSE
