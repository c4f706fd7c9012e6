CONSTANTS
  Trees = {"good", "bad"}
  Begun = "good"
  Gates <- Two
  TierOf <- TierOfGate
  Passes <- PassesGate
  Slow = {"typecheck"}
  Edits = {"edit", "served"}
  MaxStopDenials = 1
  MaxTurns = 2
  MaxSteps = 3
  MaxWork = 2
  MaxCalls = 2
  MaxElsewhere = 1
SPECIFICATION Spec
CHECK_DEADLOCK FALSE
INVARIANTS DoneIsChecked RowsAreOfTheirTree
