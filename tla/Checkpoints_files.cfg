CONSTANTS
  Paths = {p1, p2}
  Contents = {"text"}
  MaxRecords = 1
  MaxCalls = 2
  MaxEdits = 1
SPECIFICATION StoreSpec
SYMMETRY Symmetry
INVARIANT EditsAreBackedUp
