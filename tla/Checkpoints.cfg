CONSTANTS
  Paths = {p1, p2}
  Contents = {"text"}
  MaxRecords = 2
  MaxCalls = 2
  MaxEdits = 1
SPECIFICATION StoreSpec
SYMMETRY Symmetry
INVARIANTS ChangesComeBack
