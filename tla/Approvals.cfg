\* A session and a child, five calls, two rules of seven besides what is granted.
SPECIFICATION Spec
CONSTANTS
  Tools = {"edit", "run", "commit"}
  Class <- ToolClass
  About = {"edit", "run"}
  AlwaysAsks = {"commit"}
  Subjects = {"a", "b", "c"}
  Outside = {"b"}
  Machinery = {}
  Sandboxed = TRUE
  Confirmed = FALSE
  BypassCommits = FALSE
  Children = {"child"}
  Trees <- WhereRunsWork
  Made <- FewCalls
  Ruled <- FewRules
  Lists <- FewLists
  Needed <- FewNeeds
  MaxRules = 2
INVARIANTS
  EnginesAgree
PROPERTIES
  NothingPastADeny
  NoAskLeftBehind
  NarrowingOnlyNarrows
