\* Two pieces of work for one slot, a table that keeps one ended line it told of.
CONSTANTS
  Work = {a, b}
  MaxChildren = 1
  Keep = 1
SPECIFICATION FairSpec
INVARIANTS SlotsHold
PROPERTIES ToldOnce StoppedWorkEnds NewsArrives
