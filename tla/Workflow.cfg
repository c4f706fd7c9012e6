\* Every workflow of three steps with at most one of its features, under fairness; stops and crashes unbounded.
CONSTANTS
  N = 3
  Limit = 2
  Features = 1
  MaxAnswers = 2
  Flows <- SmallFlows
SPECIFICATION FairSpec
INVARIANTS VerdictHolds
PROPERTIES CompletedNotRepeated KeepsPromise FinishesInTheEnd
