CONSTANTS
  Asks = {"first", "second"}
  MaxEdits = 1
  MaxServers = 2
  MaxDeaths = 1
SPECIFICATION FairSpec
CHECK_DEADLOCK FALSE
INVARIANTS AnswersAreOfTheirText ServersHold
PROPERTY WaitsEnd
