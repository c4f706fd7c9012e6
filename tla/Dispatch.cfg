\* Three calls, so that a fan-out or a run of reads has something before or after it, and a cap
\* that a group can reach in the middle.
CONSTANTS
  N = 3
  Cap = 2
  Classes = {"read", "write", "delegate"}
  Policies = {"allow", "ask_mode"}
  HookVerdicts = {"pass", "ask"}
  Rewrites = {"deny"}
SPECIFICATION FairSpec
INVARIANTS RunsInTurn CapHolds DenialTakesBackTheRest
PROPERTIES KeepsPromise AnsweredBatchEnds
