\* Two turns, calls of the person or compactions, of two steps and two calls a reply.
SPECIFICATION Spec
CONSTANTS
  MaxSteps = 2
  CallCounts = {2}
  MaxTurns = 2
INVARIANTS
  ConversationKept
  RequestsHold
PROPERTIES
  WholeStaysWhole
