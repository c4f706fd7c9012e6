\* A stream and a completion beside it, the features the endpoint may refuse, every dialect.
SPECIFICATION FairSpec
CONSTANTS
  Requests = {"turn", "aside"}
  Streaming = {"turn"}
  Dialects = {"chat", "messages", "native"}
  Features = {"usage", "effort", "protocol", "cache"}
  MaxAttempts = 3
  NoReason = 2
  Index = {0, 1}
  MaxEvents = 3
INVARIANTS
  GivenAsSent
PROPERTIES
  SilentAfterAbort
  RequestsEnd
