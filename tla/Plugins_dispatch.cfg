SPECIFICATION Spec
CONSTANTS
  Llm = Llm
  early = early
  peer = peer
  Others = {early, peer}
  Registration <- MCRegistration
  Priority <- MCPriority
  Handles <- MCHandles
  Replies <- MCReplies
  MaxEvents = 2
INVARIANTS AskedInOrder OwnAnswer TokensCounted CollectedClean
PROPERTY DispatchEnds
CHECK_DEADLOCK FALSE
