SPECIFICATION Spec
CONSTANTS
  Llm = Llm
  early = early
  peer = peer
  Others = {early, peer}
  Registration <- MCRegistration
  Priority <- MCPriority
  Handles <- MCHandles
  Replies <- MCReplies
  MaxEvents = 1
INVARIANTS MalformedHarmless
CHECK_DEADLOCK FALSE
