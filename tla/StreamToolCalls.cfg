SPECIFICATION Spec
CONSTANTS
  Upstreams = {"chat"}
  Clients = {"messages"}
  MaxItems = 2
  MaxTokens = 2
  MaxUnread = 3
CHECK_DEADLOCK FALSE
INVARIANT ToolCallsReachClient
