SPECIFICATION ProcessSpec
CONSTANTS
  ClientDialects = {"chat", "responses", "messages", "gemini", "openai"}
  Configurations <- Confs
  Configured = "base"
  Enforcements = {TRUE, FALSE}
  MaxSize = 3
  MaxExtras = 1
  MaxReplyParts = 2
  MaxEdits = 1
  Upstreams = {"messages", "responses", "chat"}
  Clients = {"messages", "responses", "chat"}
  MaxItems = 2
  MaxTokens = 2
  MaxUnread = 3
  Callers = {c1, c2}
  Settings <- Saves
  DefaultPort = 1
  MaxMishaps = 2
  Observations <- Attempts
  Capacity = 2
  Ttl = 1
  Horizon = 1
  MaxSamples = 2
  MaxClock = 2
  MaxWork = 4
  RuleIds = {1, 2}
  RuleNames = {"a", "b"}
  Times = {0}
  Windows = {w1, w2}
  MaxRows = 3
  MaxReports = 1
  MaxWrites = 4
  PlanTargets <- Shown
  Strategies = {"", "score_within_tier", "cost_first"}
  MaxTargets = 3
CHECK_DEADLOCK FALSE
INVARIANTS ProcessTypeOK SentWhereSupported RequestKept ReplyKept
  ClientStreamLegal VerdictJust DeliveredAsSent CommitMeansOutput ListenerHonest CountsKept RulesHonest
PROPERTY StatusHonest
