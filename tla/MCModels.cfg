SPECIFICATION PartsSpec
CONSTANTS
  Providers = {"claude", "codex", "deepseek", "openai"}
  UserTexts <- MCTexts
  None = None
  Replies <- MCReplies
  Branches <- MCBranches
  MaxCalls <- MCCalls
  MaxMessages = 4
  MaxAttempts = 2
  Title = {"a", "b"}
  MaxItems = 2
  Edits <- MCEdits
  Printed <- MCPrinted
  MaxReplies = 1
  MaxReplyCalls = 1
  MaxEvents = 5
INVARIANTS HoldsHistory ReplyKept ChecklistHeld
PROPERTIES CancelEnds
CHECK_DEADLOCK FALSE
