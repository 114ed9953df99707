SPECIFICATION Spec
CONSTANTS
  MaxCalls = 2
  MaxSessions = 2
  MaxTyped = 1
INVARIANTS
  RefusedPromptLeavesNothing
CHECK_DEADLOCK FALSE
