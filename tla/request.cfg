SPECIFICATION Spec
CONSTANTS
  Roles <- AllRoles
  System = System
  User = User
  Assistant = Assistant
  Prompt = Prompt
  Missing = Missing
  MaxLength = 5
CHECK_DEADLOCK FALSE
INVARIANTS
  PromptEndsSystemRun
  DefinedAfterSystem
