CONSTANTS
  None = None
  MaxUpdates = 5
  AtOnce = 2
  Begins <- PasswordsAndInterval
SPECIFICATION FairSpec
INVARIANTS
  TypeOK
  PromptIsTimed
  PasswordUsedOnce
  SerialFlowUntimed
PROPERTIES
  PasswordForgotten
CHECK_DEADLOCK FALSE
