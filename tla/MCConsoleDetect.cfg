SPECIFICATION FairSpec
CONSTANTS
  CONSOLE_TYPE = "UNIVERSAL"
  Setups <- Everything
  MaxResets = 1
INVARIANTS
  NeverMistaken
  FewChanges
PROPERTIES
  Recognised
  Shown
CHECK_DEADLOCK FALSE
