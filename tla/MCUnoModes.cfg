SPECIFICATION ModesFairSpec
CONSTANTS
  PowerUp = {"ZERO", "GARBAGE"}
  DfuLeaves = {}
  PromptBoot = TRUE
  LateBoot = TRUE
  MaxCycles = 4
INVARIANTS
  ControllerHasPeer
  WishesServed
PROPERTY
  Settles
