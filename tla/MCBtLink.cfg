SPECIFICATION Spec
CONSTANTS
  Inputs = {"a", "b"}
  GuideInputs = {"b"}
  TxTypes = {"UNIVERSAL", "XBOXONE"}
  RxTypes = {"UNIVERSAL"}
  MaxAir = 2
  LossPhases = {"none", "pair", "query", "hids"}
  MaxFaults = 2
  MaxChanges = 3
INVARIANTS TypeOK NothingElseLost
PROPERTY ReconnectsIfSeen
CHECK_DEADLOCK FALSE
