SPECIFICATION Spec
CONSTANTS
  Inputs = {"a"}
  GuideInputs = {}
  TxTypes = {"UNIVERSAL"}
  RxTypes = {"UNIVERSAL"}
  MaxAir = 1
  LossPhases = {"none", "pair", "query", "hids"}
  MaxFaults = 1
  MaxChanges = 0
PROPERTY Reconnects
CHECK_DEADLOCK FALSE
