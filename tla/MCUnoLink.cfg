SPECIFICATION FairSpec
CONSTANTS
  Consoles = {0, 11}
  Universal = 0
  DataBytes = {20}
  MaxReport = 1
  BufSize = 6
  EventsRace = FALSE
  MaxSuspends = 1
INVARIANTS
  PairedReply
  BufferExclusive
  StrayHarmless
  AttachedKnown
PROPERTIES
  BridgeSpec
  ResponseArrives
