SPECIFICATION TwiFairSpec
CONSTANTS
  TWI_BUFFER_LENGTH = 3
  Reads = {1, 3}
  Writes = {2, 3}
INVARIANTS
  TwiTypeOK
  Faithful
PROPERTIES
  CallsReturn
  Recovers
