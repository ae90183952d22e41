SPECIFICATION FairSpec
CONSTANTS
  Bytes = {10, 20}
  Size = 6
  MinWrite = 3
  MaxWrite = 4
  Window = 3
  FlushBusy = FALSE
INVARIANTS
  TypeOK
  NothingStaleSent
  NoneStuck
PROPERTIES
  FifoSpec
