SPECIFICATION Spec
CONSTANTS
  Header = 1
  Slots = 2
  Pointer = 2
  Threads <- MCThreads
  Vars <- MCVars
  Addresses <- MCAddresses
  ArrayAddresses <- MCArrayAddresses
  Placed <- MCPlaced
  Rounds = 4
  UserRounds = 2
INVARIANTS
  EmutlsInv
  AddressesAreOwn
  NothingLeaks
PROPERTIES
  AddressesAreFinal
  CallsReturn
CHECK_DEADLOCK FALSE
