SPECIFICATION FairSpec
CONSTANTS
  Clients = {c1, c2}
  Formats = {f1, f2}
  None = None
  MaxWindows = 2
  MaxLosses = 2
INVARIANTS
  TypeOK
  OneNotifier
PROPERTIES
  DeliveryKeepsContext
  ContractSpec
  CallsReturn
  LossReported

