SPECIFICATION Spec
CONSTANTS
  Index = 65536
  k1 = k1
  code = code
  data = data
  ejector = ejector
  Ejector = ejector
  KeyLength <- KeyLengths
  PreimageLength <- Preimages
  MinBalance = 100
  PerItem = 10
  PerOctet = 1
  Keys = {}
  ValueLengths = {}
  Hashes = {code, data}
  OtherLengths = {}
  Expiration = 1
  Amounts = {110}
  MaxSlot = 6
  MaxCalls = 1
  MaxBalance = 320
CHECK_DEADLOCK FALSE
INVARIANTS
  ReavailableIsFound
