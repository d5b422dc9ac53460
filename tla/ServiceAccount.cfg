SPECIFICATION Spec
CONSTANTS
  Index = 65536
  k1 = k1
  code = code
  data = data
  ejector = ejector
  Ejector = ejector
  KeyLength <- KeyLengths
  PreimageLength <- Preimages
  MinBalance = 100
  PerItem = 10
  PerOctet = 1
  Keys = {k1}
  ValueLengths = {2}
  Hashes = {code}
  OtherLengths = {4}
  Expiration = 1
  Amounts = {80}
  MaxSlot = 5
  MaxCalls = 3
  MaxBalance = 370
CHECK_DEADLOCK FALSE
INVARIANT CountersExact
INVARIANT Solvent
INVARIANT PreimageIsRequested
INVARIANT LookupIsTruthful
INVARIANT StateReadsBack
PROPERTY EjectLosesNothing
