SPECIFICATION Spec
CONSTANTS
  Keys = {"k1", "k2", "k3", "k4"}
  NoKey = NoKey
  NoMark = NoMark
  ValidatorSets <- MCValidatorSets
  Id <- MCId
  FallbackSeat <- MCFallbackSeat
  V = 3
  E = 4
  Y = 3
  N = 2
  K = 2
  MaxSlot = 10
INVARIANT SlotsHaveSealers
INVARIANT FairShare
INVARIANT BestTicketsKept
INVARIANT EntropySettled
PROPERTY ImplementsFollower
CHECK_DEADLOCK FALSE
