SPECIFICATION History
CONSTANTS
  Blocks <- MCBlocks
  Genesis = "g"
  NoBlock = NoBlock
  Parent <- MCParent
  Slot <- MCSlot
  MaxInFlight = 1
INVARIANT OneForkExtended
