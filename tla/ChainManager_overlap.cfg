SPECIFICATION History
CONSTANTS
  Blocks <- MCBlocks
  Genesis = "g"
  NoBlock = NoBlock
  Parent <- MCParent
  Slot <- MCSlot
  MaxInFlight = 3
INVARIANT ChainIsWhole
INVARIANT RivalsAreSettled
