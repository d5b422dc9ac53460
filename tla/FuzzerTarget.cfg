SPECIFICATION Target
CONSTANTS
  Blocks <- MCBlocks
  Genesis = "g"
  NoBlock = NoBlock
  Nothing = Nothing
  Parent <- MCParent
  Slot <- MCSlot
  Size <- MCSize
  Undecodable = {"x1", "x2"}
  LengthEndsInOne = {"x2", "b1"}
INVARIANT AnswersAreRight
PROPERTY EveryRequestAnswered
CHECK_DEADLOCK FALSE
