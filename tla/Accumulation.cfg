SPECIFICATION LiveSpec
CONSTANTS
  v1 = v1
  v2 = v2
  Reserved = 4
  LastId = 6
  MaxBlocks = 1
  Codes <- MCCodes
  Hashed = {5, 6}
  Floor = 1
  Cores = {1}
  Values = {v1, v2}
  TotalGas = 4
  CoresGas = 3
  Calls <- MCCalls
  Amounts = {1}
  Holders = {4, 5}
  Gases = {0, 1}
  Blocks <- MCBlocks
  Genesis <- MCGenesis
CHECK_DEADLOCK FALSE
INVARIANT FundsNeverGrow
INVARIANT NextIsFree
INVARIANT GasBounded
PROPERTY PrivilegesByHolders
PROPERTY Terminates
