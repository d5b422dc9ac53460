SPECIFICATION Refining
CONSTANTS
  ByteBits = 1
  FloatBits = 6
  Zp = 2
  NRegs = 3
  Packages <- MCPackages
  AuthLengths = {0, 2}
  Lengths = {0, 1}
  MaxOutput = 2
  MaxExports = 3
  Contents = {a, b}
  Zero = zero
  Codes <- MCCodes
  StartPcs <- MCStartPcs
  Inputs <- MCInputs
  Grants = {0, 2, 5}
  Probes <- MCProbes
  MaxGuests = 2
INVARIANTS
  ExportsInPlace
  InvocationsCompose
CHECK_DEADLOCK FALSE
