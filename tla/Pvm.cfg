SPECIFICATION Lockstep
CONSTANTS
    ByteBits = 1
    FloatBits = 6
    Zp = 2
    NRegs = 3
    Zz = 2
    Zi = 2
    Families <- MCFamilies
    Answers = {3, 12}
    MaxResumes = 2
PROPERTY WasmAgrees
PROPERTY JumpsLandOnBlocks
PROPERTY FaultIsResumable
PROPERTY StoresStayInside
PROPERTY ImmediateFormsAgree
CHECK_DEADLOCK FALSE
INVARIANT ProgramsLoadWhole
