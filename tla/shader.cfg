SPECIFICATION ShaderSpec
CONSTANTS
    BufLen = 5
    ArenaCap = 8
    BodyCap = 4
    TableLen = 2
    AbbrevCap = 2
    Bodies <- MCBodies
    MaxIters = 8
    MaxRounds = 8
    RematDepth = 2
    CallGraphs <- MCCallGraphs
    MaxDepth = 2
    MaxHelpers = 2
    SegCap = 1
INVARIANTS
    BodiesBound
    PointersCurrent
    AbbrevsAgree
    SameValues
    IdsDefined
    CallsDefined
    LocalsAtHome
PROPERTY
    TranslationEnds
