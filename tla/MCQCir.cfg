SPECIFICATION QCirSpec
CONSTANTS
    Adjoint <- MCAdjoint
    Arity <- MCArity
    Others <- MCOthers
    MaxQubits = 3
    MaxGates = 3
    MaxId = 3
INVARIANTS
    LinesAgree
    CachesAgree
PROPERTY KeepsTheLines
CHECK_DEADLOCK TRUE
