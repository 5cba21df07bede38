SPECIFICATION Spec
CONSTANTS
    b1 = b1
    b2 = b2
    b3 = b3
    b4 = b4
    b5 = b5
    b6 = b6
    NI = 3
    Blocks <- MCBlocks
    RootBlock = b1
    S = 2
    E = 2
    Names = {a, b}
    DOT = DOT
    DOTDOT = DOTDOT
    NIL = NIL
    WILD = WILD
SYMMETRY BlockSymmetry
PROPERTIES OtherSlotsEmpty
