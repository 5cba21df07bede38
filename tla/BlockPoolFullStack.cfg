SPECIFICATION Spec
CONSTANTS
    NG = 2
    G = 2
    W = 8
    NIL = NIL
    WILD = WILD
    Junk <- MCJunk
    MaxRefs = 2
PROPERTIES FreedBlockHeadsStack
