CONSTANTS
    B = 2
    E = 4
SPECIFICATION Spec
PROPERTY ListingEnds
