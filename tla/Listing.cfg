CONSTANTS
    B = 3
    E = 3
SPECIFICATION Spec
INVARIANT TypeOK
INVARIANT LookupExact
INVARIANT MissedOnlyBehindHoles
INVARIANT ListingExact
PROPERTY ScansEnd
