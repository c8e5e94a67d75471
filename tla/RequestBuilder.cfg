CONSTANTS
    d1 = d1
    d2 = d2
    u1 = u1
    None = None
    Ids <- MCIds
    RawUrls <- MCRawUrls
    MaxBuilders = 4
SPECIFICATION Spec
INVARIANT TypeOK
INVARIANT FiltersReachWire
PROPERTY Refinement
CHECK_DEADLOCK FALSE
