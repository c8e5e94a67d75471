CONSTANTS
    d1 = d1
    d2 = d2
    u1 = u1
    None = None
    Ids <- MCIds
    RawUrls <- MCRawUrls
    MaxBuilders = 4
SPECIFICATION Spec
INVARIANT ItemRequestAddressesItem
CHECK_DEADLOCK FALSE
