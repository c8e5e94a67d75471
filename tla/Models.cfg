CONSTANTS
    None = None
    NullDoc = NullDoc
    Caller = Caller
    AboutBlank = AboutBlank
    v1 = v1
    Vals <- MCVals
    Classes <- MCClasses
    ExtraKeys <- MCExtraKeys
    MaxKeys = 1
    MaxDepth = 1
SPECIFICATION Spec
INVARIANT TypeOK
INVARIANT WireRoundTrip
INVARIANT ModelRoundTrip
