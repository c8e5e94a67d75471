CONSTANTS
    None = None
    NullDoc = NullDoc
    Caller = Caller
    AboutBlank = AboutBlank
    v1 = v1
    v2 = v2
    Vals <- MCVals
    Classes <- MCClasses
    ExtraKeys <- MCExtraKeys
    MaxKeys = 2
    MaxDepth = 0
SPECIFICATION Spec
INVARIANT KnownFieldsTakePrecedence
