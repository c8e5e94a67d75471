CONSTANTS
    None = None
    Caller = Caller
    NullDoc = NullDoc
    Ints <- MCInts
    Strs <- MCStrs
    MaxLen = 2
SPECIFICATION Spec
INVARIANT TypeOK
INVARIANT DecodeEncodeFaithful
