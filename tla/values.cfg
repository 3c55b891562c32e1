SPECIFICATION Spec
CONSTANTS
    Params = 2
    Value <- MCValue
    Ulps <- MCUlps
INVARIANTS
    ValuesIInv
    PlainValuesSurvive
    BytesFitThePointer
    NoValueOffTheRow
