\* Both stacks, one to three nodes, every shape of the alternatives file.
CONSTANTS
    None = None
    Invalid = Invalid
    MaxNodes = 3
SPECIFICATION MCSpec
INVARIANTS
    NamesReachTheirComponent
    NetworkIsOne
    ServedNamesAreCertified
    ValidatedWhereRecorded
    GoodInputIsAccepted
