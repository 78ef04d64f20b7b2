SPECIFICATION Spec
CONSTANTS
    DurationMax = 7
    FloatMax = 5
    JitterUnit = 2
    NotANumber = NotANumber
    Width <- MCWidth
    CapBits = 3
    AddrBits = 2
    ByteSize = 4
    None = None
    MaxFailures = 5
    MaxBytes = 5
INVARIANTS
    DelayIsClosedForm
    JitterOnlyShortens
    OffsetsAreUsable
    WeightsAreShares
    ChecksumIsOnesComplement
    TtlKeepsChecksum
CHECK_DEADLOCK FALSE
