SPECIFICATION MCSpec
CONSTANTS
    Instances = {i1, i2}
    Usernames = {"root", "ops"}
    Emails = {"root@x", "ops@x"}
    Environments <- MCEnvironments
    MaxStarts = 4
    LongOf <- MCLongOf
    BoolOf <- MCBoolOf
    TextOf <- MCTextOf
    IntRange <- MCIntRange
    PortMax = 3
    StrSize = 6
    SecretMin = 3
    KdfMin = 2
    PasswordMin = 2
    MaxOrigins = 2
CHECK_DEADLOCK FALSE
INVARIANTS SeededOnce ServesReady ConfigExact
