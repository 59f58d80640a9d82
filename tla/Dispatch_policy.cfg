SPECIFICATION MCSpec
CONSTANTS
    Ids = {1, 2}
    AdminIds = {2}
    Paths <- MCPaths
    ParseInt64 <- MCParseInt64
    TTL = 1
    Skew = 1
    MaxTokens = 2
    MaxTime = 3
    CodePoint <- MCCodePoint
    Hex4 <- MCHex4
    MaxDepth = 3
    FirstCap = 1
    BufCap = 1
    NumberMax = 7
    MaxAllocs = 18
    NameMin = 2
    NameMax = 3
    NameSize = 4
    EmailMax = 4
    EmailSize = 5
    Reserved <- MCReserved
INVARIANTS OnlyEntitled AuditHonest Base64Canonical CredentialRules
PROPERTIES JsonExact JsonBalanced
